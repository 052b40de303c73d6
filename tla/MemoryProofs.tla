---------------------------- MODULE MemoryProofs ----------------------------
(***************************************************************************)
(* Theorems about Memory for any variables, handles, cells and depth of    *)
(* blocks: types, what owners and their counts say of the variables that   *)
(* hold them, and that the statistics add up.                              *)
(***************************************************************************)
EXTENDS Memory, FiniteSetTheorems, NaturalsInduction, WellFoundedInduction, TLAPS

Kinds == {"unbound", "null", "ptr", "own", "shared", "weak", "buf"}
Values == [k : Kinds, id : Nat]
Envs == [MemNames -> Values]
Below(m) == 1 .. m.next - 1

Shaped(m) ==
  m = [raw |-> m.raw, vecs |-> m.vecs, own |-> m.own, shared |-> m.shared, weak |-> m.weak,
       buf |-> m.buf, next |-> m.next, allocs |-> m.allocs, frees |-> m.frees, views |-> m.views]
Numbered(m) ==
  /\ m.next \in 1 .. MemMaxId + 1 /\ m.allocs \in Nat /\ m.frees \in Nat /\ m.views \in Int
Tables(m) ==
  /\ m.own \subseteq Below(m)
  /\ DOMAIN m.shared \subseteq Below(m) /\ m.shared \in [DOMAIN m.shared -> [strong : Nat, weak : Nat]]
  /\ DOMAIN m.weak \subseteq Below(m) /\ m.weak \in [DOMAIN m.weak -> Below(m)]
  /\ DOMAIN m.buf \subseteq Below(m) /\ m.buf = [i \in DOMAIN m.buf |-> m.buf[i]]
  /\ DOMAIN m.raw \subseteq Below(m) /\ m.raw \in [DOMAIN m.raw -> [vec : Nat, at : Nat]]
  /\ \A p \in DOMAIN m.raw : m.raw[p].vec \in DOMAIN m.vecs
Typed(m) == Shaped(m) /\ Numbered(m) /\ Tables(m)

\* o and s: how many hold each heap<T> and each shared<T>.
Tallies == [Nat -> Nat]
Onto(m, id) == {w \in DOMAIN m.weak : m.weak[w] = id}
Tallied(m, o, s) ==
  /\ \A id \in m.own : o[id] = 1
  /\ \A id \in DOMAIN m.shared : /\ m.shared[id].strong = s[id]
                                 /\ m.shared[id].weak = Cardinality(Onto(m, id))
                                 /\ m.shared[id].strong + m.shared[id].weak > 0
  /\ \A id \in Nat : (o[id] > 0 => id \in m.own) /\ (s[id] > 0 => id \in DOMAIN m.shared)
Sound(m, o, s) ==
  Typed(m) /\ o \in Tallies /\ s \in Tallies /\ Tallied(m, o, s) /\ LiveCount(m) + m.frees = m.allocs + m.views

\* Sound, except that the entry of id may have lost its last holder.
SoundBut(m, o, s, id) ==
  /\ Typed(m) /\ o \in Tallies /\ s \in Tallies /\ LiveCount(m) + m.frees = m.allocs + m.views
  /\ \A i \in m.own : o[i] = 1
  /\ \A i \in DOMAIN m.shared : /\ m.shared[i].strong = s[i]
                                /\ m.shared[i].weak = Cardinality(Onto(m, i))
                                /\ i # id => m.shared[i].strong + m.shared[i].weak > 0
  /\ \A i \in Nat : (o[i] > 0 => i \in m.own) /\ (s[i] > 0 => i \in DOMAIN m.shared)

Plus(t, h, k) == IF h.k = k THEN [t EXCEPT ![h.id] = @ + 1] ELSE t
Minus(t, h, k) == IF h.k = k THEN [t EXCEPT ![h.id] = @ - 1] ELSE t

\* What the variables hold.
Holding(e, h) == {x \in MemNames : e[x] = h}
Tally(e, k) == [id \in Nat |-> Cardinality(Holding(e, Handle(k, id)))]
Well(m, e) ==
  /\ Sound(m, Tally(e, "own"), Tally(e, "shared"))
  /\ e \in Envs /\ \A x \in MemNames : e[x].id < m.next

-----------------------------------------------------------------------------
\* The tables are finite.
LEMMA FiniteTables ==
  ASSUME NEW m, Typed(m)
  PROVE  /\ IsFiniteSet(Below(m)) /\ m.next \in Nat /\ m.next \notin Below(m)
         /\ \A S \in SUBSET Below(m) : IsFiniteSet(S) /\ Cardinality(S) \in Nat
         /\ \A S \in SUBSET Below(m) : Cardinality(S \cup {m.next}) = Cardinality(S) + 1
         /\ \A S \in SUBSET Below(m) : \A i \in S : Cardinality(S \ {i}) = Cardinality(S) - 1
<1>1. m.next \in Nat /\ m.next - 1 \in Int /\ m.next \notin Below(m)
  BY MemAssumption DEF Typed, Numbered, Below
<1>2. IsFiniteSet(Below(m))
  BY <1>1, FS_Interval DEF Below
<1>3. ASSUME NEW S \in SUBSET Below(m) PROVE IsFiniteSet(S) /\ Cardinality(S) \in Nat
  BY <1>2, <1>3, FS_Subset, FS_CardinalityType
<1>4. ASSUME NEW S \in SUBSET Below(m) PROVE Cardinality(S \cup {m.next}) = Cardinality(S) + 1
  BY <1>1, <1>3, FS_AddElement
<1>5. ASSUME NEW S \in SUBSET Below(m), NEW i \in S PROVE Cardinality(S \ {i}) = Cardinality(S) - 1
  BY <1>3, FS_RemoveElement
<1> QED
  BY <1>1, <1>2, <1>3, <1>4, <1>5

\* What live is counted over.
Lives(m) == {s \in DOMAIN m.shared : m.shared[s].strong > 0}
LEMMA LiveTables ==
  ASSUME NEW m, Typed(m)
  PROVE  /\ DOMAIN m.raw \in SUBSET Below(m) /\ m.own \in SUBSET Below(m) /\ DOMAIN m.buf \in SUBSET Below(m)
         /\ DOMAIN m.shared \in SUBSET Below(m) /\ DOMAIN m.weak \in SUBSET Below(m) /\ Lives(m) \in SUBSET Below(m)
         /\ \A id : Onto(m, id) \in SUBSET Below(m)
         /\ LiveCount(m) = Cardinality(DOMAIN m.raw) + Cardinality(m.own) + Cardinality(DOMAIN m.buf) + Cardinality(Lives(m))
BY DEF Typed, Tables, Lives, LiveCount, Onto

LEMMA LiveParts ==
  ASSUME NEW m, Typed(m)
  PROVE  /\ Cardinality(DOMAIN m.raw) \in Nat /\ Cardinality(m.own) \in Nat /\ Cardinality(DOMAIN m.buf) \in Nat
         /\ Cardinality(Lives(m)) \in Nat /\ \A id : Cardinality(Onto(m, id)) \in Nat
         /\ LiveCount(m) = Cardinality(DOMAIN m.raw) + Cardinality(m.own) + Cardinality(DOMAIN m.buf) + Cardinality(Lives(m))
         /\ m.allocs \in Nat /\ m.frees \in Nat /\ m.views \in Int
<1>1. /\ Cardinality(DOMAIN m.raw) \in Nat /\ Cardinality(m.own) \in Nat /\ Cardinality(DOMAIN m.buf) \in Nat
      /\ Cardinality(Lives(m)) \in Nat
  BY FiniteTables, LiveTables
<1>2. \A id : Cardinality(Onto(m, id)) \in Nat
  BY FiniteTables, LiveTables
<1> QED
  BY <1>1, <1>2, LiveTables DEF Typed, Numbered

LEMMA OwnReleased ==
  ASSUME NEW m, NEW o, NEW s, Sound(m, o, s), NEW id \in Nat, o[id] > 0
  PROVE  Sound(ReleaseOwn(m, id), [o EXCEPT ![id] = @ - 1], s) /\ ReleaseOwn(m, id).next = m.next
<1> DEFINE n == [raw |-> m.raw, vecs |-> m.vecs, own |-> m.own \ {id}, shared |-> m.shared, weak |-> m.weak,
                 buf |-> m.buf, next |-> m.next, allocs |-> m.allocs, frees |-> m.frees + 1, views |-> m.views]
           p == [o EXCEPT ![id] = @ - 1]
<1>1. id \in m.own /\ o[id] = 1
  BY DEF Sound, Tallied
<1>2. ReleaseOwn(m, id) = n
  BY <1>1 DEF ReleaseOwn, Freed, Sound, Typed, Shaped
<1>3. /\ n.raw = m.raw /\ n.vecs = m.vecs /\ n.own = m.own \ {id} /\ n.shared = m.shared /\ n.weak = m.weak
      /\ n.buf = m.buf /\ n.next = m.next /\ n.allocs = m.allocs /\ n.frees = m.frees + 1 /\ n.views = m.views
  OBVIOUS
<1>4. Typed(n)
  <2>1. Shaped(n)
    BY DEF Shaped
  <2>2. Numbered(n) /\ Tables(n) /\ Below(n) = Below(m)
    BY <1>3 DEF Sound, Typed, Numbered, Tables, Below
  <2> QED
    BY <2>1, <2>2 DEF Typed
<1>5. p \in Tallies /\ Tallied(n, p, s)
  <2>1. o \in [Nat -> Nat] /\ p = [i \in Nat |-> IF i = id THEN 0 ELSE o[i]]
    <3>1. o \in [Nat -> Nat] /\ o[id] - 1 = 0
      BY <1>1 DEF Sound, Tallies
    <3> QED
      BY <3>1
  <2>2. \A i : Onto(n, i) = Onto(m, i)
    BY <1>3 DEF Onto
  <2>3. m.own \subseteq Nat
    BY DEF Sound, Typed, Tables, Numbered, Below
  <2> HIDE DEF n, p
  <2>4. \A i \in m.own \ {id} : p[i] = 1
    BY <2>1, <2>3 DEF Sound, Tallied
  <2>5. \A i \in Nat : (p[i] > 0 => i \in m.own \ {id}) /\ (s[i] > 0 => i \in DOMAIN m.shared)
    BY <2>1 DEF Sound, Tallied
  <2>6. p \in Tallies
    BY <2>1 DEF Tallies
  <2> QED
    BY <1>3, <2>2, <2>4, <2>5, <2>6 DEF Sound, Tallied
<1>6. LiveCount(n) + n.frees = n.allocs + n.views
  <2>1. Cardinality(n.own) = Cardinality(m.own) - 1
    BY <1>1, <1>3, FiniteTables, LiveTables DEF Sound
  <2>2. Lives(n) = Lives(m)
    BY <1>3 DEF Lives
  <2> HIDE DEF n
  <2>3. /\ LiveCount(n) = Cardinality(DOMAIN m.raw) + (Cardinality(m.own) - 1) + Cardinality(DOMAIN m.buf) + Cardinality(Lives(m))
        /\ LiveCount(m) + m.frees = m.allocs + m.views
    BY <1>3, <1>4, <2>1, <2>2, LiveTables DEF Sound
  <2> QED
    BY <1>3, <2>3, LiveParts DEF Sound
<1> QED
  BY <1>2, <1>3, <1>4, <1>5, <1>6 DEF Sound

LEMMA BufReleased ==
  ASSUME NEW m, NEW o, NEW s, Sound(m, o, s), NEW id \in Nat
  PROVE  Sound(ReleaseBuf(m, id), o, s) /\ ReleaseBuf(m, id).next = m.next
<1> SUFFICES ASSUME id \in DOMAIN m.buf PROVE Sound(ReleaseBuf(m, id), o, s) /\ ReleaseBuf(m, id).next = m.next
  BY DEF ReleaseBuf
<1> DEFINE left == [i \in DOMAIN m.buf \ {id} |-> m.buf[i]]
           n == [raw |-> m.raw, vecs |-> m.vecs, own |-> m.own, shared |-> m.shared, weak |-> m.weak,
                 buf |-> left, next |-> m.next, allocs |-> m.allocs, frees |-> m.frees + 1, views |-> m.views]
<1>1. ReleaseBuf(m, id) = n
  BY DEF ReleaseBuf, Freed, Without, Restrict, Sound, Typed, Shaped
<1>2. /\ n.raw = m.raw /\ n.vecs = m.vecs /\ n.own = m.own /\ n.shared = m.shared /\ n.weak = m.weak
      /\ n.buf = left /\ DOMAIN left = DOMAIN m.buf \ {id} /\ left = [i \in DOMAIN left |-> left[i]]
      /\ n.next = m.next /\ n.allocs = m.allocs /\ n.frees = m.frees + 1 /\ n.views = m.views
      /\ Shaped(n)
  BY DEF Shaped
<1> HIDE DEF n, left
<1>3. Typed(n)
  BY <1>2 DEF Sound, Typed, Numbered, Tables, Below
<1>4. Tallied(n, o, s)
  BY <1>2 DEF Sound, Tallied, Onto
<1>5. LiveCount(n) + n.frees = n.allocs + n.views
  <2>1. Cardinality(DOMAIN n.buf) = Cardinality(DOMAIN m.buf) - 1
    BY <1>2, FiniteTables, LiveTables DEF Sound
  <2>2. Lives(n) = Lives(m)
    BY <1>2 DEF Lives
  <2>3. /\ LiveCount(n) = Cardinality(DOMAIN m.raw) + Cardinality(m.own) + (Cardinality(DOMAIN m.buf) - 1) + Cardinality(Lives(m))
        /\ LiveCount(m) + m.frees = m.allocs + m.views
    BY <1>2, <1>3, <2>1, <2>2, LiveTables DEF Sound
  <2> QED
    BY <1>2, <2>3, LiveParts DEF Sound
<1> QED
  BY <1>1, <1>2, <1>3, <1>4, <1>5 DEF Sound

LEMMA Pruned ==
  ASSUME NEW m, NEW o, NEW s, NEW id, SoundBut(m, o, s, id)
  PROVE  Sound(Prune(m, id), o, s) /\ Prune(m, id).next = m.next
<1>1. CASE id \notin DOMAIN m.shared \/ m.shared[id].strong # 0 \/ m.shared[id].weak # 0
  <2>1. Prune(m, id) = m
    BY <1>1 DEF Prune
  <2>2. id \in DOMAIN m.shared => m.shared[id].strong + m.shared[id].weak > 0
    <3>1. id \in DOMAIN m.shared => m.shared[id].strong \in Nat /\ m.shared[id].weak \in Nat
      BY DEF SoundBut, Typed, Tables
    <3> QED
      BY <1>1, <3>1
  <2> QED
    BY <2>1, <2>2 DEF SoundBut, Sound, Tallied
<1>2. CASE id \in DOMAIN m.shared /\ m.shared[id].strong = 0 /\ m.shared[id].weak = 0
  <2> DEFINE left == [i \in DOMAIN m.shared \ {id} |-> m.shared[i]]
             n == [raw |-> m.raw, vecs |-> m.vecs, own |-> m.own, shared |-> left, weak |-> m.weak,
                   buf |-> m.buf, next |-> m.next, allocs |-> m.allocs, frees |-> m.frees, views |-> m.views]
  <2>1. Prune(m, id) = n
    BY <1>2 DEF Prune, Without, Restrict, SoundBut, Typed, Shaped
  <2>2. /\ n.raw = m.raw /\ n.vecs = m.vecs /\ n.own = m.own /\ n.shared = left /\ n.weak = m.weak
        /\ DOMAIN left = DOMAIN m.shared \ {id} /\ \A i \in DOMAIN left : left[i] = m.shared[i]
        /\ left \in [DOMAIN left -> [strong : Nat, weak : Nat]]
        /\ n.buf = m.buf /\ n.next = m.next /\ n.allocs = m.allocs /\ n.frees = m.frees /\ n.views = m.views
        /\ Shaped(n)
    BY DEF Shaped, SoundBut, Typed, Tables
  <2> HIDE DEF n, left
  <2>3. Typed(n)
    BY <2>2 DEF SoundBut, Typed, Numbered, Tables, Below
  <2>4. Tallied(n, o, s)
    <3>1. \A i : Onto(n, i) = Onto(m, i)
      BY <2>2 DEF Onto
    <3>2. ~(s[id] > 0)
      BY <1>2 DEF SoundBut
    <3> QED
      BY <2>2, <3>1, <3>2 DEF SoundBut, Tallied
  <2>5. LiveCount(n) = LiveCount(m)
    <3>1. Lives(n) = Lives(m)
      BY <1>2, <2>2 DEF Lives
    <3> QED
      BY <2>2, <2>3, <3>1, LiveTables DEF SoundBut
  <2> QED
    BY <2>1, <2>2, <2>3, <2>4, <2>5 DEF Sound, SoundBut
<1> QED
  BY <1>1, <1>2 DEF SoundBut, Typed, Tables

LEMMA SharedReleased ==
  ASSUME NEW m, NEW o, NEW s, Sound(m, o, s), NEW id \in Nat, s[id] > 0
  PROVE  Sound(ReleaseShared(m, id), o, [s EXCEPT ![id] = @ - 1]) /\ ReleaseShared(m, id).next = m.next
<1> DEFINE left == m.shared[id].strong - 1
           rest == [m.shared EXCEPT ![id].strong = left]
           n == [raw |-> m.raw, vecs |-> m.vecs, own |-> m.own, shared |-> rest, weak |-> m.weak,
                 buf |-> m.buf, next |-> m.next, allocs |-> m.allocs,
                 frees |-> IF left = 0 THEN m.frees + 1 ELSE m.frees, views |-> m.views]
           p == [s EXCEPT ![id] = @ - 1]
<1>1. id \in DOMAIN m.shared /\ m.shared[id].strong = s[id] /\ s[id] \in Nat /\ m.shared[id].weak \in Nat
  BY DEF Sound, Tallied, Tallies, Typed, Tables
<1>2. ReleaseShared(m, id) = Prune(n, id)
  <2>1. m.shared[id].strong > 0
    BY <1>1
  <2>2. [m EXCEPT !.shared[id].strong = left] =
          [raw |-> m.raw, vecs |-> m.vecs, own |-> m.own, shared |-> rest, weak |-> m.weak,
           buf |-> m.buf, next |-> m.next, allocs |-> m.allocs, frees |-> m.frees, views |-> m.views]
    BY DEF Sound, Typed, Shaped
  <2> HIDE DEF rest, left
  <2>3. ReleaseShared(m, id) =
          Prune(IF left = 0 THEN Freed([m EXCEPT !.shared[id].strong = left], 1)
                ELSE [m EXCEPT !.shared[id].strong = left], id)
    BY <1>1, <2>1 DEF ReleaseShared, left
  <2>4. (IF left = 0 THEN Freed([m EXCEPT !.shared[id].strong = left], 1)
         ELSE [m EXCEPT !.shared[id].strong = left]) = n
    BY <2>2 DEF Freed
  <2> QED
    BY <2>3, <2>4
<1>3. /\ n.raw = m.raw /\ n.vecs = m.vecs /\ n.own = m.own /\ n.shared = rest /\ n.weak = m.weak
      /\ n.buf = m.buf /\ n.next = m.next /\ n.allocs = m.allocs /\ n.views = m.views
      /\ n.frees = IF left = 0 THEN m.frees + 1 ELSE m.frees
      /\ Shaped(n)
  BY DEF Shaped
<1>4. /\ left \in Nat /\ left = s[id] - 1 /\ rest \in [DOMAIN m.shared -> [strong : Nat, weak : Nat]]
      /\ rest[id].strong = left /\ rest[id].weak = m.shared[id].weak
      /\ \A i \in DOMAIN m.shared : i # id => rest[i] = m.shared[i]
  BY <1>1 DEF Sound, Typed, Tables
<1>5. p \in Tallies /\ p[id] = left /\ \A i \in Nat : i # id => p[i] = s[i]
  BY <1>1, <1>4 DEF Sound, Tallies
<1> HIDE DEF n, p, rest, left
<1>6. Typed(n)
  BY <1>3, <1>4 DEF Sound, Typed, Numbered, Tables, Below
<1>7. DOMAIN m.shared \subseteq Nat /\ m.own \subseteq Nat
  BY DEF Sound, Typed, Numbered, Tables, Below
<1>8. LiveCount(n) + n.frees = n.allocs + n.views
  <2>1. CASE left = 0
    <3>1. Lives(n) = Lives(m) \ {id} /\ id \in Lives(m)
      BY <1>1, <1>3, <1>4, <2>1 DEF Lives
    <3>2. Cardinality(Lives(n)) = Cardinality(Lives(m)) - 1
      BY <3>1, FiniteTables, LiveTables DEF Sound
    <3>3. /\ LiveCount(n) = Cardinality(DOMAIN m.raw) + Cardinality(m.own) + Cardinality(DOMAIN m.buf) + (Cardinality(Lives(m)) - 1)
          /\ LiveCount(m) + m.frees = m.allocs + m.views
      BY <1>3, <1>6, <3>2, LiveTables DEF Sound
    <3> QED
      BY <1>3, <2>1, <3>3, LiveParts DEF Sound
  <2>2. CASE left # 0
    <3>1. Lives(n) = Lives(m)
      BY <1>1, <1>3, <1>4, <2>2 DEF Lives
    <3> QED
      BY <1>3, <1>6, <2>2, <3>1, LiveTables DEF Sound
  <2> QED
    BY <2>1, <2>2
<1>9. SoundBut(n, o, p, id)
  <2>1. \A i : Onto(n, i) = Onto(m, i)
    BY <1>3 DEF Onto
  <2>2. \A i \in DOMAIN n.shared : /\ n.shared[i].strong = p[i]
                                   /\ n.shared[i].weak = Cardinality(Onto(n, i))
                                   /\ i # id => n.shared[i].strong + n.shared[i].weak > 0
    BY <1>1, <1>3, <1>4, <1>5, <1>7, <2>1 DEF Sound, Tallied
  <2>3. \A i \in Nat : (o[i] > 0 => i \in n.own) /\ (p[i] > 0 => i \in DOMAIN n.shared)
    BY <1>1, <1>3, <1>4, <1>5 DEF Sound, Tallied
  <2>4. o \in Tallies /\ \A i \in n.own : o[i] = 1
    BY <1>3 DEF Sound, Tallied
  <2> QED
    BY <1>5, <1>6, <1>8, <2>2, <2>3, <2>4 DEF SoundBut
<1> QED
  BY <1>2, <1>3, <1>9, Pruned DEF p

LEMMA WeakReleased ==
  ASSUME NEW m, NEW o, NEW s, Sound(m, o, s), NEW id \in Nat
  PROVE  Sound(ReleaseWeak(m, id), o, s) /\ ReleaseWeak(m, id).next = m.next
<1> SUFFICES ASSUME id \in DOMAIN m.weak PROVE Sound(ReleaseWeak(m, id), o, s) /\ ReleaseWeak(m, id).next = m.next
  BY DEF ReleaseWeak
<1> DEFINE t == m.weak[id]
           left == [i \in DOMAIN m.weak \ {id} |-> m.weak[i]]
           n == [raw |-> m.raw, vecs |-> m.vecs, own |-> m.own, shared |-> m.shared, weak |-> left,
                 buf |-> m.buf, next |-> m.next, allocs |-> m.allocs, frees |-> m.frees, views |-> m.views]
<1>1. [m EXCEPT !.weak = Without(@, id)] = n
  BY DEF Without, Restrict, Sound, Typed, Shaped
<1>2. /\ n.raw = m.raw /\ n.vecs = m.vecs /\ n.own = m.own /\ n.shared = m.shared /\ n.weak = left
      /\ DOMAIN left = DOMAIN m.weak \ {id} /\ \A i \in DOMAIN left : left[i] = m.weak[i]
      /\ left \in [DOMAIN left -> Below(m)]
      /\ n.buf = m.buf /\ n.next = m.next /\ n.allocs = m.allocs /\ n.frees = m.frees /\ n.views = m.views
      /\ Shaped(n)
  BY DEF Shaped, Sound, Typed, Tables
<1>3. /\ \A i : i # t => Onto(n, i) = Onto(m, i)
      /\ Onto(n, t) = Onto(m, t) \ {id} /\ id \in Onto(m, t)
  BY <1>2 DEF Onto
<1> HIDE DEF n, left
<1>4. Typed(n)
  BY <1>2 DEF Sound, Typed, Numbered, Tables, Below
<1>5. LiveCount(n) = LiveCount(m)
  <2>1. Lives(n) = Lives(m)
    BY <1>2 DEF Lives
  <2> QED
    BY <1>2, <1>4, <2>1, LiveTables DEF Sound
<1>6. CASE t \notin DOMAIN m.shared
  <2>1. ReleaseWeak(m, id) = n
    BY <1>1, <1>6, <1>2 DEF ReleaseWeak
  <2>2. Tallied(n, o, s)
    BY <1>2, <1>3, <1>6 DEF Sound, Tallied
  <2> QED
    BY <1>2, <1>4, <1>5, <2>1, <2>2 DEF Sound
<1>7. CASE t \in DOMAIN m.shared
  <2> DEFINE w == m.shared[t].weak - 1
             rest == [m.shared EXCEPT ![t].weak = w]
             r == [raw |-> m.raw, vecs |-> m.vecs, own |-> m.own, shared |-> rest, weak |-> n.weak,
                   buf |-> m.buf, next |-> m.next, allocs |-> m.allocs, frees |-> m.frees, views |-> m.views]
  <2>1. /\ m.shared[t].weak = Cardinality(Onto(m, t)) /\ Cardinality(Onto(m, t)) \in Nat
        /\ Cardinality(Onto(n, t)) = Cardinality(Onto(m, t)) - 1 /\ Cardinality(Onto(n, t)) \in Nat
    <3>1. m.shared[t].weak = Cardinality(Onto(m, t))
      BY <1>7 DEF Sound, Tallied
    <3>2. Cardinality(Onto(m, t)) \in Nat /\ Cardinality(Onto(n, t)) \in Nat
      BY <1>4, LiveParts DEF Sound
    <3>3. Cardinality(Onto(n, t)) = Cardinality(Onto(m, t)) - 1
      BY <1>3, FiniteTables, LiveTables DEF Sound
    <3> QED
      BY <3>1, <3>2, <3>3
  <2>2. w \in Nat /\ m.shared[t].weak > 0 /\ w = Cardinality(Onto(n, t))
    BY <2>1
  <2>3. [n EXCEPT !.shared[t].weak = IF @ > 0 THEN @ - 1 ELSE 0] = r
    BY <1>2, <2>2 DEF n
  <2>4. ReleaseWeak(m, id) = Prune(r, t)
    BY <1>1, <1>2, <1>7, <2>3 DEF ReleaseWeak
  <2>5. /\ r.raw = m.raw /\ r.vecs = m.vecs /\ r.own = m.own /\ r.shared = rest /\ r.weak = n.weak
        /\ r.buf = m.buf /\ r.next = m.next /\ r.allocs = m.allocs /\ r.frees = m.frees /\ r.views = m.views
        /\ Shaped(r)
    BY DEF Shaped
  <2>6. /\ rest \in [DOMAIN m.shared -> [strong : Nat, weak : Nat]]
        /\ rest[t].weak = w /\ rest[t].strong = m.shared[t].strong
        /\ \A i \in DOMAIN m.shared : i # t => rest[i] = m.shared[i]
    BY <1>7, <2>2 DEF Sound, Typed, Tables
  <2> HIDE DEF r, rest, w
  <2>7. Typed(r)
    BY <1>2, <2>5, <2>6 DEF Sound, Typed, Numbered, Tables, Below
  <2>8. LiveCount(r) = LiveCount(m)
    <3>1. Lives(r) = Lives(m)
      BY <2>5, <2>6 DEF Lives
    <3> QED
      BY <2>5, <2>7, <3>1, LiveTables DEF Sound
  <2>9. SoundBut(r, o, s, t)
    <3>1. \A i : Onto(r, i) = Onto(n, i)
      BY <2>5 DEF Onto
    <3>2. \A i \in DOMAIN r.shared : /\ r.shared[i].strong = s[i]
                                     /\ r.shared[i].weak = Cardinality(Onto(r, i))
                                     /\ i # t => r.shared[i].strong + r.shared[i].weak > 0
      <4> SUFFICES ASSUME NEW i \in DOMAIN m.shared
                   PROVE  /\ rest[i].strong = s[i] /\ rest[i].weak = Cardinality(Onto(n, i))
                          /\ i # t => rest[i].strong + rest[i].weak > 0
        BY <2>5, <2>6, <3>1
      <4>1. /\ m.shared[i].strong = s[i] /\ m.shared[i].weak = Cardinality(Onto(m, i))
            /\ m.shared[i].strong + m.shared[i].weak > 0
        BY DEF Sound, Tallied
      <4> HIDE DEF t
      <4>2. CASE i = t
        BY <2>2, <2>6, <4>1, <4>2
      <4>3. CASE i # t
        BY <1>3, <2>6, <4>1, <4>3
      <4> QED
        BY <4>2, <4>3
    <3>3. /\ o \in Tallies /\ s \in Tallies /\ \A i \in r.own : o[i] = 1
          /\ \A i \in Nat : (o[i] > 0 => i \in r.own) /\ (s[i] > 0 => i \in DOMAIN r.shared)
      BY <2>5, <2>6 DEF Sound, Tallied
    <3>4. LiveCount(r) + r.frees = r.allocs + r.views
      BY <2>5, <2>8 DEF Sound
    <3> HIDE DEF t
    <3> QED
      BY <2>7, <3>2, <3>3, <3>4 DEF SoundBut
  <2> QED
    BY <2>4, <2>5, <2>9, Pruned
<1> QED
  BY <1>6, <1>7

LEMMA Released ==
  ASSUME NEW m, NEW o, NEW s, Sound(m, o, s), NEW h \in Values,
         h.k = "own" => o[h.id] > 0, h.k = "shared" => s[h.id] > 0
  PROVE  Sound(Release(m, h), Minus(o, h, "own"), Minus(s, h, "shared")) /\ Release(m, h).next = m.next
<1>1. h.id \in Nat /\ h.k \in Kinds
  BY DEF Values
<1>2. CASE h.k = "own"
  <2>1. Release(m, h) = ReleaseOwn(m, h.id) /\ Minus(o, h, "own") = [o EXCEPT ![h.id] = @ - 1] /\ Minus(s, h, "shared") = s
    BY <1>2 DEF Release, Minus
  <2> QED
    BY <1>1, <1>2, <2>1, OwnReleased
<1>3. CASE h.k = "shared"
  <2>1. Release(m, h) = ReleaseShared(m, h.id) /\ Minus(s, h, "shared") = [s EXCEPT ![h.id] = @ - 1] /\ Minus(o, h, "own") = o
    BY <1>3 DEF Release, Minus
  <2> QED
    BY <1>1, <1>3, <2>1, SharedReleased
<1>4. CASE h.k \notin {"own", "shared"}
  <2>1. Minus(s, h, "shared") = s /\ Minus(o, h, "own") = o
    BY <1>4 DEF Minus
  <2>2. CASE h.k = "weak"
    <3>1. Release(m, h) = ReleaseWeak(m, h.id)
      BY <2>2 DEF Release
    <3> QED
      BY <1>1, <2>1, <3>1, WeakReleased
  <2>3. CASE h.k = "buf"
    <3>1. Release(m, h) = ReleaseBuf(m, h.id)
      BY <2>3 DEF Release
    <3> QED
      BY <1>1, <2>1, <3>1, BufReleased
  <2>4. CASE h.k \notin {"weak", "buf"}
    <3>1. Release(m, h) = m
      BY <1>4, <2>4 DEF Release
    <3> QED
      BY <2>1, <3>1
  <2> QED
    BY <2>2, <2>3, <2>4
<1> QED
  BY <1>2, <1>3, <1>4

-----------------------------------------------------------------------------
\* How often a handle is held, before and after a name is bound to another.
LEMMA Recount ==
  ASSUME NEW e \in Envs, NEW x \in MemNames, NEW v \in Values, NEW h
  PROVE  /\ Cardinality(Holding(e, h)) \in Nat
         /\ Cardinality(Holding([e EXCEPT ![x] = v], h)) =
              Cardinality(Holding(e, h)) - (IF e[x] = h THEN 1 ELSE 0) + (IF v = h THEN 1 ELSE 0)
         /\ e[x] = h => Cardinality(Holding(e, h)) > 0
<1> DEFINE before == Holding(e, h)
           after == Holding([e EXCEPT ![x] = v], h)
           rest == {y \in MemNames \ {x} : e[y] = h}
<1>1. IsFiniteSet(rest) /\ Cardinality(rest) \in Nat /\ x \notin rest
  <2>1. IsFiniteSet(MemNames) /\ rest \subseteq MemNames /\ x \notin rest
    BY MemAssumption
  <2> QED
    BY <2>1, FS_Subset, FS_CardinalityType
<1>2. Cardinality(rest \cup {x}) = Cardinality(rest) + 1
  BY <1>1, FS_AddElement
<1>3. before = IF e[x] = h THEN rest \cup {x} ELSE rest
  BY DEF Holding
<1>4. after = IF v = h THEN rest \cup {x} ELSE rest
  BY DEF Envs, Holding
<1> HIDE DEF before, after, rest
<1>5. /\ Cardinality(before) = Cardinality(rest) + (IF e[x] = h THEN 1 ELSE 0)
      /\ Cardinality(after) = Cardinality(rest) + (IF v = h THEN 1 ELSE 0)
  BY <1>1, <1>2, <1>3, <1>4
<1>6. /\ Cardinality(before) \in Nat
      /\ Cardinality(after) = Cardinality(before) - (IF e[x] = h THEN 1 ELSE 0) + (IF v = h THEN 1 ELSE 0)
      /\ e[x] = h => Cardinality(before) > 0
  BY <1>1, <1>5
<1> QED
  BY <1>6 DEF before, after

LEMMA TallyTyped ==
  ASSUME NEW e \in Envs, NEW k
  PROVE  Tally(e, k) \in Tallies /\ \A x \in MemNames : e[x].k = k => Tally(e, k)[e[x].id] > 0
<1>1. PICK x0 \in MemNames : TRUE
  BY MemAssumption
<1>2. \A id \in Nat : Cardinality(Holding(e, Handle(k, id))) \in Nat
  <2>1. e[x0] \in Values
    BY DEF Envs
  <2> QED
    BY <2>1, Recount
<1>3. ASSUME NEW x \in MemNames, e[x].k = k PROVE Tally(e, k)[e[x].id] > 0
  <2>1. e[x] \in Values /\ e[x].id \in Nat /\ e[x] = Handle(k, e[x].id)
    BY <1>3 DEF Envs, Values, Handle
  <2>2. Cardinality(Holding(e, Handle(k, e[x].id))) > 0
    BY <2>1, Recount
  <2> QED
    BY <2>1, <2>2 DEF Tally
<1> QED
  BY <1>2, <1>3 DEF Tally, Tallies

\* One more of v and one less of what x held.
LEMMA TallyBound ==
  ASSUME NEW e \in Envs, NEW x \in MemNames, NEW v \in Values, NEW k
  PROVE  Tally([e EXCEPT ![x] = v], k) = Minus(Plus(Tally(e, k), v, k), e[x], k)
<1> DEFINE f == [e EXCEPT ![x] = v]
           t == Tally(e, k)
           p == Plus(t, v, k)
           z == Minus(p, e[x], k)
<1>1. t \in [Nat -> Nat]
  BY TallyTyped DEF Tallies
<1>2. v = [k |-> v.k, id |-> v.id] /\ v.id \in Nat /\ e[x] \in Values /\ e[x] = [k |-> e[x].k, id |-> e[x].id] /\ e[x].id \in Nat
  BY DEF Values, Envs
<1>3. ASSUME NEW i \in Nat
      PROVE  Tally(f, k)[i] = t[i] - (IF e[x].k = k /\ e[x].id = i THEN 1 ELSE 0) + (IF v.k = k /\ v.id = i THEN 1 ELSE 0)
  <2>1. (v = Handle(k, i) <=> v.k = k /\ v.id = i) /\ (e[x] = Handle(k, i) <=> e[x].k = k /\ e[x].id = i)
    BY <1>2 DEF Handle
  <2>2. /\ t[i] = Cardinality(Holding(e, Handle(k, i)))
        /\ Tally(f, k)[i] = Cardinality(Holding(f, Handle(k, i)))
    BY DEF Tally
  <2>3. Cardinality(Holding(f, Handle(k, i))) = Cardinality(Holding(e, Handle(k, i)))
          - (IF e[x] = Handle(k, i) THEN 1 ELSE 0) + (IF v = Handle(k, i) THEN 1 ELSE 0)
    BY Recount
  <2> HIDE DEF f, t
  <2> QED
    BY <2>1, <2>2, <2>3
<1>4. p \in [Nat -> Int] /\ \A i \in Nat : p[i] = t[i] + (IF v.k = k /\ v.id = i THEN 1 ELSE 0)
  BY <1>1, <1>2 DEF Plus
<1> HIDE DEF t, p
<1>5. z \in [Nat -> Int] /\ \A i \in Nat : z[i] = p[i] - (IF e[x].k = k /\ e[x].id = i THEN 1 ELSE 0)
  BY <1>2, <1>4 DEF Minus
<1> HIDE DEF z
<1>6. ASSUME NEW i \in Nat PROVE Tally(f, k)[i] = z[i]
  <2>1. t[i] \in Nat
    BY <1>1
  <2> HIDE DEF f
  <2> QED
    BY <1>3, <1>4, <1>5, <2>1
<1>7. Tally(f, k) = [i \in Nat |-> Tally(f, k)[i]] /\ z = [i \in Nat |-> z[i]]
  BY <1>5 DEF Tally
<1>8. Tally(f, k) = z
  BY <1>6, <1>7
<1> QED
  BY <1>8 DEF z, p, t

LEMMA Binds ==
  ASSUME NEW m, NEW env \in Envs, NEW x \in MemNames, NEW h \in Values, h.id < m.next,
         \A y \in MemNames : env[y].id < m.next,
         Sound(m, Plus(Tally(env, "own"), h, "own"), Plus(Tally(env, "shared"), h, "shared"))
  PROVE  Well(IF IsOwner(env[x]) THEN Release(m, env[x]) ELSE m, [env EXCEPT ![x] = h])
<1> DEFINE o == Plus(Tally(env, "own"), h, "own")
           s == Plus(Tally(env, "shared"), h, "shared")
           n == IF IsOwner(env[x]) THEN Release(m, env[x]) ELSE m
           e == [env EXCEPT ![x] = h]
<1>1. /\ Tally(e, "own") = Minus(o, env[x], "own") /\ Tally(e, "shared") = Minus(s, env[x], "shared")
  BY TallyBound
<1>2. env[x] \in Values /\ e \in Envs /\ \A y \in MemNames : e[y].id < m.next
  BY DEF Envs
<1>3. (env[x].k = "own" => o[env[x].id] > 0) /\ (env[x].k = "shared" => s[env[x].id] > 0)
  <2>1. ASSUME NEW k, env[x].k = k PROVE Plus(Tally(env, k), h, k)[env[x].id] > 0
    <3>1. Tally(env, k)[env[x].id] > 0 /\ Tally(env, k) \in [Nat -> Nat] /\ env[x].id \in Nat
      BY <2>1, TallyTyped DEF Tallies, Envs, Values
    <3> QED
      BY <3>1 DEF Plus
  <2> QED
    BY <2>1
<1>4. Sound(n, Minus(o, env[x], "own"), Minus(s, env[x], "shared")) /\ n.next = m.next
  <2>1. CASE IsOwner(env[x])
    BY <1>2, <1>3, <2>1, Released
  <2>2. CASE ~IsOwner(env[x])
    BY <2>2 DEF IsOwner, Minus
  <2> QED
    BY <2>1, <2>2
<1> QED
  BY <1>1, <1>2, <1>4 DEF Well

\* The next number is nobody's.
LEMMA NextIsFree ==
  ASSUME NEW m, NEW o, NEW s, Sound(m, o, s)
  PROVE  m.next \in Nat /\ m.next \notin Below(m) /\ o[m.next] = 0 /\ s[m.next] = 0 /\ Onto(m, m.next) = {}
<1>1. m.next \in Nat /\ m.next \notin Below(m)
  BY FiniteTables DEF Sound
<1>2. o[m.next] \in Nat /\ s[m.next] \in Nat /\ m.next \notin m.own /\ m.next \notin DOMAIN m.shared
  BY <1>1 DEF Sound, Tallies, Typed, Tables
<1>3. o[m.next] = 0 /\ s[m.next] = 0
  BY <1>1, <1>2 DEF Sound, Tallied
<1>4. Onto(m, m.next) = {}
  BY <1>1 DEF Sound, Typed, Tables, Onto
<1> QED
  BY <1>1, <1>3, <1>4

LEMMA Grows ==
  ASSUME NEW m, Typed(m), m.next <= MemMaxId, NEW n, n.next = m.next + 1
  PROVE  Below(n) = Below(m) \cup {m.next} /\ n.next \in 1 .. MemMaxId + 1 /\ n.next > m.next
BY MemAssumption DEF Typed, Numbered, Below

\* What the constructors are written with.
LEMMA MadeIs ==
  ASSUME NEW m, Shaped(m)
  PROVE  /\ Fresh(m) = [raw |-> m.raw, vecs |-> m.vecs, own |-> m.own, shared |-> m.shared, weak |-> m.weak,
                        buf |-> m.buf, next |-> m.next + 1, allocs |-> m.allocs, frees |-> m.frees, views |-> m.views]
         /\ Made(m) = [raw |-> m.raw, vecs |-> m.vecs, own |-> m.own, shared |-> m.shared, weak |-> m.weak,
                       buf |-> m.buf, next |-> m.next + 1, allocs |-> m.allocs + 1, frees |-> m.frees, views |-> m.views]
<1>1. Fresh(m) = [raw |-> m.raw, vecs |-> m.vecs, own |-> m.own, shared |-> m.shared, weak |-> m.weak,
                  buf |-> m.buf, next |-> m.next + 1, allocs |-> m.allocs, frees |-> m.frees, views |-> m.views]
  BY DEF Fresh, Shaped
<1> QED
  BY <1>1 DEF Made

LEMMA Extended ==
  ASSUME NEW f, NEW i, NEW v, i \notin DOMAIN f
  PROVE  /\ DOMAIN With(f, i, v) = DOMAIN f \cup {i} /\ With(f, i, v)[i] = v
         /\ \A j \in DOMAIN f : With(f, i, v)[j] = f[j]
BY DEF With

LEMMA HeapMade ==
  ASSUME NEW m, NEW o, NEW s, Sound(m, o, s), m.next <= MemMaxId
  PROVE  LET n == [Made(m) EXCEPT !.own = @ \cup {m.next}]
         IN  Sound(n, Plus(o, Handle("own", m.next), "own"), s) /\ n.next = m.next + 1
<1> DEFINE r == [raw |-> m.raw, vecs |-> m.vecs, own |-> m.own \cup {m.next}, shared |-> m.shared, weak |-> m.weak,
                 buf |-> m.buf, next |-> m.next + 1, allocs |-> m.allocs + 1, frees |-> m.frees, views |-> m.views]
           p == Plus(o, Handle("own", m.next), "own")
<1>1. [Made(m) EXCEPT !.own = @ \cup {m.next}] = r
  BY MadeIs DEF Sound, Typed
<1>2. /\ r.raw = m.raw /\ r.vecs = m.vecs /\ r.own = m.own \cup {m.next} /\ r.shared = m.shared /\ r.weak = m.weak
      /\ r.buf = m.buf /\ r.next = m.next + 1 /\ r.allocs = m.allocs + 1 /\ r.frees = m.frees /\ r.views = m.views
      /\ Shaped(r)
  BY DEF Shaped
<1>3. m.next \in Nat /\ p \in Tallies /\ p[m.next] = 1 /\ \A i \in Nat : i # m.next => p[i] = o[i]
  BY NextIsFree DEF Sound, Tallies, Plus, Handle
<1> HIDE DEF r, p
<1>4. Below(r) = Below(m) \cup {m.next} /\ r.next \in 1 .. MemMaxId + 1
  BY <1>2, Grows DEF Sound
<1>5. Typed(r)
  BY <1>2, <1>4 DEF Sound, Typed, Numbered, Tables
<1>6. Tallied(r, p, s)
  <2>1. m.own \subseteq Nat /\ m.next \notin m.own
    BY NextIsFree DEF Sound, Typed, Tables, Numbered, Below
  <2>2. \A i : Onto(r, i) = Onto(m, i)
    BY <1>2 DEF Onto
  <2>3. \A i \in r.own : p[i] = 1
    BY <1>2, <1>3, <2>1 DEF Sound, Tallied
  <2>4. \A i \in Nat : (p[i] > 0 => i \in r.own) /\ (s[i] > 0 => i \in DOMAIN r.shared)
    BY <1>2, <1>3 DEF Sound, Tallied
  <2> QED
    BY <1>2, <2>2, <2>3, <2>4 DEF Sound, Tallied
<1>7. LiveCount(r) + r.frees = r.allocs + r.views
  <2>1. Cardinality(r.own) = Cardinality(m.own) + 1 /\ Lives(r) = Lives(m)
    <3>1. Cardinality(m.own \cup {m.next}) = Cardinality(m.own) + 1
      BY FiniteTables, LiveTables DEF Sound
    <3> QED
      BY <1>2, <3>1 DEF Lives
  <2>2. /\ LiveCount(r) = Cardinality(DOMAIN m.raw) + (Cardinality(m.own) + 1) + Cardinality(DOMAIN m.buf) + Cardinality(Lives(m))
        /\ LiveCount(m) + m.frees = m.allocs + m.views
    BY <1>2, <1>5, <2>1, LiveTables DEF Sound
  <2> QED
    BY <1>2, <2>2, LiveParts DEF Sound
<1> QED
  BY <1>1, <1>2, <1>3, <1>5, <1>6, <1>7 DEF Sound, p

LEMMA SharedMade ==
  ASSUME NEW m, NEW o, NEW s, Sound(m, o, s), m.next <= MemMaxId
  PROVE  LET n == [Made(m) EXCEPT !.shared = With(@, m.next, [strong |-> 1, weak |-> 0])]
         IN  Sound(n, o, Plus(s, Handle("shared", m.next), "shared")) /\ n.next = m.next + 1
<1> DEFINE more == With(m.shared, m.next, [strong |-> 1, weak |-> 0])
           r == [raw |-> m.raw, vecs |-> m.vecs, own |-> m.own, shared |-> more, weak |-> m.weak,
                 buf |-> m.buf, next |-> m.next + 1, allocs |-> m.allocs + 1, frees |-> m.frees, views |-> m.views]
           p == Plus(s, Handle("shared", m.next), "shared")
<1>1. [Made(m) EXCEPT !.shared = With(@, m.next, [strong |-> 1, weak |-> 0])] = r
  BY MadeIs DEF Sound, Typed
<1>2. /\ r.raw = m.raw /\ r.vecs = m.vecs /\ r.own = m.own /\ r.shared = more /\ r.weak = m.weak
      /\ r.buf = m.buf /\ r.next = m.next + 1 /\ r.allocs = m.allocs + 1 /\ r.frees = m.frees /\ r.views = m.views
      /\ Shaped(r)
  BY DEF Shaped
<1>3. m.next \in Nat /\ p \in Tallies /\ p[m.next] = 1 /\ \A i \in Nat : i # m.next => p[i] = s[i]
  BY NextIsFree DEF Sound, Tallies, Plus, Handle
<1>4. m.next \notin DOMAIN m.shared /\ DOMAIN m.shared \subseteq Nat
  BY NextIsFree DEF Sound, Typed, Tables, Numbered, Below
<1>5. /\ DOMAIN more = DOMAIN m.shared \cup {m.next} /\ more[m.next].strong = 1 /\ more[m.next].weak = 0
      /\ \A i \in DOMAIN m.shared : more[i] = m.shared[i]
      /\ more \in [DOMAIN more -> [strong : Nat, weak : Nat]]
  <2>1. m.shared \in [DOMAIN m.shared -> [strong : Nat, weak : Nat]]
    BY DEF Sound, Typed, Tables
  <2> QED
    BY <1>4, <2>1 DEF With
<1> HIDE DEF r, p, more
<1>6. Below(r) = Below(m) \cup {m.next} /\ r.next \in 1 .. MemMaxId + 1
  BY <1>2, Grows DEF Sound
<1>7. Typed(r)
  BY <1>2, <1>5, <1>6 DEF Sound, Typed, Numbered, Tables
<1>8. Tallied(r, o, p)
  <2>1. \A i : Onto(r, i) = Onto(m, i)
    BY <1>2 DEF Onto
  <2>2. Cardinality(Onto(m, m.next)) = 0
    BY NextIsFree, FS_EmptySet
  <2>3. \A i \in DOMAIN r.shared : /\ r.shared[i].strong = p[i] /\ r.shared[i].weak = Cardinality(Onto(r, i))
                                  /\ r.shared[i].strong + r.shared[i].weak > 0
    BY <1>2, <1>3, <1>4, <1>5, <2>1, <2>2 DEF Sound, Tallied
  <2> QED
    BY <1>2, <1>3, <1>5, <2>3 DEF Sound, Tallied
<1>9. LiveCount(r) + r.frees = r.allocs + r.views
  <2>1. Lives(r) = Lives(m) \cup {m.next}
    BY <1>2, <1>4, <1>5 DEF Lives
  <2>2. Cardinality(Lives(r)) = Cardinality(Lives(m)) + 1
    BY <2>1, FiniteTables, LiveTables DEF Sound
  <2>3. /\ LiveCount(r) = Cardinality(DOMAIN m.raw) + Cardinality(m.own) + Cardinality(DOMAIN m.buf) + (Cardinality(Lives(m)) + 1)
        /\ LiveCount(m) + m.frees = m.allocs + m.views
    BY <1>2, <1>7, <2>2, LiveTables DEF Sound
  <2> QED
    BY <1>2, <2>3, LiveParts DEF Sound
<1> QED
  BY <1>1, <1>2, <1>3, <1>7, <1>8, <1>9 DEF Sound, p

LEMMA WeakMade ==
  ASSUME NEW m, NEW o, NEW s, Sound(m, o, s), m.next <= MemMaxId, NEW t \in DOMAIN m.shared
  PROVE  LET n == [Fresh(m) EXCEPT !.shared[t].weak = @ + 1, !.weak = With(@, m.next, t)]
         IN  Sound(n, o, s) /\ n.next = m.next + 1
<1> DEFINE rest == [m.shared EXCEPT ![t].weak = @ + 1]
           more == With(m.weak, m.next, t)
           r == [raw |-> m.raw, vecs |-> m.vecs, own |-> m.own, shared |-> rest, weak |-> more,
                 buf |-> m.buf, next |-> m.next + 1, allocs |-> m.allocs, frees |-> m.frees, views |-> m.views]
<1>1. [Fresh(m) EXCEPT !.shared[t].weak = @ + 1, !.weak = With(@, m.next, t)] = r
  <2> DEFINE f == [raw |-> m.raw, vecs |-> m.vecs, own |-> m.own, shared |-> m.shared, weak |-> m.weak, buf |-> m.buf,
                   next |-> m.next + 1, allocs |-> m.allocs, frees |-> m.frees, views |-> m.views]
             g == [f EXCEPT !.shared[t].weak = @ + 1]
  <2>1. Fresh(m) = f
    BY MadeIs DEF Sound, Typed
  <2>2. g = [raw |-> m.raw, vecs |-> m.vecs, own |-> m.own, shared |-> rest, weak |-> m.weak, buf |-> m.buf,
             next |-> m.next + 1, allocs |-> m.allocs, frees |-> m.frees, views |-> m.views]
    OBVIOUS
  <2>3. [f EXCEPT !.shared[t].weak = @ + 1, !.weak = With(@, m.next, t)] = [g EXCEPT !.weak = With(@, m.next, t)]
    OBVIOUS
  <2> HIDE DEF g, f, rest
  <2> QED
    BY <2>1, <2>2, <2>3
<1>2. /\ r.raw = m.raw /\ r.vecs = m.vecs /\ r.own = m.own /\ r.shared = rest /\ r.weak = more
      /\ r.buf = m.buf /\ r.next = m.next + 1 /\ r.allocs = m.allocs /\ r.frees = m.frees /\ r.views = m.views
      /\ Shaped(r)
  BY DEF Shaped
<1>3. /\ m.next \notin DOMAIN m.weak /\ m.next \in Nat /\ t \in Below(m)
      /\ DOMAIN m.weak \subseteq Below(m) /\ m.weak \in [DOMAIN m.weak -> Below(m)]
  BY NextIsFree DEF Sound, Typed, Tables
<1>4. /\ DOMAIN more = DOMAIN m.weak \cup {m.next} /\ more[m.next] = t
      /\ \A i \in DOMAIN m.weak : more[i] = m.weak[i]
      /\ more \in [DOMAIN more -> Below(m)]
  BY <1>3 DEF With
<1>5. /\ rest \in [DOMAIN m.shared -> [strong : Nat, weak : Nat]] /\ rest[t].weak = m.shared[t].weak + 1
      /\ rest[t].strong = m.shared[t].strong /\ \A i \in DOMAIN m.shared : i # t => rest[i] = m.shared[i]
  BY DEF Sound, Typed, Tables
<1> HIDE DEF r, rest, more
<1>6. Below(r) = Below(m) \cup {m.next} /\ r.next \in 1 .. MemMaxId + 1
  BY <1>2, Grows DEF Sound
<1>7. Typed(r)
  <2>1. more \in [DOMAIN more -> Below(r)] /\ DOMAIN more \subseteq Below(r)
    BY <1>3, <1>4, <1>6
  <2> QED
    BY <1>2, <1>5, <1>6, <2>1 DEF Sound, Typed, Numbered, Tables
<1>8. Tallied(r, o, s)
  <2>1. /\ \A i : i # t => Onto(r, i) = Onto(m, i)
        /\ Onto(r, t) = Onto(m, t) \cup {m.next}
    BY <1>2, <1>3, <1>4 DEF Onto
  <2>2. /\ Cardinality(Onto(r, t)) = Cardinality(Onto(m, t)) + 1 /\ Cardinality(Onto(m, t)) \in Nat
    BY <2>1, FiniteTables, LiveTables DEF Sound
  <2>3. ASSUME NEW i \in DOMAIN m.shared
        PROVE  /\ rest[i].strong = s[i] /\ rest[i].weak = Cardinality(Onto(r, i))
               /\ rest[i].strong + rest[i].weak > 0
    <3>1. /\ m.shared[i].strong = s[i] /\ m.shared[i].weak = Cardinality(Onto(m, i))
          /\ m.shared[i].strong + m.shared[i].weak > 0 /\ m.shared[i].strong \in Nat
      BY DEF Sound, Tallied, Typed, Tables
    <3>2. CASE i = t
      BY <1>5, <2>2, <3>1, <3>2
    <3>3. CASE i # t
      BY <1>5, <2>1, <3>1, <3>3
    <3> QED
      BY <3>2, <3>3
  <2>4. DOMAIN rest = DOMAIN m.shared
    BY <1>5
  <2> QED
    BY <1>2, <2>3, <2>4 DEF Sound, Tallied
<1>9. LiveCount(r) = LiveCount(m)
  <2>1. Lives(r) = Lives(m)
    BY <1>2, <1>5 DEF Lives
  <2> QED
    BY <1>2, <1>7, <2>1, LiveTables DEF Sound
<1> QED
  BY <1>1, <1>2, <1>7, <1>8, <1>9 DEF Sound

LEMMA BufMade ==
  ASSUME NEW m, NEW o, NEW s, Sound(m, o, s), m.next <= MemMaxId, NEW cells
  PROVE  LET n == [Made(m) EXCEPT !.buf = With(@, m.next, cells)]
         IN  Sound(n, o, s) /\ n.next = m.next + 1
<1> DEFINE more == With(m.buf, m.next, cells)
           r == [raw |-> m.raw, vecs |-> m.vecs, own |-> m.own, shared |-> m.shared, weak |-> m.weak,
                 buf |-> more, next |-> m.next + 1, allocs |-> m.allocs + 1, frees |-> m.frees, views |-> m.views]
<1>1. [Made(m) EXCEPT !.buf = With(@, m.next, cells)] = r
  BY MadeIs DEF Sound, Typed
<1>2. /\ r.raw = m.raw /\ r.vecs = m.vecs /\ r.own = m.own /\ r.shared = m.shared /\ r.weak = m.weak
      /\ r.buf = more /\ r.next = m.next + 1 /\ r.allocs = m.allocs + 1 /\ r.frees = m.frees /\ r.views = m.views
      /\ DOMAIN more = DOMAIN m.buf \cup {m.next} /\ more = [i \in DOMAIN more |-> more[i]]
      /\ Shaped(r)
  BY DEF Shaped, With
<1> HIDE DEF r, more
<1>3. Below(r) = Below(m) \cup {m.next} /\ r.next \in 1 .. MemMaxId + 1
  BY <1>2, Grows DEF Sound
<1>4. Typed(r)
  BY <1>2, <1>3 DEF Sound, Typed, Numbered, Tables
<1>5. Tallied(r, o, s)
  BY <1>2 DEF Sound, Tallied, Onto
<1>6. LiveCount(r) + r.frees = r.allocs + r.views
  <2>1. Cardinality(DOMAIN r.buf) = Cardinality(DOMAIN m.buf) + 1
    BY <1>2, FiniteTables, LiveTables DEF Sound
  <2>2. Lives(r) = Lives(m)
    BY <1>2 DEF Lives
  <2>3. /\ LiveCount(r) = Cardinality(DOMAIN m.raw) + Cardinality(m.own) + (Cardinality(DOMAIN m.buf) + 1) + Cardinality(Lives(m))
        /\ LiveCount(m) + m.frees = m.allocs + m.views
    BY <1>2, <1>4, <2>1, <2>2, LiveTables DEF Sound
  <2>4. r.frees = m.frees /\ r.allocs = m.allocs + 1 /\ r.views = m.views
    BY <1>2
  <2>5. /\ Cardinality(DOMAIN m.raw) \in Nat /\ Cardinality(m.own) \in Nat /\ Cardinality(DOMAIN m.buf) \in Nat
        /\ Cardinality(Lives(m)) \in Nat /\ m.allocs \in Nat /\ m.frees \in Nat /\ m.views \in Int
        /\ LiveCount(m) = Cardinality(DOMAIN m.raw) + Cardinality(m.own) + Cardinality(DOMAIN m.buf) + Cardinality(Lives(m))
    BY LiveParts DEF Sound
  <2> QED
    BY <2>3, <2>4, <2>5
<1> QED
  BY <1>1, <1>2, <1>4, <1>5, <1>6 DEF Sound

\* A pointer or a view.
LEMMA RawMade ==
  ASSUME NEW m, NEW o, NEW s, Sound(m, o, s), m.next <= MemMaxId,
         NEW p \in [vec : Nat, at : Nat], NEW vecs, DOMAIN m.vecs \subseteq DOMAIN vecs, p.vec \in DOMAIN vecs,
         NEW a \in Nat, NEW v \in Int, a + v = m.allocs + m.views + 1
  PROVE  LET n == [raw |-> With(m.raw, m.next, p), vecs |-> vecs, own |-> m.own, shared |-> m.shared, weak |-> m.weak,
                   buf |-> m.buf, next |-> m.next + 1, allocs |-> a, frees |-> m.frees, views |-> v]
         IN  Sound(n, o, s) /\ n.next = m.next + 1
<1> DEFINE more == With(m.raw, m.next, p)
           r == [raw |-> more, vecs |-> vecs, own |-> m.own, shared |-> m.shared, weak |-> m.weak,
                 buf |-> m.buf, next |-> m.next + 1, allocs |-> a, frees |-> m.frees, views |-> v]
<1>1. /\ r.raw = more /\ r.vecs = vecs /\ r.own = m.own /\ r.shared = m.shared /\ r.weak = m.weak
      /\ r.buf = m.buf /\ r.next = m.next + 1 /\ r.allocs = a /\ r.frees = m.frees /\ r.views = v
      /\ Shaped(r)
  BY DEF Shaped
<1>2. /\ m.next \notin DOMAIN m.raw /\ m.raw \in [DOMAIN m.raw -> [vec : Nat, at : Nat]]
      /\ \A i \in DOMAIN m.raw : m.raw[i].vec \in DOMAIN m.vecs
  BY NextIsFree DEF Sound, Typed, Tables
<1>3. /\ DOMAIN more = DOMAIN m.raw \cup {m.next} /\ more[m.next] = p
      /\ \A i \in DOMAIN m.raw : more[i] = m.raw[i]
      /\ more \in [DOMAIN more -> [vec : Nat, at : Nat]]
  BY <1>2 DEF With
<1> HIDE DEF r, more
<1>4. Below(r) = Below(m) \cup {m.next} /\ r.next \in 1 .. MemMaxId + 1
  BY <1>1, Grows DEF Sound
<1>5. Typed(r)
  <2>1. \A i \in DOMAIN more : more[i].vec \in DOMAIN vecs
    BY <1>2, <1>3
  <2> QED
    BY <1>1, <1>3, <1>4, <2>1 DEF Sound, Typed, Numbered, Tables
<1>6. Tallied(r, o, s)
  BY <1>1 DEF Sound, Tallied, Onto
<1>7. LiveCount(r) + r.frees = r.allocs + r.views
  <2>1. Cardinality(DOMAIN r.raw) = Cardinality(DOMAIN m.raw) + 1
    BY <1>1, <1>3, FiniteTables, LiveTables DEF Sound
  <2>2. Lives(r) = Lives(m)
    BY <1>1 DEF Lives
  <2>3. /\ LiveCount(r) = (Cardinality(DOMAIN m.raw) + 1) + Cardinality(m.own) + Cardinality(DOMAIN m.buf) + Cardinality(Lives(m))
        /\ LiveCount(m) + m.frees = m.allocs + m.views
    BY <1>1, <1>5, <2>1, <2>2, LiveTables DEF Sound
  <2> QED
    BY <1>1, <2>3, LiveParts DEF Sound
<1> QED
  BY <1>1, <1>5, <1>6, <1>7 DEF Sound, r, more

LEMMA Retained ==
  ASSUME NEW m, NEW o, NEW s, Sound(m, o, s), NEW h \in Values, h.k = "shared" => s[h.id] > 0
  PROVE  Sound(Retain(m, h), o, Plus(s, h, "shared")) /\ Retain(m, h).next = m.next
<1>1. CASE h.k # "shared"
  BY <1>1 DEF Retain, Plus
<1>2. CASE h.k = "shared"
  <2> DEFINE id == h.id
             rest == [m.shared EXCEPT ![id].strong = @ + 1]
             r == [raw |-> m.raw, vecs |-> m.vecs, own |-> m.own, shared |-> rest, weak |-> m.weak,
                   buf |-> m.buf, next |-> m.next, allocs |-> m.allocs, frees |-> m.frees, views |-> m.views]
             p == [s EXCEPT ![id] = @ + 1]
  <2>1. id \in Nat /\ id \in DOMAIN m.shared /\ m.shared[id].strong = s[id] /\ s[id] \in Nat /\ s[id] > 0
    BY <1>2 DEF Values, Sound, Tallied, Tallies
  <2>2. Retain(m, h) = r /\ Plus(s, h, "shared") = p
    BY <1>2, <2>1 DEF Retain, Plus, Sound, Typed, Shaped
  <2>3. /\ r.raw = m.raw /\ r.vecs = m.vecs /\ r.own = m.own /\ r.shared = rest /\ r.weak = m.weak
        /\ r.buf = m.buf /\ r.next = m.next /\ r.allocs = m.allocs /\ r.frees = m.frees /\ r.views = m.views
        /\ Shaped(r)
    BY DEF Shaped
  <2>4. /\ rest \in [DOMAIN m.shared -> [strong : Nat, weak : Nat]] /\ rest[id].strong = s[id] + 1
        /\ rest[id].weak = m.shared[id].weak /\ \A i \in DOMAIN m.shared : i # id => rest[i] = m.shared[i]
    BY <2>1 DEF Sound, Typed, Tables
  <2>5. p \in Tallies /\ p[id] = s[id] + 1 /\ \A i \in Nat : i # id => p[i] = s[i]
    BY <2>1 DEF Sound, Tallies
  <2> HIDE DEF r, p, rest, id
  <2>6. Typed(r)
    BY <2>3, <2>4 DEF Sound, Typed, Numbered, Tables, Below
  <2>7. Tallied(r, o, p)
    <3>1. \A i : Onto(r, i) = Onto(m, i)
      BY <2>3 DEF Onto
    <3>2. ASSUME NEW i \in DOMAIN m.shared
          PROVE  /\ rest[i].strong = p[i] /\ rest[i].weak = Cardinality(Onto(m, i)) /\ rest[i].strong + rest[i].weak > 0
      <4>1. /\ m.shared[i].strong = s[i] /\ m.shared[i].weak = Cardinality(Onto(m, i))
            /\ m.shared[i].strong + m.shared[i].weak > 0 /\ m.shared[i].weak \in Nat /\ i \in Nat
        BY DEF Sound, Tallied, Typed, Tables, Numbered, Below
      <4>2. CASE i = id
        BY <2>1, <2>4, <2>5, <4>1, <4>2
      <4>3. CASE i # id
        BY <2>4, <2>5, <4>1, <4>3
      <4> QED
        BY <4>2, <4>3
    <3>3. DOMAIN rest = DOMAIN m.shared
      BY <2>4
    <3>4. \A i \in Nat : p[i] > 0 => i \in DOMAIN m.shared
      BY <2>1, <2>5 DEF Sound, Tallied
    <3> QED
      BY <2>3, <3>1, <3>2, <3>3, <3>4 DEF Sound, Tallied
  <2>8. LiveCount(r) = LiveCount(m)
    <3>1. \A i \in DOMAIN m.shared : rest[i].strong > 0 <=> m.shared[i].strong > 0
      BY <2>1, <2>4
    <3>2. Lives(r) = Lives(m)
      BY <2>3, <2>4, <3>1 DEF Lives
    <3> QED
      BY <2>3, <2>6, <3>2, LiveTables DEF Sound
  <2> QED
    BY <2>2, <2>3, <2>5, <2>6, <2>7, <2>8 DEF Sound
<1> QED
  BY <1>1, <1>2

\* The cells of a freed block go with its last view.
LEMMA Forgotten ==
  ASSUME NEW m, NEW o, NEW s, Sound(m, o, s), NEW id \in DOMAIN m.raw
  PROVE  Sound(Freed(Forget(m, id), 1), o, s) /\ Freed(Forget(m, id), 1).next = m.next
<1> DEFINE left == [i \in DOMAIN m.raw \ {id} |-> m.raw[i]]
           vecs == [i \in {left[j].vec : j \in DOMAIN left} |-> m.vecs[i]]
           r == [raw |-> left, vecs |-> vecs, own |-> m.own, shared |-> m.shared, weak |-> m.weak,
                 buf |-> m.buf, next |-> m.next, allocs |-> m.allocs, frees |-> m.frees + 1, views |-> m.views]
<1>1. Freed(Forget(m, id), 1) = r
  <2>1. Without(m.raw, id) = left /\ Restrict(m.vecs, {left[j].vec : j \in DOMAIN left}) = vecs
    BY DEF Without, Restrict
  <2>2. Forget(m, id) = [m EXCEPT !.raw = left, !.vecs = vecs]
    <3>1. Forget(m, id) = [m EXCEPT !.raw = Without(m.raw, id),
                                    !.vecs = Restrict(@, {Without(m.raw, id)[p].vec : p \in DOMAIN Without(m.raw, id)})]
      BY Zenon DEF Forget
    <3> HIDE DEF left, vecs
    <3>2. Forget(m, id) = [m EXCEPT !.raw = left, !.vecs = Restrict(@, {left[j].vec : j \in DOMAIN left})]
      BY <2>1, <3>1
    <3>3. [m EXCEPT !.raw = left, !.vecs = Restrict(@, {left[j].vec : j \in DOMAIN left})]
            = [m EXCEPT !.raw = left, !.vecs = Restrict(m.vecs, {left[j].vec : j \in DOMAIN left})]
      OBVIOUS
    <3> QED
      BY <2>1, <3>2, <3>3
  <2> HIDE DEF left, vecs
  <2>3. Forget(m, id) = [raw |-> left, vecs |-> vecs, own |-> m.own, shared |-> m.shared, weak |-> m.weak,
                         buf |-> m.buf, next |-> m.next, allocs |-> m.allocs, frees |-> m.frees, views |-> m.views]
    BY <2>2 DEF Sound, Typed, Shaped
  <2> QED
    BY <2>3 DEF Freed
<1>2. /\ r.raw = left /\ r.vecs = vecs /\ r.own = m.own /\ r.shared = m.shared /\ r.weak = m.weak
      /\ r.buf = m.buf /\ r.next = m.next /\ r.allocs = m.allocs /\ r.frees = m.frees + 1 /\ r.views = m.views
      /\ Shaped(r)
  BY DEF Shaped
<1>3. /\ DOMAIN left = DOMAIN m.raw \ {id} /\ left \in [DOMAIN left -> [vec : Nat, at : Nat]]
      /\ \A i \in DOMAIN left : left[i].vec \in DOMAIN vecs
  BY DEF Sound, Typed, Tables
<1> HIDE DEF r, left, vecs
<1>4. Typed(r)
  BY <1>2, <1>3 DEF Sound, Typed, Numbered, Tables, Below
<1>5. Tallied(r, o, s)
  <2>1. \A i : Onto(r, i) = Onto(m, i)
    BY <1>2 DEF Onto
  <2> QED
    BY <1>2, <2>1 DEF Sound, Tallied
<1>6. LiveCount(r) + r.frees = r.allocs + r.views
  <2>1. Cardinality(DOMAIN r.raw) = Cardinality(DOMAIN m.raw) - 1
    BY <1>2, <1>3, FiniteTables, LiveTables DEF Sound
  <2>2. Lives(r) = Lives(m)
    BY <1>2 DEF Lives
  <2>3. /\ LiveCount(r) = (Cardinality(DOMAIN m.raw) - 1) + Cardinality(m.own) + Cardinality(DOMAIN m.buf) + Cardinality(Lives(m))
        /\ LiveCount(m) + m.frees = m.allocs + m.views
    BY <1>2, <1>4, <2>1, <2>2, LiveTables DEF Sound
  <2> QED
    BY <1>2, <2>3, LiveParts DEF Sound
<1> QED
  BY <1>1, <1>2, <1>4, <1>5, <1>6 DEF Sound

\* Other cells, and other cells of a buffer.
LEMMA CellsChange ==
  ASSUME NEW m, NEW o, NEW s, Sound(m, o, s)
  PROVE  /\ \A h, cells : Sound(Put(m, h, cells), o, s) /\ Put(m, h, cells).next = m.next
         /\ \A id, cells : Sound([m EXCEPT !.buf[id] = cells], o, s) /\ [m EXCEPT !.buf[id] = cells].next = m.next
<1>1. ASSUME NEW vecs, DOMAIN vecs = DOMAIN m.vecs, NEW buf, DOMAIN buf = DOMAIN m.buf, buf = [i \in DOMAIN buf |-> buf[i]]
      PROVE  LET r == [raw |-> m.raw, vecs |-> vecs, own |-> m.own, shared |-> m.shared, weak |-> m.weak,
                       buf |-> buf, next |-> m.next, allocs |-> m.allocs, frees |-> m.frees, views |-> m.views]
             IN Sound(r, o, s) /\ r.next = m.next
  <2> DEFINE r == [raw |-> m.raw, vecs |-> vecs, own |-> m.own, shared |-> m.shared, weak |-> m.weak,
                   buf |-> buf, next |-> m.next, allocs |-> m.allocs, frees |-> m.frees, views |-> m.views]
  <2>1. /\ r.raw = m.raw /\ r.vecs = vecs /\ r.own = m.own /\ r.shared = m.shared /\ r.weak = m.weak
        /\ r.buf = buf /\ r.next = m.next /\ r.allocs = m.allocs /\ r.frees = m.frees /\ r.views = m.views
        /\ Shaped(r)
    BY DEF Shaped
  <2> HIDE DEF r
  <2>2. Typed(r)
    BY <1>1, <2>1 DEF Sound, Typed, Numbered, Tables, Below
  <2>3. Tallied(r, o, s)
    BY <2>1 DEF Sound, Tallied, Onto
  <2>4. Lives(r) = Lives(m)
    BY <2>1 DEF Lives
  <2>5. LiveCount(r) = LiveCount(m)
    BY <1>1, <2>1, <2>2, <2>4, LiveTables DEF Sound
  <2>6. Sound(r, o, s) /\ r.next = m.next
    BY <2>1, <2>2, <2>3, <2>5 DEF Sound
  <2> QED
    BY <2>6 DEF r
<1>2. ASSUME NEW h, NEW cells PROVE Sound(Put(m, h, cells), o, s) /\ Put(m, h, cells).next = m.next
  <2> DEFINE vecs == [m.vecs EXCEPT ![m.raw[h.id].vec] = cells]
  <2>1. Put(m, h, cells) = [raw |-> m.raw, vecs |-> vecs, own |-> m.own, shared |-> m.shared, weak |-> m.weak,
                            buf |-> m.buf, next |-> m.next, allocs |-> m.allocs, frees |-> m.frees, views |-> m.views]
    BY DEF Put, Sound, Typed, Shaped
  <2>2. DOMAIN vecs = DOMAIN m.vecs /\ m.buf = [i \in DOMAIN m.buf |-> m.buf[i]]
    BY DEF Sound, Typed, Tables
  <2> HIDE DEF vecs
  <2> QED
    BY <1>1, <2>1, <2>2
<1>3. ASSUME NEW id, NEW cells
      PROVE  Sound([m EXCEPT !.buf[id] = cells], o, s) /\ [m EXCEPT !.buf[id] = cells].next = m.next
  <2> DEFINE buf == [m.buf EXCEPT ![id] = cells]
  <2>1. [m EXCEPT !.buf[id] = cells] =
          [raw |-> m.raw, vecs |-> m.vecs, own |-> m.own, shared |-> m.shared, weak |-> m.weak,
           buf |-> buf, next |-> m.next, allocs |-> m.allocs, frees |-> m.frees, views |-> m.views]
    BY DEF Sound, Typed, Shaped
  <2>2. DOMAIN buf = DOMAIN m.buf /\ buf = [i \in DOMAIN buf |-> buf[i]]
    OBVIOUS
  <2> HIDE DEF buf
  <2> QED
    BY <1>1, <2>1, <2>2
<1> QED
  BY <1>2, <1>3

LEMMA StatsReset ==
  ASSUME NEW m, NEW o, NEW s, Sound(m, o, s)
  PROVE  LET n == [m EXCEPT !.allocs = 0, !.frees = 0, !.views = LiveCount(m)]
         IN  Sound(n, o, s) /\ n.next = m.next
<1> DEFINE v == LiveCount(m)
           r == [raw |-> m.raw, vecs |-> m.vecs, own |-> m.own, shared |-> m.shared, weak |-> m.weak,
                 buf |-> m.buf, next |-> m.next, allocs |-> 0, frees |-> 0, views |-> v]
<1>1. v \in Int
  BY LiveParts DEF Sound
<1> HIDE DEF v
<1>2. [m EXCEPT !.allocs = 0, !.frees = 0, !.views = v] = r
  <2> DEFINE a == [m EXCEPT !.allocs = 0]
             f == [a EXCEPT !.frees = 0]
  <2>1. a = [raw |-> m.raw, vecs |-> m.vecs, own |-> m.own, shared |-> m.shared, weak |-> m.weak,
             buf |-> m.buf, next |-> m.next, allocs |-> 0, frees |-> m.frees, views |-> m.views]
    BY DEF Sound, Typed, Shaped
  <2>2. [m EXCEPT !.allocs = 0, !.frees = 0, !.views = v] = [f EXCEPT !.views = v]
    OBVIOUS
  <2> HIDE DEF a
  <2>3. f = [raw |-> m.raw, vecs |-> m.vecs, own |-> m.own, shared |-> m.shared, weak |-> m.weak,
             buf |-> m.buf, next |-> m.next, allocs |-> 0, frees |-> 0, views |-> m.views]
    BY <2>1
  <2> HIDE DEF f
  <2>4. [f EXCEPT !.views = v] = r
    BY <2>3
  <2> QED
    BY <2>2, <2>4
<1>3. /\ r.raw = m.raw /\ r.vecs = m.vecs /\ r.own = m.own /\ r.shared = m.shared /\ r.weak = m.weak
      /\ r.buf = m.buf /\ r.next = m.next /\ r.allocs = 0 /\ r.frees = 0 /\ r.views = v
      /\ Shaped(r)
  BY DEF Shaped
<1> HIDE DEF r
<1>4. Typed(r)
  BY <1>1, <1>3 DEF Sound, Typed, Numbered, Tables, Below
<1>5. Tallied(r, o, s)
  BY <1>3 DEF Sound, Tallied, Onto
<1>6. LiveCount(r) = v
  <2>1. Lives(r) = Lives(m)
    BY <1>3 DEF Lives
  <2> QED
    BY <1>3, <1>4, <2>1, LiveTables DEF Sound, v
<1> QED
  BY <1>1, <1>2, <1>3, <1>4, <1>5, <1>6 DEF Sound, v

-----------------------------------------------------------------------------
(***************************************************************************)
(* The inductive invariant: the tables agree with the variables, and the   *)
(* marks of the open blocks point into the log, later ones further.        *)
(***************************************************************************)
Marked ==
  /\ memLog \in Seq(MemNames) /\ memMarks \in Seq(Nat)
  /\ \A i \in DOMAIN memMarks : memMarks[i] <= Len(memLog)
  /\ \A i, j \in DOMAIN memMarks : i <= j => memMarks[i] <= memMarks[j]
MemInv == Well(mem, memEnv) /\ Marked

\* A longer log holds every mark.
LEMMA LogGrows ==
  ASSUME Marked, memLog' \in Seq(MemNames), Len(memLog) <= Len(memLog'), UNCHANGED memMarks
  PROVE  Marked'
<1>1. Len(memLog) \in Nat /\ Len(memLog') \in Nat /\ \A i \in DOMAIN memMarks : memMarks[i] \in Nat
  BY DEF Marked
<1> QED
  BY <1>1 DEF Marked

LEMMA Rebound ==
  ASSUME MemInv, NEW env \in Envs, NEW m, NEW x \in MemNames, NEW h \in Values, h.id < m.next,
         \A y \in MemNames : env[y].id < m.next,
         Sound(m, Plus(Tally(env, "own"), h, "own"), Plus(Tally(env, "shared"), h, "shared")),
         Bind(env, m, x, h)
  PROVE  MemInv'
<1>1. Well(mem', memEnv')
  BY Binds DEF Bind
<1>2. memLog' \in Seq(MemNames) /\ Len(memLog) <= Len(memLog') /\ UNCHANGED memMarks
  BY DEF Bind, MemInv, Marked
<1> QED
  BY <1>1, <1>2, LogGrows DEF MemInv

\* A new handle goes to x.
LEMMA NewBound ==
  ASSUME MemInv, NEW n, n.next = mem.next + 1, NEW x \in MemNames, NEW k \in Kinds,
         Sound(n, Plus(Tally(memEnv, "own"), Handle(k, mem.next), "own"),
                  Plus(Tally(memEnv, "shared"), Handle(k, mem.next), "shared")),
         Bind(memEnv, n, x, Handle(k, mem.next))
  PROVE  MemInv'
<1>1. mem.next \in Nat
  BY NextIsFree DEF MemInv, Well
<1>2. Handle(k, mem.next) \in Values /\ Handle(k, mem.next).id < n.next
  BY <1>1 DEF Handle, Values
<1>3. memEnv \in Envs /\ \A y \in MemNames : memEnv[y].id \in Nat /\ memEnv[y].id < mem.next
  BY DEF MemInv, Well, Envs, Values
<1>4. \A y \in MemNames : memEnv[y].id < n.next
  BY <1>1, <1>3
<1> QED
  BY <1>2, <1>3, <1>4, Rebound

LEMMA Uncounted ==
  ASSUME NEW t, NEW k, NEW id, NEW c, k # c
  PROVE  Plus(t, Handle(k, id), c) = t
BY DEF Plus, Handle

LEMMA Became ==
  ASSUME MemInv, NEW n, Sound(n, Tally(memEnv, "own"), Tally(memEnv, "shared")), n.next = mem.next, Becomes(n)
  PROVE  MemInv'
<1>1. Well(mem', memEnv')
  BY DEF Becomes, MemInv, Well
<1>2. Marked'
  BY DEF Becomes, MemInv, Marked
<1> QED
  BY <1>1, <1>2 DEF MemInv

LEMMA BlockIs ==
  ASSUME NEW m, Shaped(m), NEW cells
  PROVE  NewBlock(m, cells) =
           [raw |-> With(m.raw, m.next, [vec |-> m.next, at |-> 0]), vecs |-> With(m.vecs, m.next, cells),
            own |-> m.own, shared |-> m.shared, weak |-> m.weak, buf |-> m.buf,
            next |-> m.next + 1, allocs |-> m.allocs, frees |-> m.frees, views |-> m.views]
<1> DEFINE f == [raw |-> m.raw, vecs |-> m.vecs, own |-> m.own, shared |-> m.shared, weak |-> m.weak,
                 buf |-> m.buf, next |-> m.next + 1, allocs |-> m.allocs, frees |-> m.frees, views |-> m.views]
           p == With(m.raw, m.next, [vec |-> m.next, at |-> 0])
           c == With(m.vecs, m.next, cells)
           g == [f EXCEPT !.raw = p]
<1>1. Fresh(m) = f
  BY MadeIs
<1>2. NewBlock(m, cells) = [f EXCEPT !.raw = p, !.vecs = c]
  BY <1>1 DEF NewBlock
<1>3. [f EXCEPT !.raw = p, !.vecs = c] = [g EXCEPT !.vecs = c]
  OBVIOUS
<1> HIDE DEF p, c
<1>4. g = [raw |-> p, vecs |-> m.vecs, own |-> m.own, shared |-> m.shared, weak |-> m.weak,
           buf |-> m.buf, next |-> m.next + 1, allocs |-> m.allocs, frees |-> m.frees, views |-> m.views]
  OBVIOUS
<1> HIDE DEF f, g
<1>5. [g EXCEPT !.vecs = c] =
        [raw |-> p, vecs |-> c, own |-> m.own, shared |-> m.shared, weak |-> m.weak,
         buf |-> m.buf, next |-> m.next + 1, allocs |-> m.allocs, frees |-> m.frees, views |-> m.views]
  BY <1>4
<1> QED
  BY <1>2, <1>3, <1>5 DEF p, c

-----------------------------------------------------------------------------
(* One lemma per operation that binds a new handle. *)

LEMMA AllocStep ==
  ASSUME MemInv, NEW x \in MemNames, NEW n \in Nat, Alloc(x, n)
  PROVE  MemInv'
<1> DEFINE o == Tally(memEnv, "own")
           s == Tally(memEnv, "shared")
           cells == [i \in 1 .. (IF n = 0 THEN 1 ELSE n) |-> Zero]
           block == [vec |-> mem.next, at |-> 0]
           vecs == With(mem.vecs, mem.next, cells)
           r == [raw |-> With(mem.raw, mem.next, block), vecs |-> vecs,
                 own |-> mem.own, shared |-> mem.shared, weak |-> mem.weak, buf |-> mem.buf,
                 next |-> mem.next + 1, allocs |-> mem.allocs + 1, frees |-> mem.frees, views |-> mem.views]
<1>1. Sound(mem, o, s) /\ mem.next <= MemMaxId /\ mem.next \in Nat /\ mem.allocs \in Nat /\ mem.views \in Int
  BY NextIsFree, LiveParts DEF MemInv, Well, Alloc, Room, Sound
<1>2. Bind(memEnv, [NewBlock(mem, cells) EXCEPT !.allocs = @ + 1], x, Handle("ptr", mem.next))
  BY DEF Alloc
<1>3. [NewBlock(mem, cells) EXCEPT !.allocs = @ + 1] = r
  <2> HIDE DEF cells
  <2>1. NewBlock(mem, cells) =
          [raw |-> With(mem.raw, mem.next, block), vecs |-> vecs,
           own |-> mem.own, shared |-> mem.shared, weak |-> mem.weak, buf |-> mem.buf,
           next |-> mem.next + 1, allocs |-> mem.allocs, frees |-> mem.frees, views |-> mem.views]
    BY <1>1, BlockIs DEF Sound, Typed
  <2> HIDE DEF vecs, block
  <2> QED
    BY <2>1
<1>4. Sound(r, o, s) /\ r.next = mem.next + 1
  <2>1. DOMAIN mem.vecs \subseteq DOMAIN vecs /\ block.vec \in DOMAIN vecs
    BY DEF With
  <2>2. block \in [vec : Nat, at : Nat]
    BY <1>1
  <2>3. mem.allocs + 1 \in Nat /\ (mem.allocs + 1) + mem.views = mem.allocs + mem.views + 1
    BY <1>1
  <2> HIDE DEF o, s, vecs, block
  <2> QED
    BY <1>1, <2>1, <2>2, <2>3, RawMade
<1>5. Plus(o, Handle("ptr", mem.next), "own") = o /\ Plus(s, Handle("ptr", mem.next), "shared") = s
  BY Uncounted
<1>6. Bind(memEnv, r, x, Handle("ptr", mem.next)) /\ "ptr" \in Kinds
  BY <1>2, <1>3 DEF Kinds
<1> HIDE DEF r
<1> QED
  BY <1>4, <1>5, <1>6, NewBound

LEMMA HeapStep ==
  ASSUME MemInv, NEW x \in MemNames, NewHeap(x)
  PROVE  MemInv'
<1> DEFINE o == Tally(memEnv, "own")
           s == Tally(memEnv, "shared")
           h == Handle("own", mem.next)
           n == [Made(mem) EXCEPT !.own = @ \cup {mem.next}]
<1>1. Sound(mem, o, s) /\ mem.next <= MemMaxId
  BY DEF MemInv, Well, NewHeap, Room
<1>2. Bind(memEnv, n, x, h) /\ "own" \in Kinds
  BY DEF NewHeap, Kinds
<1>3. Sound(n, Plus(o, h, "own"), s) /\ n.next = mem.next + 1
  <2> HIDE DEF o, s
  <2> QED
    BY <1>1, HeapMade
<1>4. Plus(s, h, "shared") = s
  BY Uncounted
<1> HIDE DEF n
<1> QED
  BY <1>2, <1>3, <1>4, NewBound

LEMMA SharedStep ==
  ASSUME MemInv, NEW x \in MemNames, NewShared(x)
  PROVE  MemInv'
<1> DEFINE o == Tally(memEnv, "own")
           s == Tally(memEnv, "shared")
           h == Handle("shared", mem.next)
           n == [Made(mem) EXCEPT !.shared = With(@, mem.next, [strong |-> 1, weak |-> 0])]
<1>1. Sound(mem, o, s) /\ mem.next <= MemMaxId
  BY DEF MemInv, Well, NewShared, Room
<1>2. Bind(memEnv, n, x, h) /\ "shared" \in Kinds
  BY DEF NewShared, Kinds
<1>3. Sound(n, o, Plus(s, h, "shared")) /\ n.next = mem.next + 1
  <2> HIDE DEF o, s
  <2> QED
    BY <1>1, SharedMade
<1>4. Plus(o, h, "own") = o
  BY Uncounted
<1> HIDE DEF n
<1> QED
  BY <1>2, <1>3, <1>4, NewBound

LEMMA WeakStep ==
  ASSUME MemInv, NEW x \in MemNames, NEW y \in MemNames, NewWeak(x, y)
  PROVE  MemInv'
<1> DEFINE o == Tally(memEnv, "own")
           s == Tally(memEnv, "shared")
           t == memEnv[y].id
           h == Handle("weak", mem.next)
           n == [Fresh(mem) EXCEPT !.shared[t].weak = @ + 1, !.weak = With(@, mem.next, t)]
<1>1. Sound(mem, o, s) /\ mem.next <= MemMaxId /\ t \in DOMAIN mem.shared
  BY DEF MemInv, Well, NewWeak, Room
<1>2. Bind(memEnv, n, x, h) /\ "weak" \in Kinds
  BY DEF NewWeak, Kinds
<1>3. Sound(n, o, s) /\ n.next = mem.next + 1
  <2> HIDE DEF o, s, t
  <2> QED
    BY <1>1, WeakMade
<1>4. Plus(o, h, "own") = o /\ Plus(s, h, "shared") = s
  BY Uncounted
<1> HIDE DEF n
<1> QED
  BY <1>2, <1>3, <1>4, NewBound

LEMMA BufferStep ==
  ASSUME MemInv, NEW x \in MemNames, NEW k \in Nat, NewBuffer(x, k)
  PROVE  MemInv'
<1> DEFINE o == Tally(memEnv, "own")
           s == Tally(memEnv, "shared")
           h == Handle("buf", mem.next)
           cells == [i \in 1 .. k |-> Zero]
           n == [Made(mem) EXCEPT !.buf = With(@, mem.next, cells)]
<1>1. Sound(mem, o, s) /\ mem.next <= MemMaxId
  BY DEF MemInv, Well, NewBuffer, Room
<1>2. Bind(memEnv, n, x, h) /\ "buf" \in Kinds
  BY DEF NewBuffer, Kinds
<1>3. Sound(n, o, s) /\ n.next = mem.next + 1
  <2> HIDE DEF o, s, cells
  <2> QED
    BY <1>1, BufMade
<1>4. Plus(o, h, "own") = o /\ Plus(s, h, "shared") = s
  BY Uncounted
<1> HIDE DEF n
<1> QED
  BY <1>2, <1>3, <1>4, NewBound

LEMMA AddStep ==
  ASSUME MemInv, NEW x \in MemNames, NEW y \in MemNames, PtrAdd(x, y, 1)
  PROVE  MemInv'
<1> DEFINE o == Tally(memEnv, "own")
           s == Tally(memEnv, "shared")
           h == Handle("ptr", mem.next)
           id == memEnv[y].id
           p == [mem.raw[id] EXCEPT !.at = @ + 1]
           more == With(mem.raw, mem.next, p)
           n == [Fresh(mem) EXCEPT !.views = @ + 1, !.raw = With(@, mem.next, p)]
           r == [raw |-> more, vecs |-> mem.vecs,
                 own |-> mem.own, shared |-> mem.shared, weak |-> mem.weak, buf |-> mem.buf,
                 next |-> mem.next + 1, allocs |-> mem.allocs, frees |-> mem.frees, views |-> mem.views + 1]
<1>1. /\ Sound(mem, o, s) /\ mem.next <= MemMaxId /\ mem.next \in Nat /\ mem.allocs \in Nat /\ mem.views \in Int
      /\ id \in DOMAIN mem.raw
  BY NextIsFree, LiveParts DEF MemInv, Well, PtrAdd, Room, Sound, Usable
<1>2. Bind(memEnv, n, x, h) /\ "ptr" \in Kinds
  BY DEF PtrAdd, Kinds
<1>3. n = r
  <2> DEFINE f == [raw |-> mem.raw, vecs |-> mem.vecs, own |-> mem.own, shared |-> mem.shared, weak |-> mem.weak,
                   buf |-> mem.buf, next |-> mem.next + 1, allocs |-> mem.allocs, frees |-> mem.frees, views |-> mem.views]
             g == [f EXCEPT !.views = @ + 1]
  <2>1. Fresh(mem) = f
    BY <1>1, MadeIs DEF Sound, Typed
  <2> HIDE DEF p, id
  <2>2. [f EXCEPT !.views = @ + 1, !.raw = With(@, mem.next, p)] = [g EXCEPT !.raw = With(@, mem.next, p)]
    OBVIOUS
  <2>3. g = [raw |-> mem.raw, vecs |-> mem.vecs, own |-> mem.own, shared |-> mem.shared, weak |-> mem.weak, buf |-> mem.buf,
             next |-> mem.next + 1, allocs |-> mem.allocs, frees |-> mem.frees, views |-> mem.views + 1]
    OBVIOUS
  <2> HIDE DEF f, g
  <2>4. [g EXCEPT !.raw = With(@, mem.next, p)] = r
    BY <2>3
  <2> QED
    BY <2>1, <2>2, <2>4
<1>4. Sound(r, o, s) /\ r.next = mem.next + 1
  <2>1. p \in [vec : Nat, at : Nat] /\ p.vec \in DOMAIN mem.vecs
    BY <1>1 DEF Sound, Typed, Tables
  <2>2. mem.views + 1 \in Int /\ mem.allocs + (mem.views + 1) = mem.allocs + mem.views + 1
    BY <1>1
  <2> HIDE DEF o, s, p, id
  <2> QED
    BY <1>1, <2>1, <2>2, RawMade
<1>5. Plus(o, h, "own") = o /\ Plus(s, h, "shared") = s
  BY Uncounted
<1>6. Bind(memEnv, r, x, h)
  BY <1>2, <1>3
<1> HIDE DEF r, n
<1> QED
  BY <1>2, <1>4, <1>5, <1>6, NewBound

LEMMA ViewStep ==
  ASSUME MemInv, NEW x \in MemNames, NEW y \in MemNames, BufferPtr(x, y)
  PROVE  MemInv'
<1> DEFINE o == Tally(memEnv, "own")
           s == Tally(memEnv, "shared")
           h == Handle("ptr", mem.next)
           cells == mem.buf[memEnv[y].id]
           block == [vec |-> mem.next, at |-> 0]
           vecs == With(mem.vecs, mem.next, cells)
           r == [raw |-> With(mem.raw, mem.next, block), vecs |-> vecs,
                 own |-> mem.own, shared |-> mem.shared, weak |-> mem.weak, buf |-> mem.buf,
                 next |-> mem.next + 1, allocs |-> mem.allocs, frees |-> mem.frees, views |-> mem.views + 1]
<1>1. Sound(mem, o, s) /\ mem.next <= MemMaxId /\ mem.next \in Nat /\ mem.allocs \in Nat /\ mem.views \in Int
  BY NextIsFree, LiveParts DEF MemInv, Well, BufferPtr, Room, Sound
<1>2. Bind(memEnv, [NewBlock(mem, cells) EXCEPT !.views = @ + 1], x, h)
  BY DEF BufferPtr
<1>3. [NewBlock(mem, cells) EXCEPT !.views = @ + 1] = r
  <2> HIDE DEF cells
  <2>1. NewBlock(mem, cells) =
          [raw |-> With(mem.raw, mem.next, block), vecs |-> vecs,
           own |-> mem.own, shared |-> mem.shared, weak |-> mem.weak, buf |-> mem.buf,
           next |-> mem.next + 1, allocs |-> mem.allocs, frees |-> mem.frees, views |-> mem.views]
    BY <1>1, BlockIs DEF Sound, Typed
  <2> HIDE DEF vecs, block
  <2> QED
    BY <2>1
<1>4. Sound(r, o, s) /\ r.next = mem.next + 1
  <2>1. DOMAIN mem.vecs \subseteq DOMAIN vecs /\ block.vec \in DOMAIN vecs
    BY DEF With
  <2>2. block \in [vec : Nat, at : Nat]
    BY <1>1
  <2>3. mem.views + 1 \in Int /\ mem.allocs + (mem.views + 1) = mem.allocs + mem.views + 1
    BY <1>1
  <2> HIDE DEF o, s, vecs, block
  <2> QED
    BY <1>1, <2>1, <2>2, <2>3, RawMade
<1>5. Plus(o, h, "own") = o /\ Plus(s, h, "shared") = s
  BY Uncounted
<1>6. Bind(memEnv, r, x, h) /\ "ptr" \in Kinds
  BY <1>2, <1>3 DEF Kinds
<1> HIDE DEF r
<1> QED
  BY <1>4, <1>5, <1>6, NewBound

LEMMA BackAgain ==
  ASSUME NEW t \in [Nat -> Nat], NEW i \in Nat
  PROVE  [[t EXCEPT ![i] = @ - 1] EXCEPT ![i] = @ + 1] = t
<1> DEFINE less == [t EXCEPT ![i] = @ - 1]
           more == [less EXCEPT ![i] = @ + 1]
<1>1. less[i] = t[i] - 1 /\ DOMAIN less = Nat /\ \A j \in Nat : j # i => less[j] = t[j]
  OBVIOUS
<1> HIDE DEF less
<1>2. more[i] = t[i] /\ more = [j \in Nat |-> more[j]] /\ \A j \in Nat : j # i => more[j] = t[j]
  <2>1. less[i] + 1 = t[i]
    BY <1>1
  <2> QED
    BY <1>1, <2>1
<1> HIDE DEF more
<1>3. more = t
  BY <1>2
<1> QED
  BY <1>3 DEF more, less

\* A heap<T> moves: the source keeps null, and the tally of heaps is the same.
LEMMA CopyStep ==
  ASSUME MemInv, NEW x \in MemNames, NEW y \in MemNames, CopyIdent(x, y)
  PROVE  MemInv'
<1> DEFINE h == memEnv[y]
           o == Tally(memEnv, "own")
           s == Tally(memEnv, "shared")
<1>1. /\ memEnv \in Envs /\ h \in Values /\ h.id \in Nat /\ h.id < mem.next
      /\ \A z \in MemNames : memEnv[z].id < mem.next
      /\ Sound(mem, o, s) /\ mem.next \in Nat /\ mem.next > 0
  BY DEF MemInv, Well, Envs, Values, Sound, Typed, Numbered
<1>2. CASE h.k = "own"
  <2> DEFINE e == [memEnv EXCEPT ![y] = NullVal]
  <2>1. Bind(e, mem, x, h)
    BY <1>2 DEF CopyIdent, Retain
  <2>2. NullVal \in Values /\ NullVal.id = 0 /\ NullVal.k = "null"
    BY DEF NullVal, Values, Kinds
  <2>3. e \in Envs /\ \A z \in MemNames : e[z].id < mem.next
    BY <1>1, <2>2 DEF Envs
  <2>4. Plus(Tally(e, "own"), h, "own") = o /\ Plus(Tally(e, "shared"), h, "shared") = s
    <3>1. Tally(e, "own") = Minus(o, h, "own") /\ Tally(e, "shared") = Minus(s, h, "shared")
      <4>1. Tally(e, "own") = Minus(Plus(o, NullVal, "own"), h, "own")
        BY <1>1, <2>2, TallyBound
      <4>2. Tally(e, "shared") = Minus(Plus(s, NullVal, "shared"), h, "shared")
        BY <1>1, <2>2, TallyBound
      <4>3. Plus(o, NullVal, "own") = o /\ Plus(s, NullVal, "shared") = s
        BY <2>2 DEF Plus
      <4> QED
        BY <4>1, <4>2, <4>3
    <3>2. o \in [Nat -> Nat]
      BY <1>1, TallyTyped DEF Tallies
    <3> HIDE DEF o, s, e
    <3>3. Plus(Minus(o, h, "own"), h, "own") = o
      <4>1. Plus(Minus(o, h, "own"), h, "own") = [[o EXCEPT ![h.id] = @ - 1] EXCEPT ![h.id] = @ + 1]
        BY <1>2 DEF Plus, Minus
      <4>2. h.id \in Nat /\ o[h.id] \in Nat
        BY <1>1, <3>2
      <4> HIDE DEF h
      <4>3. [[o EXCEPT ![h.id] = @ - 1] EXCEPT ![h.id] = @ + 1] = o
        BY <3>2, <4>2, BackAgain
      <4> QED
        BY <4>1, <4>3
    <3>4. Plus(Minus(s, h, "shared"), h, "shared") = s
      BY <1>2 DEF Plus, Minus
    <3> QED
      BY <3>1, <3>3, <3>4
  <2> HIDE DEF e
  <2> QED
    BY <1>1, <2>1, <2>3, <2>4, Rebound
<1>3. CASE h.k # "own"
  <2>1. Bind(memEnv, Retain(mem, h), x, h)
    BY <1>3 DEF CopyIdent
  <2>2. h.k = "shared" => s[h.id] > 0
    BY <1>1, TallyTyped
  <2>3. Sound(Retain(mem, h), o, Plus(s, h, "shared")) /\ Retain(mem, h).next = mem.next
    BY <1>1, <2>2, Retained
  <2>4. Plus(o, h, "own") = o
    BY <1>3 DEF Plus
  <2> QED
    BY <1>1, <2>1, <2>3, <2>4, Rebound
<1> QED
  BY <1>2, <1>3

LEMMA CellsStep ==
  ASSUME MemInv, NEW x \in MemNames,
         \/ Free(x) \/ SetCell(x) \/ \E n : Realloc(x, n) \/ BufferMethod(x, n)
         \/ \E n, v : FillCells(x, n, v)
         \/ \E y, n : Transfer(x, y, n)
  PROVE  MemInv'
<1> DEFINE o == Tally(memEnv, "own")
           s == Tally(memEnv, "shared")
           h == memEnv[x]
<1>1. Sound(mem, o, s)
  BY DEF MemInv, Well
<1>2. ASSUME NEW cells, Becomes(Put(mem, h, cells)) PROVE MemInv'
  <2>1. Sound(Put(mem, h, cells), o, s) /\ Put(mem, h, cells).next = mem.next
    BY <1>1, CellsChange
  <2> QED
    BY <1>2, <2>1, Became
<1>3. ASSUME NEW id, NEW d, Becomes([mem EXCEPT !.buf[id] = d]) PROVE MemInv'
  <2>1. Sound([mem EXCEPT !.buf[id] = d], o, s) /\ [mem EXCEPT !.buf[id] = d].next = mem.next
    BY <1>1, CellsChange
  <2> QED
    BY <1>3, <2>1, Became
<1>4. CASE Free(x)
  <2>1. h.id \in DOMAIN mem.raw /\ Becomes(Freed(Forget(mem, h.id), 1))
    BY <1>4 DEF Free, Usable
  <2>2. Sound(Freed(Forget(mem, h.id), 1), o, s) /\ Freed(Forget(mem, h.id), 1).next = mem.next
    BY <1>1, <2>1, Forgotten
  <2> QED
    BY <2>1, <2>2, Became
<1>5. CASE SetCell(x)
  <2>1. \E cells : Becomes(Put(mem, h, cells))
    BY <1>5 DEF SetCell, Write
  <2> QED
    BY <1>2, <2>1
<1>6. ASSUME NEW n, Realloc(x, n) PROVE MemInv'
  <2>1. \E cells : Becomes(Put(mem, h, cells))
    BY <1>6 DEF Realloc
  <2> QED
    BY <1>2, <2>1
<1>7. ASSUME NEW n, BufferMethod(x, n) PROVE MemInv'
  <2>1. \E d : Becomes([mem EXCEPT !.buf[h.id] = d])
    BY <1>7 DEF BufferMethod
  <2> QED
    BY <1>3, <2>1
<1>8. ASSUME NEW n, NEW v, FillCells(x, n, v) PROVE MemInv'
  <2>1. \E cells : Becomes(Put(mem, h, cells))
    BY <1>8 DEF FillCells, Fill
  <2> QED
    BY <1>2, <2>1
<1>9. ASSUME NEW y, NEW n, Transfer(x, y, n) PROVE MemInv'
  <2>1. \E cells : CopyCells(mem, h, memEnv[y], n) = Put(mem, h, cells)
    BY DEF CopyCells
  <2>2. \E cells : MoveCells(mem, h, memEnv[y], n) = Put(mem, h, cells)
    BY DEF MoveCells
  <2>3. \E cells : Becomes(Put(mem, h, cells))
    BY <1>9, <2>1, <2>2 DEF Transfer
  <2> QED
    BY <1>2, <2>3
<1> QED
  BY <1>4, <1>5, <1>6, <1>7, <1>8, <1>9

LEMMA EnterStep ==
  ASSUME MemInv, EnterBlock
  PROVE  MemInv'
<1>1. Well(mem', memEnv')
  BY DEF EnterBlock, MemInv
<1>2. /\ memMarks \in Seq(Nat) /\ Len(memLog) \in Nat /\ UNCHANGED memLog
      /\ memMarks' = Append(memMarks, Len(memLog))
      /\ \A i \in DOMAIN memMarks : memMarks[i] <= Len(memLog)
      /\ \A i, j \in DOMAIN memMarks : i <= j => memMarks[i] <= memMarks[j]
  BY DEF EnterBlock, MemInv, Marked
<1>3. /\ memMarks' \in Seq(Nat) /\ DOMAIN memMarks' = 1 .. Len(memMarks) + 1 /\ DOMAIN memMarks = 1 .. Len(memMarks)
      /\ memMarks'[Len(memMarks) + 1] = Len(memLog)
      /\ \A i \in 1 .. Len(memMarks) : memMarks'[i] = memMarks[i]
  BY <1>2
<1>4. Len(memMarks) \in Nat
  BY <1>2
<1>5. \A i \in DOMAIN memMarks' : memMarks'[i] <= Len(memLog)
  BY <1>2, <1>3, <1>4
<1>6. ASSUME NEW i \in DOMAIN memMarks', NEW j \in DOMAIN memMarks', i <= j PROVE memMarks'[i] <= memMarks'[j]
  <2>1. CASE j = Len(memMarks) + 1
    BY <1>3, <1>5, <2>1
  <2>2. CASE j # Len(memMarks) + 1
    <3>1. i \in DOMAIN memMarks /\ j \in DOMAIN memMarks
      BY <1>3, <1>4, <1>6, <2>2
    <3> QED
      BY <1>2, <1>3, <1>6, <3>1
  <2> QED
    BY <2>1, <2>2
<1>7. memLog' \in Seq(MemNames)
  BY <1>2 DEF MemInv, Marked
<1> QED
  BY <1>1, <1>2, <1>3, <1>5, <1>6, <1>7 DEF MemInv, Marked

LEMMA ResetStep ==
  ASSUME MemInv, ResetStats
  PROVE  MemInv'
<1> DEFINE n == [mem EXCEPT !.allocs = 0, !.frees = 0, !.views = LiveCount(mem)]
<1>1. Sound(n, Tally(memEnv, "own"), Tally(memEnv, "shared")) /\ n.next = mem.next
  BY StatsReset DEF MemInv, Well
<1>2. Becomes(n)
  BY DEF ResetStats
<1> HIDE DEF n
<1> QED
  BY <1>1, <1>2, Became

\* Empty tables and variables.
LEMMA Empty ==
  ASSUME NEW r, NEW n \in 1 .. MemMaxId + 1, NEW a \in Nat, NEW f \in Nat, NEW v \in Int, f = a + v,
         r = [raw |-> <<>>, vecs |-> <<>>, own |-> {}, shared |-> <<>>, weak |-> <<>>, buf |-> <<>>,
              next |-> n, allocs |-> a, frees |-> f, views |-> v]
  PROVE  Well(r, [x \in MemNames |-> Unbound])
<1> DEFINE e == [x \in MemNames |-> Unbound]
<1>1. /\ r.raw = <<>> /\ r.vecs = <<>> /\ r.own = {} /\ r.shared = <<>> /\ r.weak = <<>> /\ r.buf = <<>>
      /\ r.next = n /\ r.allocs = a /\ r.frees = f /\ r.views = v /\ Shaped(r)
  BY DEF Shaped
<1>2. DOMAIN << >> = {} /\ << >> = [i \in DOMAIN << >> |-> << >>[i]] /\ \A S : << >> \in [DOMAIN << >> -> S]
  OBVIOUS
<1>3. Typed(r)
  BY <1>1, <1>2 DEF Typed, Numbered, Tables
<1>4. LiveCount(r) = 0
  <2>1. Lives(r) = {} /\ DOMAIN r.raw = {} /\ r.own = {} /\ DOMAIN r.buf = {}
    BY <1>1, <1>2 DEF Lives
  <2>2. Cardinality({}) = 0
    BY FS_EmptySet
  <2>3. LiveCount(r) = Cardinality({}) + Cardinality({}) + Cardinality({}) + Cardinality({})
    BY <1>3, <2>1, LiveTables
  <2> QED
    BY <2>2, <2>3
<1>5. e \in Envs /\ \A x \in MemNames : e[x].id = 0 /\ e[x].k = "unbound"
  BY DEF Envs, Values, Kinds, Unbound
<1>6. ASSUME NEW k, k # "unbound" PROVE Tally(e, k) = [id \in Nat |-> 0]
  <2>1. \A id \in Nat : Holding(e, Handle(k, id)) = {}
    BY <1>5, <1>6 DEF Holding, Handle
  <2> HIDE DEF e
  <2>2. Cardinality({}) = 0
    BY FS_EmptySet
  <2> QED
    BY <2>1, <2>2 DEF Tally
<1>7. Tally(e, "own") = [id \in Nat |-> 0] /\ Tally(e, "shared") = [id \in Nat |-> 0]
  BY <1>6
<1>8. Sound(r, [id \in Nat |-> 0], [id \in Nat |-> 0])
  <2>1. Tallied(r, [id \in Nat |-> 0], [id \in Nat |-> 0])
    BY <1>1, <1>2 DEF Tallied
  <2>2. LiveCount(r) + r.frees = r.allocs + r.views
    BY <1>1, <1>4
  <2> QED
    BY <1>3, <2>1, <2>2 DEF Sound, Tallies
<1> HIDE DEF e
<1>9. \A x \in MemNames : e[x].id < r.next
  BY <1>1, <1>5
<1>10. Well(r, e)
  BY <1>5, <1>7, <1>8, <1>9 DEF Well
<1> QED
  BY <1>10 DEF e

LEMMA FirstMark ==
  /\ << >> \in Seq(MemNames) /\ <<0>> \in Seq(Nat) /\ Len(<< >>) = 0
  /\ \A i \in DOMAIN <<0>> : i = 1 /\ <<0>>[i] = 0
OBVIOUS

LEMMA InitStep ==
  ASSUME MemInit
  PROVE  MemInv
<1>1. Well(EmptyMem, [x \in MemNames |-> Unbound])
  BY MemAssumption, Empty DEF EmptyMem
<1>2. Marked
  BY FirstMark DEF MemInit, Marked
<1> QED
  BY <1>1, <1>2 DEF MemInit, MemInv

LEMMA RunStep ==
  ASSUME MemInv, NextRun
  PROVE  MemInv'
<1> DEFINE v == mem.frees - mem.allocs
           r == [raw |-> <<>>, vecs |-> <<>>, own |-> {}, shared |-> <<>>, weak |-> <<>>, buf |-> <<>>,
                 next |-> mem.next, allocs |-> mem.allocs, frees |-> mem.frees, views |-> v]
<1>1. /\ mem.next \in 1 .. MemMaxId + 1 /\ mem.allocs \in Nat /\ mem.frees \in Nat /\ v \in Int
      /\ mem.frees = mem.allocs + v
  BY DEF MemInv, Well, Sound, Typed, Numbered
<1> HIDE DEF v
<1>2. [EmptyMem EXCEPT !.next = mem.next, !.allocs = mem.allocs, !.frees = mem.frees, !.views = v] = r
  <2> DEFINE none == << >>
             e == [raw |-> none, vecs |-> none, own |-> {}, shared |-> none, weak |-> none, buf |-> none,
                   next |-> 1, allocs |-> 0, frees |-> 0, views |-> 0]
             a == [e EXCEPT !.next = mem.next]
             b == [a EXCEPT !.allocs = mem.allocs]
             c == [b EXCEPT !.frees = mem.frees]
  <2>1. EmptyMem = e /\ r = [raw |-> none, vecs |-> none, own |-> {}, shared |-> none, weak |-> none, buf |-> none,
                             next |-> mem.next, allocs |-> mem.allocs, frees |-> mem.frees, views |-> v]
    BY DEF EmptyMem
  <2> HIDE DEF none
  <2>2. a = [raw |-> none, vecs |-> none, own |-> {}, shared |-> none, weak |-> none, buf |-> none,
             next |-> mem.next, allocs |-> 0, frees |-> 0, views |-> 0]
    OBVIOUS
  <2>3. [e EXCEPT !.next = mem.next, !.allocs = mem.allocs, !.frees = mem.frees, !.views = v]
          = [c EXCEPT !.views = v]
    OBVIOUS
  <2> HIDE DEF e, r, a
  <2>4. b = [raw |-> none, vecs |-> none, own |-> {}, shared |-> none, weak |-> none, buf |-> none,
             next |-> mem.next, allocs |-> mem.allocs, frees |-> 0, views |-> 0]
    BY <2>2
  <2> HIDE DEF b
  <2>5. c = [raw |-> none, vecs |-> none, own |-> {}, shared |-> none, weak |-> none, buf |-> none,
             next |-> mem.next, allocs |-> mem.allocs, frees |-> mem.frees, views |-> 0]
    BY <2>4
  <2> HIDE DEF c
  <2>6. [c EXCEPT !.views = v] =
          [raw |-> none, vecs |-> none, own |-> {}, shared |-> none, weak |-> none, buf |-> none,
           next |-> mem.next, allocs |-> mem.allocs, frees |-> mem.frees, views |-> v]
    BY <2>5
  <2> QED
    BY <2>1, <2>3, <2>6
<1>3. mem' = r /\ memEnv' = [x \in MemNames |-> Unbound]
  BY <1>2 DEF NextRun, v
<1>4. Well(mem', memEnv')
  <2> HIDE DEF r
  <2>1. Well(r, [x \in MemNames |-> Unbound])
    BY <1>1, Empty DEF r
  <2> QED
    BY <1>3, <2>1
<1>5. memLog' = << >> /\ memMarks' = <<0>>
  BY DEF NextRun
<1>6. Marked'
  BY <1>5, FirstMark DEF Marked
<1> QED
  BY <1>4, <1>6 DEF MemInv

-----------------------------------------------------------------------------
(***************************************************************************)
(* The end of a block is a loop over the log.  Its function exists, and    *)
(* each turn keeps the tables in agreement with the variables.             *)
(***************************************************************************)
Turn(before, x) ==
  IF IsOwner(before.env[x])
  THEN [before EXCEPT !.m = Release(@, before.env[x]), !.env[x] = Unbound]
  ELSE [before EXCEPT !.log = Append(@, x)]
Start == [m |-> mem, env |-> memEnv, log |-> SubSeq(memLog, 1, Last(memMarks))]
Turns(f, n) ==
  f = [i \in Last(memMarks) .. n |-> IF i = Last(memMarks) THEN Start ELSE Turn(f[i - 1], memLog[i])]
Agrees(u) ==
  /\ u = [m |-> u.m, env |-> u.env, log |-> u.log] /\ Well(u.m, u.env)
  /\ u.log \in Seq(MemNames) /\ Last(memMarks) <= Len(u.log)

LEMMA LeastNat ==
  ASSUME NEW S \in SUBSET Nat, S # {}
  PROVE  \E x \in S : \A y \in S : x <= y
<1>1. IsWellFoundedOn(OpToRel(<, Nat), Nat)
  BY NatLessThanWellFounded
<1>2. PICK x \in S : \A y \in S : ~ (<<y, x>> \in OpToRel(<, Nat))
  BY <1>1, WFMin
<1>3. \A y \in S : ~ (y < x)
  BY <1>2 DEF OpToRel
<1> QED
  BY <1>3

LEMMA MarkInLog ==
  ASSUME MemInv, memMarks # << >>
  PROVE  /\ Last(memMarks) \in Nat /\ Len(memLog) \in Nat /\ Last(memMarks) <= Len(memLog)
         /\ \A i \in DOMAIN memMarks : memMarks[i] <= Last(memMarks)
<1>1. memMarks \in Seq(Nat) /\ Len(memMarks) \in DOMAIN memMarks /\ Len(memLog) \in Nat
  BY DEF MemInv, Marked
<1> QED
  BY <1>1 DEF MemInv, Marked, Last

LEMMA UnwindingTurns ==
  ASSUME MemInv, memMarks # << >>
  PROVE  Turns(Unwinding, Len(memLog))
<1> DEFINE lo == Last(memMarks)
           hi == Len(memLog)
           Bad == {n \in lo .. hi : ~ \E f : Turns(f, n)}
<1>1. lo \in Nat /\ hi \in Nat /\ lo <= hi
  BY MarkInLog
<1>2. Bad = {}
  <2> SUFFICES ASSUME Bad # {} PROVE FALSE
    OBVIOUS
  <2>0. Bad \in SUBSET Nat
    BY <1>1
  <2>1. PICK n \in Bad : \A k \in Bad : n <= k
    <3> HIDE DEF Bad
    <3> QED
      BY <2>0, LeastNat
  <2>2. n \in lo .. hi /\ ~ \E f : Turns(f, n)
    BY <2>1
  <2>3. CASE n = lo
    <3> DEFINE f == [i \in lo .. lo |-> Start]
    <3>1. lo .. lo = {lo}
      BY <1>1
    <3> HIDE DEF lo
    <3>2. f = [i \in lo .. lo |-> IF i = lo THEN Start ELSE Turn(f[i - 1], memLog[i])]
      BY <3>1
    <3> HIDE DEF f
    <3>3. Turns(f, lo)
      BY <3>2 DEF Turns, lo
    <3> QED
      BY <2>2, <2>3, <3>3
  <2>4. CASE n # lo
    <3>1. n - 1 \in lo .. hi /\ ~ (n <= n - 1) /\ n \in Nat
      BY <1>1, <2>2, <2>4
    <3>2. n - 1 \notin Bad
      BY <2>1, <3>1
    <3>3. PICK f : Turns(f, n - 1)
      BY <3>1, <3>2
    <3> DEFINE g == [i \in lo .. n |-> IF i = n THEN Turn(f[n - 1], memLog[n]) ELSE f[i]]
    <3>4. f = [i \in lo .. n - 1 |-> IF i = lo THEN Start ELSE Turn(f[i - 1], memLog[i])]
      BY <3>3 DEF Turns
    <3> HIDE DEF lo, hi, Bad
    <3>5. ASSUME NEW i \in lo .. n PROVE g[i] = IF i = lo THEN Start ELSE Turn(g[i - 1], memLog[i])
      <4>1. CASE i = n
        <5>1. n - 1 \in lo .. n /\ n - 1 # n
          BY <1>1, <3>1
        <5>2. g[n - 1] = f[n - 1]
          BY <5>1
        <5>3. g[n] = Turn(f[n - 1], memLog[n])
          BY <3>5, <4>1
        <5> HIDE DEF g
        <5> QED
          BY <2>4, <4>1, <5>2, <5>3
      <4>2. CASE i # n
        <5>1. i \in lo .. n - 1
          BY <1>1, <3>1, <3>5, <4>2
        <5>2. g[i] = f[i] /\ f[i] = IF i = lo THEN Start ELSE Turn(f[i - 1], memLog[i])
          BY <3>4, <3>5, <4>2, <5>1
        <5>3. i # lo => i - 1 \in lo .. n /\ i - 1 # n
          BY <1>1, <3>1, <5>1
        <5>4. i # lo => g[i - 1] = f[i - 1]
          BY <5>3
        <5> HIDE DEF g
        <5> QED
          BY <5>2, <5>4
      <4> QED
        BY <4>1, <4>2
    <3>6. DOMAIN g = lo .. n /\ g = [i \in lo .. n |-> g[i]]
      OBVIOUS
    <3> HIDE DEF g
    <3>7. g = [i \in lo .. n |-> IF i = lo THEN Start ELSE Turn(g[i - 1], memLog[i])]
      BY <3>5, <3>6
    <3>8. Turns(g, n)
      BY <3>7 DEF Turns, lo
    <3> QED
      BY <2>2, <3>8
  <2> QED
    BY <2>3, <2>4
<1>3. \E f : Turns(f, hi)
  BY <1>1, <1>2
<1>4. Unwinding = CHOOSE f : Turns(f, hi)
  BY DEF Unwinding, Turns, Turn, Start
<1> QED
  BY <1>3, <1>4

LEMMA TurnAgrees ==
  ASSUME NEW u, Agrees(u), NEW x \in MemNames, memMarks # << >>, Last(memMarks) \in Nat
  PROVE  Agrees(Turn(u, x))
<1> DEFINE r == Turn(u, x)
<1>1. u = [m |-> u.m, env |-> u.env, log |-> u.log] /\ u.env \in Envs
  BY DEF Agrees, Well
<1>2. CASE IsOwner(u.env[x])
  <2> DEFINE m == Release(u.m, u.env[x])
             e == [u.env EXCEPT ![x] = Unbound]
  <2>1. r = [m |-> m, env |-> e, log |-> u.log]
    <3>1. r = [u EXCEPT !.m = Release(@, u.env[x]), !.env[x] = Unbound]
      BY <1>2 DEF Turn
    <3> DEFINE a == [u EXCEPT !.m = m]
    <3>2. r = [a EXCEPT !.env[x] = Unbound]
      BY <3>1
    <3> HIDE DEF m
    <3>3. a = [m |-> m, env |-> u.env, log |-> u.log]
      BY <1>1
    <3> HIDE DEF a, r
    <3> QED
      BY <3>2, <3>3
  <2>2. Well(m, e)
    <3>1. Unbound \in Values /\ Unbound.id < u.m.next /\ Unbound.k = "unbound"
      BY DEF Unbound, Values, Kinds, Agrees, Well, Sound, Typed, Numbered
    <3>2. Sound(u.m, Plus(Tally(u.env, "own"), Unbound, "own"), Plus(Tally(u.env, "shared"), Unbound, "shared"))
      BY <3>1 DEF Plus, Agrees, Well
    <3>3. Well(IF IsOwner(u.env[x]) THEN Release(u.m, u.env[x]) ELSE u.m, [u.env EXCEPT ![x] = Unbound])
      BY <1>1, <3>1, <3>2, Binds DEF Agrees, Well
    <3> QED
      BY <1>2, <3>3
  <2> HIDE DEF m, e, r
  <2>3. r.m = m /\ r.env = e /\ r.log = u.log
    BY <2>1
  <2>4. r = [m |-> r.m, env |-> r.env, log |-> r.log]
    BY <2>1, <2>3
  <2>5. Agrees(r)
    BY <2>2, <2>3, <2>4 DEF Agrees
  <2> QED
    BY <2>5 DEF r
<1>3. CASE ~IsOwner(u.env[x])
  <2>1. r = [m |-> u.m, env |-> u.env, log |-> Append(u.log, x)]
    BY <1>1, <1>3 DEF Turn
  <2> HIDE DEF r
  <2>2. r.m = u.m /\ r.env = u.env /\ r.log = Append(u.log, x)
    BY <2>1
  <2>3. Append(u.log, x) \in Seq(MemNames) /\ Last(memMarks) <= Len(Append(u.log, x))
    BY DEF Agrees
  <2>4. Agrees(r)
    BY <2>1, <2>2, <2>3 DEF Agrees
  <2> QED
    BY <2>4 DEF r
<1> QED
  BY <1>2, <1>3

LEMMA ExitStep ==
  ASSUME MemInv, ExitBlock
  PROVE  MemInv'
<1> DEFINE lo == Last(memMarks)
           hi == Len(memLog)
           Bad == {n \in lo .. hi : ~ Agrees(Unwinding[n])}
<1>1. lo \in Nat /\ hi \in Nat /\ lo <= hi /\ memMarks # << >> /\ \A i \in DOMAIN memMarks : memMarks[i] <= lo
  BY MarkInLog DEF ExitBlock
<1>2. Unwinding = [i \in lo .. hi |-> IF i = lo THEN Start ELSE Turn(Unwinding[i - 1], memLog[i])]
  BY <1>1, UnwindingTurns DEF Turns
<1>3. Bad = {}
  <2> SUFFICES ASSUME Bad # {} PROVE FALSE
    OBVIOUS
  <2>0. Bad \in SUBSET Nat
    BY <1>1
  <2>1. PICK n \in Bad : \A k \in Bad : n <= k
    <3> HIDE DEF Bad
    <3> QED
      BY <2>0, LeastNat
  <2>2. n \in lo .. hi /\ ~ Agrees(Unwinding[n])
    BY <2>1
  <2>3. CASE n = lo
    <3>1. Unwinding[lo] = Start
      BY <1>1, <1>2, <2>2, <2>3
    <3>2. /\ Start.m = mem /\ Start.env = memEnv /\ Start.log = SubSeq(memLog, 1, lo)
          /\ Start = [m |-> mem, env |-> memEnv, log |-> SubSeq(memLog, 1, lo)]
      BY DEF Start
    <3>3. SubSeq(memLog, 1, lo) \in Seq(MemNames) /\ Len(SubSeq(memLog, 1, lo)) = lo
      <4>1. memLog \in Seq(MemNames)
        BY DEF MemInv, Marked
      <4> HIDE DEF lo
      <4> QED
        BY <1>1, <4>1
    <3>4. Agrees(Start)
      BY <1>1, <3>2, <3>3 DEF Agrees, MemInv
    <3> QED
      BY <2>2, <2>3, <3>1, <3>4
  <2>4. CASE n # lo
    <3>1. n - 1 \in lo .. hi /\ ~ (n <= n - 1) /\ n \in 1 .. hi
      BY <1>1, <2>2, <2>4
    <3>2. Agrees(Unwinding[n - 1])
      BY <2>1, <3>1
    <3>3. memLog[n] \in MemNames
      BY <3>1 DEF MemInv, Marked
    <3>4. Unwinding[n] = Turn(Unwinding[n - 1], memLog[n])
      BY <1>2, <2>2, <2>4
    <3> QED
      BY <1>1, <2>2, <3>2, <3>3, <3>4, TurnAgrees
  <2> QED
    BY <2>3, <2>4
<1>4. Agrees(Unwinding[hi])
  BY <1>1, <1>3
<1>5. mem' = Unwinding[hi].m /\ memEnv' = Unwinding[hi].env /\ memLog' = Unwinding[hi].log /\ memMarks' = Front(memMarks)
  BY DEF ExitBlock
<1>6. Well(mem', memEnv') /\ memLog' \in Seq(MemNames) /\ lo <= Len(memLog') /\ Len(memLog') \in Nat
  <2>1. Well(Unwinding[hi].m, Unwinding[hi].env) /\ Unwinding[hi].log \in Seq(MemNames) /\ lo <= Len(Unwinding[hi].log)
    BY <1>4 DEF Agrees
  <2> QED
    BY <1>5, <2>1
<1>7. memMarks' \in Seq(Nat) /\ \A i \in DOMAIN memMarks' : i \in DOMAIN memMarks /\ memMarks'[i] = memMarks[i]
  <2>1. memMarks \in Seq(Nat) /\ Len(memMarks) - 1 \in Nat
    BY <1>1 DEF MemInv, Marked
  <2>2. memMarks' = SubSeq(memMarks, 1, Len(memMarks) - 1)
    BY <1>5 DEF Front
  <2> QED
    BY <2>1, <2>2
<1>8. \A i \in DOMAIN memMarks' : memMarks'[i] <= Len(memLog')
  <2>1. \A i \in DOMAIN memMarks : memMarks[i] \in Nat
    BY DEF MemInv, Marked
  <2> HIDE DEF lo
  <2> QED
    BY <1>1, <1>6, <1>7, <2>1
<1>9. \A i, j \in DOMAIN memMarks' : i <= j => memMarks'[i] <= memMarks'[j]
  BY <1>7 DEF MemInv, Marked
<1> QED
  BY <1>6, <1>7, <1>8, <1>9 DEF MemInv, Marked

-----------------------------------------------------------------------------
LEMMA Inductive ==
  ASSUME MemInv, [MemNext]_memVars
  PROVE  MemInv'
<1>1. CASE EnterBlock \/ ExitBlock \/ NextRun \/ ResetStats
  BY <1>1, EnterStep, ExitStep, RunStep, ResetStep
<1>2. ASSUME NEW x \in MemNames, NewHeap(x) \/ NewShared(x) PROVE MemInv'
  BY <1>2, HeapStep, SharedStep
<1>3. ASSUME NEW x \in MemNames, Free(x) \/ SetCell(x) PROVE MemInv'
  BY <1>3, CellsStep
<1>4. ASSUME NEW x \in MemNames, NEW n \in 0 .. MemMaxLen,
             Alloc(x, n) \/ NewBuffer(x, n) \/ Realloc(x, n) \/ BufferMethod(x, n)
      PROVE  MemInv'
  <2>1. n \in Nat
    BY MemAssumption
  <2> QED
    BY <1>4, <2>1, AllocStep, BufferStep, CellsStep
<1>5. ASSUME NEW x \in MemNames, NEW n, NEW v, FillCells(x, n, v) PROVE MemInv'
  BY <1>5, CellsStep
<1>6. ASSUME NEW x \in MemNames, NEW y \in MemNames,
             NewWeak(x, y) \/ CopyIdent(x, y) \/ BufferPtr(x, y) \/ PtrAdd(x, y, 1) \/ Transfer(x, y, MemMaxLen)
      PROVE  MemInv'
  <2>1. CASE Transfer(x, y, MemMaxLen)
    BY <2>1, CellsStep
  <2> QED
    BY <1>6, <2>1, WeakStep, CopyStep, ViewStep, AddStep
<1>7. CASE UNCHANGED memVars
  BY <1>7 DEF memVars, MemInv, Marked
<1> QED
  BY <1>1, <1>2, <1>3, <1>4, <1>5, <1>6, <1>7 DEF MemNext

LEMMA Always == MemSpec => []MemInv
BY InitStep, Inductive, PTL DEF MemSpec

\* Handles stay within their numbers, a pointer has cells, and a mark lies in
\* the log, for any variables, handles, cells and depth of blocks.
THEOREM TypeCorrect == MemSpec => []MemTypeOK
<1>1. ASSUME MemInv PROVE MemTypeOK
  <2>1. Typed(mem) /\ Below(mem) \subseteq 1 .. MemMaxId
    BY <1>1, MemAssumption DEF MemInv, Well, Sound, Typed, Numbered, Below
  <2>2. DOMAIN mem.shared \cup DOMAIN mem.raw \cup mem.own \subseteq 1 .. MemMaxId
    BY <2>1, LiveTables
  <2>3. \A p \in DOMAIN mem.raw : mem.raw[p].vec \in DOMAIN mem.vecs
    BY <2>1 DEF Typed, Tables
  <2>4. \A i \in DOMAIN memMarks : memMarks[i] \in 0 .. Len(memLog)
    BY <1>1 DEF MemInv, Marked
  <2> QED
    BY <2>2, <2>3, <2>4 DEF MemTypeOK
<1> QED
  BY <1>1, Always, PTL

\* A heap<T> that lives is held by exactly one variable, a shared<T> counts the
\* variables that hold it and its weak handles and lives as long as one is left,
\* and no variable holds an owner that is gone: after any sequence of
\* constructions, moves, shares, rebindings, frees, block ends and runs.
THEOREM OwnersCount == MemSpec => []OwnersCounted
<1>1. ASSUME MemInv PROVE OwnersCounted
  <2> DEFINE o == Tally(memEnv, "own")
             s == Tally(memEnv, "shared")
  <2>1. Sound(mem, o, s) /\ memEnv \in Envs
    BY <1>1 DEF MemInv, Well
  <2>2. \A id \in Nat : o[id] = Cardinality(Holders(Handle("own", id))) /\ s[id] = Cardinality(Holders(Handle("shared", id)))
    BY DEF Tally, Holding, Holders
  <2>3. mem.own \subseteq Nat /\ DOMAIN mem.shared \subseteq Nat
    BY <2>1 DEF Sound, Typed, Tables, Numbered, Below
  <2>4. ASSUME NEW x \in MemNames
        PROVE  /\ memEnv[x].k = "own" => memEnv[x].id \in mem.own
               /\ memEnv[x].k = "shared" => memEnv[x].id \in DOMAIN mem.shared
    <3>1. memEnv[x].id \in Nat
      BY <2>1 DEF Envs, Values
    <3>2. (memEnv[x].k = "own" => o[memEnv[x].id] > 0) /\ (memEnv[x].k = "shared" => s[memEnv[x].id] > 0)
      BY <2>1, TallyTyped
    <3> HIDE DEF o, s
    <3> QED
      BY <2>1, <3>1, <3>2 DEF Sound, Tallied
  <2> HIDE DEF o, s
  <2>5. \A id \in mem.own : Cardinality(Holders(Handle("own", id))) = 1
    BY <2>1, <2>2, <2>3 DEF Sound, Tallied
  <2>6. \A id \in DOMAIN mem.shared :
          /\ mem.shared[id].strong = Cardinality(Holders(Handle("shared", id)))
          /\ mem.shared[id].weak = Cardinality({w \in DOMAIN mem.weak : mem.weak[w] = id})
          /\ mem.shared[id].strong + mem.shared[id].weak > 0
    BY <2>1, <2>2, <2>3 DEF Sound, Tallied, Onto
  <2> QED
    BY <2>4, <2>5, <2>6 DEF OwnersCounted
<1> QED
  BY <1>1, Always, PTL

\* What mem_stats reports adds up: what lives was allocated or is a view, and
\* what was freed was freed once, also after a reset of the counters.
THEOREM StatsAddUp == MemSpec => []StatsConserved
<1>1. ASSUME MemInv PROVE StatsConserved
  BY <1>1 DEF MemInv, Well, Sound, StatsConserved
<1> QED
  BY <1>1, Always, PTL
=============================================================================
