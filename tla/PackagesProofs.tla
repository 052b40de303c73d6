--------------------------- MODULE PackagesProofs ---------------------------
(***************************************************************************)
(* Theorems about Packages for any names, versions, requirements and edits *)
(* of the registry: the queue of the resolver is what its entries require, *)
(* asked in order; what a fetch has behind it stays as it was hashed.      *)
(***************************************************************************)
EXTENDS Packages, FiniteSetTheorems, NaturalsInduction, WellFoundedInduction, TLAPS

Id(e) == <<e.name, e.version>>
Hashed(e) == e.hash # 0 /\ pkgRegistry[Id(e)].tag = e.hash
Cached(e) == pkgCache[Id(e)].dir /\ pkgCache[Id(e)].files = [f \in Files |-> e.hash]
Answered(es, q, n) ==
  /\ \A k \in 1..n : Named(es, q[k].name)
  /\ OncePerName(es)
  /\ \A i \in DOMAIN es : \E k \in 1..n : FirstOf(q, k, es[i].name) /\ Meets(es[i], q[k])

Resolving ==
  pkgCli.at = "resolve" =>
    /\ pkgCli.queue = Required(pkgCli.entries) /\ pkgCli.next <= Len(pkgCli.queue) + 1
    /\ Answered(pkgCli.entries, pkgCli.queue, pkgCli.next - 1)
Faithful == pkgEver.quiet /\ pkgCli.at # "idle" => \A i \in DOMAIN pkgCli.entries : Hashed(pkgCli.entries[i])
Writing ==
  /\ pkgCli.at \in {"write", "dest", "copy"} => ~pkgEver.fetched /\ OncePerName(pkgCli.entries)
  /\ pkgCli.at = "write" =>
       pkgCli.next <= Len(pkgCli.entries) + 1 /\ pkgLock = SubSeq(pkgCli.entries, 1, pkgCli.next - 1)
  /\ pkgCli.at \in {"dest", "copy"} => pkgLock = pkgCli.entries
Mending ==
  /\ pkgCli.at = "copy" => pkgCli.next <= Len(pkgCli.entries)
  /\ pkgEver.quiet =>
       /\ pkgCli.at \in {"dest", "copy"} =>
            \A i \in DOMAIN pkgCli.entries : i < pkgCli.next => Cached(pkgCli.entries[i])
       /\ pkgCli.at = "copy" =>
            /\ pkgCache[Source].dir
            /\ \A f \in Files \ pkgCli.left : pkgCache[Source].files[f] = Fetching.hash
LastFetch ==
  pkgEver.fetched => OncePerName(pkgLock) /\ \A i \in DOMAIN pkgLock : pkgLock[i].hash # 0 /\ Cached(pkgLock[i])
PkgInv == PkgTypeOK /\ Resolving /\ LockCloses /\ Faithful /\ Writing /\ Mending /\ LastFetch

-----------------------------------------------------------------------------
LEMMA LeastNat ==
  ASSUME NEW S \in SUBSET Nat, S # {}
  PROVE  \E x \in S : \A y \in S : x <= y
<1>1. IsWellFoundedOn(OpToRel(<, Nat), Nat)
  BY NatLessThanWellFounded
<1>2. PICK x \in S : \A y \in S : ~ (<<y, x>> \in OpToRel(<, Nat))
  BY <1>1, WFMin
<1>3. \A y \in S : ~ (y < x)
  BY <1>2 DEF OpToRel
<1> QED
  BY <1>3

(* Of finitely many versions one is the newest: the one that the fewest are newer
   than. *)
LEMMA NewestExists ==
  ASSUME NEW S \in SUBSET PkgVersions, S # {}
  PROVE  \E v \in S : \A w \in S : ~Newer(w, v)
<1> DEFINE After(v) == {w \in S : Newer(w, v)}
           Counts == {Cardinality(After(v)) : v \in S}
<1>1. IsFiniteSet(S) /\ \A v \in S : v \in Int \X Int \X Int
  BY FS_Subset, PkgAssumption
<1>2. \A v \in S : IsFiniteSet(After(v)) /\ Cardinality(After(v)) \in Nat
  <2> TAKE v \in S
  <2>1. After(v) \subseteq S
    OBVIOUS
  <2>2. IsFiniteSet(After(v))
    BY <1>1, <2>1, FS_Subset
  <2> QED
    BY <2>2, FS_CardinalityType
<1>3. Counts \in SUBSET Nat /\ Counts # {}
  BY <1>2
<1>4. PICK n \in Counts : \A m \in Counts : n <= m
  <2> HIDE DEF Counts
  <2> QED
    BY <1>3, LeastNat
<1>5. PICK v \in S : n = Cardinality(After(v))
  BY <1>4
<1>6. ASSUME NEW w \in S, Newer(w, v) PROVE FALSE
  <2>1. w \in After(v) /\ w \notin After(w) /\ After(w) \subseteq After(v)
    <3>1. v \in Int \X Int \X Int /\ w \in Int \X Int \X Int
      BY <1>1, <1>5
    <3>2. ~Newer(w, w)
      BY <3>1 DEF Newer
    <3>3. \A x \in S : Newer(x, w) => Newer(x, v)
      BY <1>1, <1>6, <3>1 DEF Newer
    <3> QED
      BY <1>6, <3>2, <3>3
  <2>2. Cardinality(After(w)) <= Cardinality(After(v)) /\ Cardinality(After(w)) # Cardinality(After(v))
    <3> HIDE DEF After
    <3> QED
      BY <1>2, <1>5, <2>1, FS_Subset
  <2>3. Cardinality(After(v)) <= Cardinality(After(w))
    BY <1>4, <1>5
  <2> QED
    BY <1>2, <1>5, <2>2, <2>3
<1> QED
  BY <1>5, <1>6

LEMMA FoundIsNewest ==
  ASSUME NEW name, NEW want, Matching(name, want) # {}
  PROVE  /\ FindNewest(name, want) \in Matching(name, want)
         /\ \A w \in Matching(name, want) : ~Newer(w, FindNewest(name, want))
<1>1. Matching(name, want) \in SUBSET PkgVersions
  BY DEF Matching
<1> QED
  BY <1>1, NewestExists DEF FindNewest

-----------------------------------------------------------------------------
(* What is asked for: RequiredBy is the function its definition describes, and
   one more entry adds what that entry depends on. *)

Asks(f, root, es, n) == f = [k \in 0..n |-> IF k = 0 THEN root ELSE f[k - 1] \o es[k].depends]

LEMMA AsksExists ==
  ASSUME NEW root, NEW es, NEW N \in Nat
  PROVE  \E f : Asks(f, root, es, N)
<1> DEFINE Bad == {n \in 0..N : ~ \E f : Asks(f, root, es, n)}
<1> SUFFICES ASSUME Bad # {} PROVE FALSE
  OBVIOUS
<1>0. Bad \in SUBSET Nat
  OBVIOUS
<1>1. PICK n \in Bad : \A k \in Bad : n <= k
  <2> HIDE DEF Bad
  <2> QED
    BY <1>0, LeastNat
<1>2. CASE n = 0
  <2> DEFINE f == [k \in 0..0 |-> root]
  <2>1. Asks(f, root, es, 0)
    BY DEF Asks
  <2> QED
    BY <1>1, <1>2, <2>1
<1>3. CASE n # 0
  <2>1. n \in Nat /\ n - 1 \in 0..N /\ n - 1 \notin Bad
    BY <1>1, <1>3
  <2>2. PICK f : Asks(f, root, es, n - 1)
    BY <2>1
  <2> DEFINE g == [k \in 0..n |-> IF k = n THEN f[n - 1] \o es[n].depends ELSE f[k]]
  <2>3. \A k \in 0..n : g[k] = IF k = 0 THEN root ELSE g[k - 1] \o es[k].depends
    <3> TAKE k \in 0..n
    <3>1. CASE k = n
      <4>1. g[n] = f[n - 1] \o es[n].depends /\ g[n - 1] = f[n - 1]
        BY <2>1, <1>3
      <4> QED
        BY <4>1, <3>1, <1>3
    <3>2. CASE k # n
      <4>1. k \in 0..n - 1 /\ g[k] = f[k] /\ (k # 0 => g[k - 1] = f[k - 1])
        BY <2>1, <3>2
      <4>2. f[k] = IF k = 0 THEN root ELSE f[k - 1] \o es[k].depends
        BY <2>2, <4>1 DEF Asks
      <4> QED
        BY <4>1, <4>2
    <3> QED
      BY <3>1, <3>2
  <2>4. Asks(g, root, es, n)
    <3>1. g = [k \in 0..n |-> g[k]]
      OBVIOUS
    <3> HIDE DEF g
    <3> QED
      BY <2>3, <3>1 DEF Asks
  <2> QED
    BY <1>1, <2>4
<1> QED
  BY <1>2, <1>3

LEMMA RequiredAsks ==
  ASSUME NEW root, NEW es \in Seq(Entries)
  PROVE  Asks(RequiredBy(root, es), root, es, Len(es))
<1>1. Len(es) \in Nat
  OBVIOUS
<1>2. \E f : Asks(f, root, es, Len(es))
  BY <1>1, AsksExists
<1> QED
  BY <1>2 DEF Asks, RequiredBy

LEMMA RequiredTyped ==
  ASSUME NEW root \in Seq(Requirements), NEW es \in Seq(Entries), NEW n \in 0..Len(es)
  PROVE  RequiredBy(root, es)[n] \in Seq(Requirements)
<1> DEFINE f == RequiredBy(root, es)
           Bad == {k \in 0..Len(es) : f[k] \notin Seq(Requirements)}
<1>0. Bad \in SUBSET Nat /\ Asks(f, root, es, Len(es))
  BY RequiredAsks
<1> SUFFICES ASSUME Bad # {} PROVE FALSE
  OBVIOUS
<1>1. PICK k \in Bad : \A j \in Bad : k <= j
  <2> HIDE DEF Bad
  <2> QED
    BY <1>0, LeastNat
<1>2. f[k] = IF k = 0 THEN root ELSE f[k - 1] \o es[k].depends
  BY <1>0, <1>1 DEF Asks
<1>3. CASE k = 0
  BY <1>1, <1>2, <1>3
<1>4. CASE k # 0
  <2>1. k - 1 \in 0..Len(es) /\ k - 1 \notin Bad /\ k \in 1..Len(es)
    BY <1>0, <1>1, <1>4
  <2>2. f[k - 1] \in Seq(Requirements)
    BY <2>1
  <2>3. es[k] \in Entries
    BY <2>1
  <2>4. es[k].depends \in Seq(Requirements)
    BY <2>3 DEF Entries
  <2>5. f[k] \in Seq(Requirements)
    <3> HIDE DEF f
    <3> QED
      BY <1>2, <1>4, <2>2, <2>4
  <2> QED
    BY <1>1, <2>5
<1> QED
  BY <1>3, <1>4

LEMMA RequiredAgree ==
  ASSUME NEW root, NEW es \in Seq(Entries), NEW e \in Entries, NEW n \in 0..Len(es)
  PROVE  RequiredBy(root, Append(es, e))[n] = RequiredBy(root, es)[n]
<1> DEFINE f == RequiredBy(root, es)
           g == RequiredBy(root, Append(es, e))
           Bad == {k \in 0..Len(es) : g[k] # f[k]}
<1>0. Bad \in SUBSET Nat /\ Asks(f, root, es, Len(es)) /\ Len(es) \in Nat
  BY RequiredAsks
<1>a. Asks(g, root, Append(es, e), Len(es) + 1)
  <2>1. Append(es, e) \in Seq(Entries) /\ Len(Append(es, e)) = Len(es) + 1
    OBVIOUS
  <2> QED
    BY <2>1, RequiredAsks
<1> SUFFICES ASSUME Bad # {} PROVE FALSE
  OBVIOUS
<1>1. PICK k \in Bad : \A j \in Bad : k <= j
  <2> HIDE DEF Bad
  <2> QED
    BY <1>0, LeastNat
<1>2. f[k] = IF k = 0 THEN root ELSE f[k - 1] \o es[k].depends
  BY <1>0, <1>1 DEF Asks
<1>3. g[k] = IF k = 0 THEN root ELSE g[k - 1] \o Append(es, e)[k].depends
  <2>1. k \in 0..Len(es) + 1
    BY <1>0, <1>1
  <2> HIDE DEF g
  <2> QED
    BY <1>a, <2>1 DEF Asks
<1>4. CASE k = 0
  BY <1>1, <1>2, <1>3, <1>4
<1>5. CASE k # 0
  <2>1. k - 1 \in 0..Len(es) /\ k - 1 \notin Bad /\ k \in 1..Len(es)
    BY <1>0, <1>1, <1>5
  <2>2. f[k - 1] = g[k - 1] /\ Append(es, e)[k] = es[k]
    BY <2>1
  <2> QED
    BY <1>1, <1>2, <1>3, <1>5, <2>2
<1> QED
  BY <1>4, <1>5

LEMMA RequiredGrows ==
  ASSUME NEW es \in Seq(Entries), NEW e \in Entries
  PROVE  Required(Append(es, e)) = Required(es) \o e.depends
<1> DEFINE g == RequiredBy(pkgRoot, Append(es, e))
           n == Len(es) + 1
<1>0. Append(es, e) \in Seq(Entries) /\ Len(Append(es, e)) = n
  OBVIOUS
<1>1. Asks(g, pkgRoot, Append(es, e), n) /\ n \in 0..n /\ n # 0 /\ n - 1 = Len(es)
  <2>1. Asks(g, pkgRoot, Append(es, e), n)
    BY <1>0, RequiredAsks
  <2> QED
    BY <2>1
<1>2. g[n] = g[n - 1] \o Append(es, e)[n].depends
  BY <1>1 DEF Asks
<1>3. Append(es, e)[n] = e /\ Len(Append(es, e)) = n
  OBVIOUS
<1>4. g[n - 1] = RequiredBy(pkgRoot, es)[Len(es)]
  BY <1>1, RequiredAgree
<1> QED
  BY <1>2, <1>3, <1>4 DEF Required

LEMMA RequiredOfNone == Required(<<>>) = pkgRoot
<1>0. <<>> \in Seq(Entries) /\ Len(<<>>) = 0
  OBVIOUS
<1>1. Asks(RequiredBy(pkgRoot, <<>>), pkgRoot, <<>>, 0)
  BY <1>0, RequiredAsks
<1> QED
  BY <1>1 DEF Asks, Required
-----------------------------------------------------------------------------
(* The invariant: at first, and step by step. *)

LEMMA SomeDepends == \A d \in Depends(1) : d \in Seq(Requirements)
<1> TAKE d \in Depends(1)
<1>1. PICK k \in 0..1 : d \in [1..k -> Requirements]
  BY DEF Depends
<1> QED
  BY <1>1

LEMMA InvInit == PkgInit => PkgInv
<1> SUFFICES ASSUME PkgInit PROVE PkgInv
  OBVIOUS
<1>1. PICK want \in PkgWants : pkgRoot = <<[name |-> CHOOSE n \in PkgNames : TRUE, want |-> want]>>
  BY DEF PkgInit
<1>2. pkgRoot \in Seq(Requirements)
  <2>1. (CHOOSE n \in PkgNames : TRUE) \in PkgNames
    BY PkgAssumption
  <2>2. [name |-> CHOOSE n \in PkgNames : TRUE, want |-> want] \in Requirements
    BY <2>1 DEF Requirements
  <2> QED
    BY <1>1, <2>2
<1>3. pkgRegistry \in [Ids -> [tag : Nat, depends : Seq(Requirements)]]
  <2>1. PICK depends \in [PkgNames -> Depends(1)] :
          pkgRegistry = [id \in Ids |-> IF \A v \in PkgVersions : ~Newer(id[2], v)
                                       THEN [tag |-> 1, depends |-> depends[id[1]]] ELSE Absent]
    BY DEF PkgInit
  <2>2. \A id \in Ids : id[1] \in PkgNames /\ depends[id[1]] \in Seq(Requirements)
    BY SomeDepends DEF Ids
  <2>3. Absent \in [tag : Nat, depends : Seq(Requirements)]
    BY DEF Absent
  <2> QED
    BY <2>1, <2>2, <2>3
<1>4. PkgTypeOK
  BY <1>2, <1>3, PkgAssumption DEF PkgInit, PkgTypeOK, Idle, Nothing
<1> QED
  BY <1>4 DEF PkgInit, PkgInv, Resolving, LockCloses, Faithful, Writing, Mending, LastFetch, Idle

(* Records with several fields changed, in full. *)
Cli(at, queue, next, entries, left) ==
  [at |-> at, queue |-> queue, next |-> next, entries |-> entries, left |-> left]
Evers == [edits : 0..PkgEdits, runs : 0..PkgRuns, quiet : BOOLEAN, fetched : BOOLEAN]
Places == {"idle", "resolve", "write", "dest", "copy"}

LEMMA CliTyped ==
  ASSUME NEW at \in Places, NEW queue \in Seq(Requirements), NEW next \in Nat \ {0},
         NEW entries \in Seq(Entries), NEW left \in SUBSET Files
  PROVE  Cli(at, queue, next, entries, left) \in
           [at : Places, queue : Seq(Requirements), next : Nat \ {0}, entries : Seq(Entries), left : SUBSET Files]
BY DEF Cli

LEMMA CliFields ==
  ASSUME NEW at, NEW queue, NEW next, NEW entries, NEW left, NEW x
  PROVE  /\ Cli(at, queue, next, entries, left).at = at
         /\ Cli(at, queue, next, entries, left).queue = queue
         /\ Cli(at, queue, next, entries, left).next = next
         /\ Cli(at, queue, next, entries, left).entries = entries
         /\ Cli(at, queue, next, entries, left).left = left
         /\ [Cli(at, queue, next, entries, left) EXCEPT !.at = x] = Cli(x, queue, next, entries, left)
         /\ [Cli(at, queue, next, entries, left) EXCEPT !.queue = x] = Cli(at, x, next, entries, left)
         /\ [Cli(at, queue, next, entries, left) EXCEPT !.next = x] = Cli(at, queue, x, entries, left)
         /\ [Cli(at, queue, next, entries, left) EXCEPT !.entries = x] = Cli(at, queue, next, x, left)
         /\ [Cli(at, queue, next, entries, left) EXCEPT !.left = x] = Cli(at, queue, next, entries, x)
BY DEF Cli

LEMMA CliIs ==
  ASSUME PkgTypeOK
  PROVE  /\ pkgCli = Cli(pkgCli.at, pkgCli.queue, pkgCli.next, pkgCli.entries, pkgCli.left)
         /\ pkgCli.at \in Places /\ pkgCli.queue \in Seq(Requirements) /\ pkgCli.next \in Nat \ {0}
         /\ pkgCli.entries \in Seq(Entries) /\ pkgCli.left \in SUBSET Files
BY DEF PkgTypeOK, Cli, Places

LEMMA CliMoves ==
  ASSUME PkgTypeOK, NEW at, NEW next
  PROVE  [pkgCli EXCEPT !.at = at, !.next = next] = Cli(at, pkgCli.queue, next, pkgCli.entries, pkgCli.left)
<1>1. pkgCli = Cli(pkgCli.at, pkgCli.queue, pkgCli.next, pkgCli.entries, pkgCli.left)
  BY CliIs
<1> DEFINE c == [pkgCli EXCEPT !.at = at]
<1>2. c = Cli(at, pkgCli.queue, pkgCli.next, pkgCli.entries, pkgCli.left)
  BY <1>1 DEF Cli
<1>3. [c EXCEPT !.next = next] = Cli(at, pkgCli.queue, next, pkgCli.entries, pkgCli.left)
  <2> HIDE DEF c
  <2> QED
    BY <1>2 DEF Cli
<1> QED
  BY <1>3

(* The type invariant of a step that leaves registry and root alone. *)
LEMMA StepTyped ==
  ASSUME PkgTypeOK, UNCHANGED <<pkgRoot, pkgRegistry>>,
         NEW at \in Places, NEW queue \in Seq(Requirements), NEW next \in Nat \ {0},
         NEW entries \in Seq(Entries), NEW left \in SUBSET Files,
         pkgCli' = Cli(at, queue, next, entries, left),
         pkgLock' \in Seq(Entries), pkgCache' \in [Ids -> [dir : BOOLEAN, files : [Files -> Nat]]],
         pkgEver' \in Evers
  PROVE  PkgTypeOK'
<1>1. pkgCli' \in [at : Places, queue : Seq(Requirements), next : Nat \ {0}, entries : Seq(Entries), left : SUBSET Files]
  BY CliTyped
<1> QED
  BY <1>1 DEF PkgTypeOK, Places, Evers

LEMMA StartLockStep == ASSUME PkgInv, StartLock PROVE PkgInv'
<1>0. PkgTypeOK
  BY DEF PkgInv
<1>1. pkgCli' = Cli("resolve", pkgRoot, 1, <<>>, {})
  BY DEF StartLock, Idle, Cli
<1>a. pkgEver' \in Evers /\ pkgEver'.fetched = pkgEver.fetched
  <2> DEFINE e == [pkgEver EXCEPT !.runs = @ + 1]
  <2>1. pkgEver \in Evers /\ pkgEver.runs + 1 \in 0..PkgRuns
    BY <1>0, PkgAssumption DEF PkgTypeOK, Evers, StartLock
  <2>2. e \in Evers /\ e.fetched = pkgEver.fetched
    BY <2>1 DEF Evers
  <2>3. pkgEver' = [e EXCEPT !.quiet = TRUE]
    BY DEF StartLock
  <2>4. [e EXCEPT !.quiet = TRUE] \in Evers /\ [e EXCEPT !.quiet = TRUE].fetched = e.fetched
    <3> HIDE DEF e
    <3> QED
      BY <2>2 DEF Evers
  <2> HIDE DEF e
  <2> QED
    BY <2>2, <2>3, <2>4
<1>2. /\ pkgCli'.at = "resolve" /\ pkgCli'.queue = pkgRoot /\ pkgCli'.next = 1 /\ pkgCli'.entries = <<>>
      /\ UNCHANGED <<pkgRoot, pkgRegistry, pkgLock, pkgCache>>
      /\ pkgEver'.fetched = pkgEver.fetched
  <2>1. /\ pkgCli'.at = "resolve" /\ pkgCli'.queue = pkgRoot /\ pkgCli'.next = 1 /\ pkgCli'.entries = <<>>
    BY <1>1, CliFields
  <2>2. UNCHANGED <<pkgRoot, pkgRegistry, pkgLock, pkgCache>>
    BY DEF StartLock
  <2> QED
    BY <1>a, <2>1, <2>2
<1>3. PkgTypeOK'
  <2>3. pkgRoot \in Seq(Requirements) /\ 1 \in Nat \ {0} /\ <<>> \in Seq(Entries) /\ "resolve" \in Places
        /\ {} \in SUBSET Files
    BY <1>0 DEF PkgTypeOK, Places
  <2>4. /\ UNCHANGED <<pkgRoot, pkgRegistry>> /\ pkgLock' \in Seq(Entries)
        /\ pkgCache' \in [Ids -> [dir : BOOLEAN, files : [Files -> Nat]]]
    BY <1>0, <1>2 DEF PkgTypeOK
  <2> QED
    BY <1>0, <1>1, <1>a, <2>3, <2>4, StepTyped
<1>4. Resolving'
  <2>1. Required(<<>>)' = pkgRoot
    BY <1>2, RequiredOfNone DEF Required
  <2>2. Len(pkgRoot) \in Nat
    BY DEF PkgInv, PkgTypeOK
  <2> QED
    BY <1>2, <2>1, <2>2 DEF Resolving, Answered, OncePerName
<1>5. LastFetch'
  BY <1>2 DEF PkgInv, LastFetch, OncePerName, Cached, Id
<1> QED
  BY <1>2, <1>3, <1>4, <1>5 DEF PkgInv, LockCloses, Faithful, Writing, Mending

(* What a fetch left behind stays as long as lock and cache do. *)
LEMMA LastFetchStays ==
  ASSUME LastFetch, UNCHANGED <<pkgLock, pkgCache>>, pkgEver'.fetched => pkgEver.fetched
  PROVE  LastFetch'
BY DEF LastFetch, OncePerName, Cached, Id

LEMMA IdleStep ==
  ASSUME PkgInv, pkgCli' = Idle, UNCHANGED <<pkgRoot, pkgRegistry, pkgLock, pkgCache, pkgEver>>
  PROVE  PkgInv'
<1>1. PkgTypeOK' /\ pkgCli'.at = "idle"
  BY DEF PkgInv, PkgTypeOK, Idle
<1>2. LastFetch'
  BY LastFetchStays DEF PkgInv
<1> QED
  BY <1>1, <1>2 DEF PkgInv, Resolving, LockCloses, Faithful, Writing, Mending

LEMMA OpenLockStep == ASSUME PkgInv, OpenLock PROVE PkgInv'
<1> DEFINE es == pkgCli.entries
           q == pkgCli.queue
<1>1. /\ pkgCli.at = "resolve" /\ es \in Seq(Entries) /\ q \in Seq(Requirements)
      /\ pkgCli.next = Len(q) + 1 /\ q = Required(es) /\ Answered(es, q, Len(q))
  <2>1. /\ pkgCli.at = "resolve" /\ es \in Seq(Entries) /\ q \in Seq(Requirements) /\ pkgCli.next \in Nat
        /\ pkgCli.next > Len(q)
    BY DEF OpenLock, PkgInv, PkgTypeOK
  <2>2. q = Required(es) /\ pkgCli.next <= Len(q) + 1 /\ Answered(es, q, pkgCli.next - 1)
    BY <2>1 DEF PkgInv, Resolving
  <2>3. pkgCli.next = Len(q) + 1 /\ pkgCli.next - 1 = Len(q)
    BY <2>1, <2>2
  <2> QED
    BY <2>1, <2>2, <2>3
<1>2. /\ pkgCli'.at = "write" /\ pkgCli'.next = 1 /\ pkgCli'.entries = es
      /\ UNCHANGED <<pkgRoot, pkgRegistry, pkgCache>> /\ pkgLock' = <<>>
      /\ ~pkgEver'.fetched /\ pkgEver'.quiet = pkgEver.quiet
  BY DEF OpenLock, PkgInv, PkgTypeOK
<1>3. PkgTypeOK'
  <2>1. pkgCli' = Cli("write", q, 1, es, pkgCli.left)
    BY CliMoves DEF OpenLock, PkgInv
  <2>2. pkgEver' \in Evers
    BY DEF OpenLock, PkgInv, PkgTypeOK, Evers
  <2>3. PkgTypeOK /\ pkgCli.left \in SUBSET Files /\ "write" \in Places /\ pkgLock' \in Seq(Entries)
    BY <1>2 DEF PkgInv, PkgTypeOK, Places
  <2>4. /\ pkgCache' \in [Ids -> [dir : BOOLEAN, files : [Files -> Nat]]]
        /\ UNCHANGED <<pkgRoot, pkgRegistry>> /\ 1 \in Nat \ {0}
    BY <1>2 DEF PkgInv, PkgTypeOK
  <2>5. es \in Seq(Entries) /\ q \in Seq(Requirements)
    BY <1>1
  <2> HIDE DEF es, q
  <2> QED
    BY <2>1, <2>2, <2>3, <2>4, <2>5, StepTyped
<1>4. Closed(es)
  BY <1>1 DEF Closed, Answered, AskedFirst
<1>5. Closed(es)'
  BY <1>2, <1>4 DEF Closed, AskedFirst, Meets, Matching, Required
<1>6. OncePerName(es) /\ SubSeq(es, 1, 0) = <<>> /\ Len(es) \in Nat
  BY <1>1 DEF Answered
<1>7. Faithful'
  BY <1>1, <1>2 DEF PkgInv, Faithful, Hashed, Id
<1> QED
  BY <1>2, <1>3, <1>5, <1>6, <1>7 DEF PkgInv, Resolving, LockCloses, Writing, Mending, LastFetch

LEMMA WriteEntryStep == ASSUME PkgInv, WriteEntry PROVE PkgInv'
<1> DEFINE es == pkgCli.entries
           n == pkgCli.next
<1>1. /\ pkgCli.at = "write" /\ es \in Seq(Entries) /\ n \in 1..Len(es) /\ Len(es) \in Nat
      /\ pkgLock = SubSeq(es, 1, n - 1)
  BY DEF WriteEntry, PkgInv, PkgTypeOK, Writing
<1>2. /\ pkgCli'.at = "write" /\ pkgCli'.next = n + 1 /\ pkgCli'.entries = es
      /\ UNCHANGED <<pkgRoot, pkgRegistry, pkgCache, pkgEver>> /\ pkgLock' = Append(pkgLock, es[n])
  BY DEF WriteEntry, PkgInv, PkgTypeOK
<1>3. PkgTypeOK'
  <2>1. es[n] \in Entries
    BY <1>1
  <2>2. pkgLock' \in Seq(Entries)
    BY <1>2, <2>1 DEF PkgInv, PkgTypeOK
  <2>3. pkgCli' = Cli(pkgCli.at, pkgCli.queue, n + 1, es, pkgCli.left)
    <3>1. pkgCli = Cli(pkgCli.at, pkgCli.queue, n, es, pkgCli.left)
      BY CliIs DEF PkgInv
    <3> QED
      BY <3>1, CliFields DEF WriteEntry
  <2>4. /\ PkgTypeOK /\ pkgCli.at \in Places /\ pkgCli.queue \in Seq(Requirements) /\ pkgCli.left \in SUBSET Files
        /\ n + 1 \in Nat \ {0}
    BY <1>1 DEF PkgInv, PkgTypeOK, Places
  <2>5. /\ pkgEver' \in Evers
        /\ pkgCache' \in [Ids -> [dir : BOOLEAN, files : [Files -> Nat]]]
        /\ UNCHANGED <<pkgRoot, pkgRegistry>>
    BY <1>2 DEF PkgInv, PkgTypeOK, Evers
  <2> QED
    BY <1>1, <2>2, <2>3, <2>4, <2>5, StepTyped
<1>4. Closed(es)'
  BY <1>1, <1>2 DEF PkgInv, LockCloses, Closed, AskedFirst, Meets, Matching, Required
<1>5. pkgLock' = SubSeq(es, 1, n) /\ n = pkgCli'.next - 1 /\ pkgCli'.next <= Len(es) + 1
  BY <1>1, <1>2
<1>6. Faithful'
  BY <1>1, <1>2 DEF PkgInv, Faithful, Hashed, Id
<1>7. ~pkgEver'.fetched /\ OncePerName(es)
  BY <1>1, <1>2 DEF PkgInv, Writing
<1>8. Writing'
  BY <1>2, <1>5, <1>7 DEF Writing
<1> QED
  BY <1>2, <1>3, <1>4, <1>6, <1>7, <1>8 DEF PkgInv, Resolving, LockCloses, Mending, LastFetch

LEMMA CloseLockStep == ASSUME PkgInv, CloseLock PROVE PkgInv'
<1>1. CASE pkgCli' = Idle
  BY <1>1, IdleStep DEF CloseLock
<1>2. CASE pkgCli' = [pkgCli EXCEPT !.at = "dest", !.next = 1]
  <2> DEFINE es == pkgCli.entries
  <2>1. /\ pkgCli.at = "write" /\ es \in Seq(Entries) /\ pkgCli.next = Len(es) + 1 /\ Len(es) \in Nat
        /\ pkgLock = SubSeq(es, 1, Len(es))
    <3>1. /\ pkgCli.at = "write" /\ es \in Seq(Entries) /\ pkgCli.next > Len(es) /\ pkgCli.next \in Nat /\ Len(es) \in Nat
      BY DEF CloseLock, PkgInv, PkgTypeOK
    <3>2. pkgCli.next <= Len(es) + 1 /\ pkgLock = SubSeq(es, 1, pkgCli.next - 1)
      BY <3>1 DEF PkgInv, Writing
    <3>3. pkgCli.next - 1 = Len(es)
      BY <3>1, <3>2
    <3> QED
      BY <3>1, <3>2, <3>3
  <2>2. pkgLock = es
    BY <2>1
  <2>3. /\ pkgCli'.at = "dest" /\ pkgCli'.next = 1 /\ pkgCli'.entries = es
        /\ UNCHANGED <<pkgRoot, pkgRegistry, pkgLock, pkgCache, pkgEver>>
    BY <1>2 DEF CloseLock, PkgInv, PkgTypeOK
  <2>4. PkgTypeOK'
    <3>1. pkgCli' = Cli("dest", pkgCli.queue, 1, es, pkgCli.left)
      BY <1>2, CliMoves DEF PkgInv
    <3>2. PkgTypeOK /\ pkgCli.queue \in Seq(Requirements) /\ pkgCli.left \in SUBSET Files /\ "dest" \in Places
      BY DEF PkgInv, PkgTypeOK, Places
    <3>3. /\ pkgEver' \in Evers
          /\ UNCHANGED <<pkgRoot, pkgRegistry>> /\ 1 \in Nat \ {0}
          /\ pkgLock' \in Seq(Entries) /\ pkgCache' \in [Ids -> [dir : BOOLEAN, files : [Files -> Nat]]]
      BY <2>3 DEF PkgInv, PkgTypeOK, Evers
    <3> QED
      BY <2>1, <3>1, <3>2, <3>3, StepTyped
  <2>5. ~pkgEver'.fetched /\ OncePerName(es)
    BY <2>1, <2>3 DEF PkgInv, Writing
  <2>6. Faithful'
    BY <2>1, <2>3 DEF PkgInv, Faithful, Hashed, Id
  <2>7. Mending'
    BY <2>1, <2>3 DEF Mending
  <2> QED
    BY <2>2, <2>3, <2>4, <2>5, <2>6, <2>7 DEF PkgInv, Resolving, LockCloses, Writing, LastFetch
<1> QED
  BY <1>1, <1>2 DEF CloseLock
(* The walk along the queue: who is named already is passed over, a new entry
   meets the requirement that asked for it first, and edits of the registry end
   what quiet promised. *)
LEMMA SkipsNamed ==
  ASSUME NEW es \in Seq(Entries), NEW q \in Seq(Requirements), NEW n \in 1..Len(q),
         Answered(es, q, n - 1), Named(es, q[n].name)
  PROVE  Answered(es, q, n)
<1>1. Len(q) \in Nat /\ n \in Nat /\ \A k \in 1..n : k = n \/ k \in 1..n - 1
  OBVIOUS
<1>2. \A k \in 1..n - 1 : k \in 1..n
  BY <1>1
<1> QED
  BY <1>1, <1>2 DEF Answered

LEMMA AddsEntry ==
  ASSUME NEW es \in Seq(Entries), NEW q \in Seq(Requirements), NEW n \in 1..Len(q), NEW e \in Entries,
         Answered(es, q, n - 1), ~Named(es, q[n].name), e.name = q[n].name, Meets(e, q[n])
  PROVE  Answered(Append(es, e), q \o e.depends, n)
<1> DEFINE es2 == Append(es, e)
           q2 == q \o e.depends
<1>1. e.depends \in Seq(Requirements)
  BY DEF Entries
<1>2. Len(q) \in Nat /\ n \in Nat /\ \A k \in 1..Len(q) : q2[k] = q[k]
  BY <1>1
<1>3. /\ Len(es) \in Nat /\ DOMAIN es2 = 1..Len(es) + 1 /\ DOMAIN es = 1..Len(es)
      /\ es2[Len(es) + 1] = e /\ \A i \in 1..Len(es) : es2[i] = es[i]
  OBVIOUS
<1>4. \A k \in 1..n - 1 : k \in 1..n /\ k \in 1..Len(q)
  BY <1>2
<1> HIDE DEF es2, q2
<1>5. q2[n] = q[n] /\ n \in 1..n /\ \A k \in 1..n - 1 : q2[k] = q[k]
  BY <1>2, <1>4
<1>6. \A k \in 1..n : Named(es2, q2[k].name)
  <2> TAKE k \in 1..n
  <2>1. CASE k = n
    <3>1. es2[Len(es) + 1].name = q2[k].name /\ Len(es) + 1 \in DOMAIN es2
      BY <1>3, <1>5, <2>1
    <3> QED
      BY <3>1 DEF Named
  <2>2. CASE k # n
    <3>1. k \in 1..n - 1
      BY <1>2, <2>2
    <3>2. Named(es, q2[k].name)
      BY <1>5, <3>1 DEF Answered
    <3> QED
      BY <1>3, <3>2 DEF Named
  <2> QED
    BY <2>1, <2>2
<1>7. OncePerName(es2)
  <2>1. \A i \in 1..Len(es) : es[i].name # e.name
    BY <1>3 DEF Named
  <2>2. \A i, j \in 1..Len(es) : es[i].name = es[j].name => i = j
    BY <1>3 DEF Answered, OncePerName
  <2>3. ASSUME NEW i \in DOMAIN es2, NEW j \in DOMAIN es2, es2[i].name = es2[j].name PROVE i = j
    <3>1. (i = Len(es) + 1 \/ i \in 1..Len(es)) /\ (j = Len(es) + 1 \/ j \in 1..Len(es))
      BY <1>3
    <3> QED
      BY <1>3, <2>1, <2>2, <2>3, <3>1
  <2> QED
    BY <2>3 DEF OncePerName
<1>8. \A i \in DOMAIN es2 : \E k \in 1..n : FirstOf(q2, k, es2[i].name) /\ Meets(es2[i], q2[k])
  <2> TAKE i \in DOMAIN es2
  <2>1. CASE i = Len(es) + 1
    <3>1. \A j \in 1..n - 1 : q[j].name # e.name
      <4> TAKE j \in 1..n - 1
      <4>1. Named(es, q[j].name)
        BY DEF Answered
      <4> QED
        BY <4>1
    <3>2. FirstOf(q2, n, e.name)
      BY <1>5, <3>1 DEF FirstOf
    <3> QED
      BY <1>3, <1>5, <2>1, <3>2
  <2>2. CASE i # Len(es) + 1
    <3>1. i \in DOMAIN es /\ es2[i] = es[i]
      BY <1>3, <2>2
    <3>2. PICK k \in 1..n - 1 : FirstOf(q, k, es[i].name) /\ Meets(es[i], q[k])
      BY <3>1 DEF Answered
    <3>3. k \in 1..n /\ q2[k] = q[k] /\ \A j \in 1..k - 1 : j \in 1..n - 1
      BY <1>2, <1>4, <1>5, <3>2
    <3>4. FirstOf(q2, k, es[i].name)
      BY <1>5, <3>2, <3>3 DEF FirstOf
    <3> QED
      BY <3>1, <3>2, <3>3, <3>4
  <2> QED
    BY <2>1, <2>2
<1> QED
  BY <1>6, <1>7, <1>8 DEF Answered, es2, q2

LEMMA MeetsStays ==
  ASSUME NEW e, NEW d, Meets(e, d), pkgEver'.quiet => pkgEver.quiet /\ UNCHANGED pkgRegistry
  PROVE  Meets(e, d)'
BY DEF Meets, Matching

LEMMA AnsweredStays ==
  ASSUME NEW es, NEW q, NEW n, Answered(es, q, n), pkgEver'.quiet => pkgEver.quiet /\ UNCHANGED pkgRegistry
  PROVE  Answered(es, q, n)'
BY MeetsStays DEF Answered

(* One step of the walk. *)
LEMMA Walks ==
  ASSUME PkgTypeOK, UNCHANGED <<pkgRoot, pkgRegistry, pkgLock, pkgCache, pkgEver>>,
         NEW n \in Nat \ {0}, NEW es \in Seq(Entries), NEW q \in Seq(Requirements), NEW left \in SUBSET Files,
         pkgCli' = Cli("resolve", q, n + 1, es, left),
         q = Required(es), n <= Len(q), Answered(es, q, n), LastFetch,
         pkgEver.quiet => \A i \in DOMAIN es : Hashed(es[i])
  PROVE  PkgInv'
<1>1. pkgCli'.at = "resolve" /\ pkgCli'.queue = q /\ pkgCli'.next = n + 1 /\ pkgCli'.entries = es
  BY CliFields
<1>2. PkgTypeOK'
  <2>1. /\ "resolve" \in Places /\ n + 1 \in Nat \ {0} /\ pkgLock' \in Seq(Entries)
        /\ pkgCache' \in [Ids -> [dir : BOOLEAN, files : [Files -> Nat]]] /\ pkgEver' \in Evers
        /\ UNCHANGED <<pkgRoot, pkgRegistry>>
    BY DEF PkgTypeOK, Places, Evers
  <2> QED
    BY <2>1, StepTyped
<1>3. Answered(es, q, n)'
  BY AnsweredStays
<1>4. q = Required(es)'
  BY DEF Required
<1>5. Len(q) \in Nat /\ n + 1 - 1 = n /\ n + 1 <= Len(q) + 1
  OBVIOUS
<1>6. Resolving'
  BY <1>1, <1>3, <1>4, <1>5 DEF Resolving
<1>7. Faithful'
  BY <1>1 DEF Faithful, Hashed, Id
<1>8. LastFetch'
  BY LastFetchStays
<1> QED
  BY <1>1, <1>2, <1>6, <1>7, <1>8 DEF PkgInv, LockCloses, Writing, Mending

LEMMA AddPkgStep == ASSUME PkgInv, AddPkg PROVE PkgInv'
<1>0. PkgTypeOK /\ UNCHANGED <<pkgRoot, pkgRegistry, pkgLock, pkgCache, pkgEver>> /\ LastFetch
  BY DEF PkgInv, AddPkg
<1>a. /\ pkgCli.at = "resolve" /\ pkgCli.next <= Len(pkgCli.queue)
      /\ pkgCli.queue = Required(pkgCli.entries) /\ Answered(pkgCli.entries, pkgCli.queue, pkgCli.next - 1)
      /\ pkgEver.quiet => \A i \in DOMAIN pkgCli.entries : Hashed(pkgCli.entries[i])
  BY DEF AddPkg, PkgInv, Resolving, Faithful
<1>b. /\ pkgCli = Cli("resolve", pkgCli.queue, pkgCli.next, pkgCli.entries, pkgCli.left)
      /\ pkgCli.queue \in Seq(Requirements) /\ pkgCli.next \in Nat \ {0}
      /\ pkgCli.entries \in Seq(Entries) /\ pkgCli.left \in SUBSET Files
  BY <1>0, <1>a, CliIs
<1>c. PICK q, n, es, left : q = pkgCli.queue /\ n = pkgCli.next /\ es = pkgCli.entries /\ left = pkgCli.left
  OBVIOUS
<1>1. /\ es \in Seq(Entries) /\ q \in Seq(Requirements) /\ left \in SUBSET Files /\ n \in Nat \ {0}
      /\ n <= Len(q) /\ q = Required(es) /\ Answered(es, q, n - 1) /\ n \in 1..Len(q)
      /\ pkgCli = Cli("resolve", q, n, es, left)
      /\ pkgEver.quiet => \A i \in DOMAIN es : Hashed(es[i])
  BY <1>a, <1>b, <1>c
<1>d. PICK d : d = q[n]
  OBVIOUS
<1>2. d \in Requirements /\ d.name \in PkgNames
  <2>1. q \in Seq(Requirements) /\ n \in 1..Len(q)
    BY <1>1
  <2>2. d \in Requirements
    BY <2>1, <1>d
  <2> QED
    BY <2>2 DEF Requirements
<1>5. CASE Named(es, d.name)
  <2>1. pkgCli' = Cli("resolve", q, n + 1, es, left)
    <3>1. pkgCli' = [pkgCli EXCEPT !.next = n + 1]
      BY <1>5, <1>c, <1>d DEF AddPkg
    <3> QED
      BY <1>1, <3>1, CliFields
  <2>2. Answered(es, q, n)
    BY <1>1, <1>5, <1>d, SkipsNamed
  <2> QED
    BY <1>0, <1>1, <2>1, <2>2, Walks
<1>6. CASE ~Named(es, d.name) /\ Matching(d.name, d.want) = {}
  BY <1>0, <1>6, <1>c, <1>d, IdleStep DEF AddPkg
<1>7. CASE ~Named(es, d.name) /\ Matching(d.name, d.want) # {}
  <2>a. PICK v : v = FindNewest(d.name, d.want)
    OBVIOUS
  <2>b. PICK e : e = Entry(d.name, v)
    OBVIOUS
  <2>1. /\ v \in PkgVersions /\ pkgRegistry[<<d.name, v>>].tag # 0 /\ Satisfies(v, d.want)
        /\ \A w \in Matching(d.name, d.want) : ~Newer(w, v)
    BY <1>7, <2>a, FoundIsNewest DEF Matching
  <2>2. /\ <<d.name, v>> \in Ids /\ pkgRegistry[<<d.name, v>>].tag \in Nat
        /\ pkgRegistry[<<d.name, v>>].depends \in Seq(Requirements)
    BY <1>0, <1>2, <2>1 DEF PkgTypeOK, Ids
  <2>3. /\ e \in Entries /\ e.name = d.name /\ e.version = v /\ e.depends \in Seq(Requirements)
        /\ e.hash = pkgRegistry[<<d.name, v>>].tag
    BY <1>2, <2>1, <2>2, <2>b DEF Entry, Entries
  <2>4. Meets(e, d) /\ Hashed(e)
    BY <2>1, <2>3 DEF Meets, Hashed, Id
  <2>c. PICK es2, q2 : es2 = Append(es, e) /\ q2 = q \o e.depends
    OBVIOUS
  <2>5. es2 \in Seq(Entries) /\ q2 \in Seq(Requirements) /\ n <= Len(q2)
    <3>1. Len(q2) = Len(q) + Len(e.depends) /\ Len(e.depends) \in Nat /\ Len(q) \in Nat
      BY <1>1, <2>3, <2>c
    <3>2. es2 \in Seq(Entries) /\ q2 \in Seq(Requirements)
      BY <1>1, <2>3, <2>c
    <3> QED
      BY <1>1, <3>1, <3>2
  <2>6. pkgCli' = Cli("resolve", q2, n + 1, es2, left)
    <3> DEFINE c == [pkgCli EXCEPT !.next = n + 1]
               b == [c EXCEPT !.entries = es2]
    <3>1. pkgCli' = [b EXCEPT !.queue = q2]
      BY <1>7, <1>c, <1>d, <2>a, <2>b, <2>c DEF AddPkg, QueueWith
    <3>2. c = Cli("resolve", q, n + 1, es, left)
      BY <1>1, CliFields
    <3> HIDE DEF c
    <3>3. b = Cli("resolve", q, n + 1, es2, left)
      BY <3>2, CliFields
    <3> HIDE DEF b
    <3> QED
      BY <3>1, <3>3, CliFields
  <2>9. q2 = Required(es2)
    BY <1>1, <2>3, <2>c, RequiredGrows
  <2>15. Answered(es2, q2, n)
    BY <1>1, <1>7, <1>d, <2>3, <2>4, <2>c, AddsEntry
  <2>16. pkgEver.quiet => \A i \in DOMAIN es2 : Hashed(es2[i])
    <3>1. \A i \in DOMAIN es2 : es2[i] = e \/ (i \in DOMAIN es /\ es2[i] = es[i])
      BY <1>1, <2>3, <2>c
    <3> QED
      BY <1>1, <2>4, <3>1
  <2> QED
    BY <1>0, <1>1, <2>5, <2>6, <2>9, <2>15, <2>16, Walks
<1> QED
  BY <1>5, <1>6, <1>7
-----------------------------------------------------------------------------
(* The fetch. *)

\* Which tree is copied, and what a step that only moves on keeps.
LEMMA FetchingKnown ==
  ASSUME PkgInv, pkgCli.at \in {"dest", "copy"}, pkgCli.next <= Len(pkgCli.entries)
  PROVE  /\ pkgCli.entries \in Seq(Entries) /\ pkgCli.next \in DOMAIN pkgCli.entries /\ pkgCli.next \in Nat \ {0}
         /\ Fetching \in Entries /\ Source = Id(Fetching) /\ Source \in Ids
<1>1. pkgCli.entries \in Seq(Entries) /\ pkgCli.next \in DOMAIN pkgCli.entries /\ pkgCli.next \in Nat \ {0}
  BY DEF PkgInv, PkgTypeOK
<1>2. Fetching \in Entries
  BY <1>1 DEF Fetching
<1> QED
  BY <1>1, <1>2 DEF Source, Id, Entries, Ids

LEMMA FetchStep ==
  ASSUME PkgInv, pkgCli.at \in {"dest", "copy"}, UNCHANGED <<pkgRoot, pkgRegistry, pkgLock, pkgEver>>,
         pkgCache' \in [Ids -> [dir : BOOLEAN, files : [Files -> Nat]]],
         NEW at \in {"dest", "copy"}, NEW next \in Nat \ {0}, NEW left \in SUBSET Files,
         pkgCli' = Cli(at, pkgCli.queue, next, pkgCli.entries, left),
         Mending'
  PROVE  PkgInv'
<1>1. pkgCli'.at = at /\ pkgCli'.next = next /\ pkgCli'.entries = pkgCli.entries
  BY CliFields
<1>2. PkgTypeOK'
  <2>1. /\ PkgTypeOK /\ at \in Places /\ pkgCli.queue \in Seq(Requirements) /\ pkgCli.entries \in Seq(Entries)
        /\ pkgLock' \in Seq(Entries) /\ pkgEver' \in Evers /\ UNCHANGED <<pkgRoot, pkgRegistry>>
    BY DEF PkgInv, PkgTypeOK, Places, Evers
  <2> QED
    BY <2>1, StepTyped
<1>3. Faithful'
  BY <1>1 DEF PkgInv, Faithful, Hashed, Id
<1>4. ~pkgEver'.fetched /\ Writing'
  BY <1>1 DEF PkgInv, Writing
<1> QED
  BY <1>1, <1>2, <1>3, <1>4 DEF PkgInv, Resolving, LockCloses, LastFetch

LEMMA MendingNow ==
  ASSUME NEW es, NEW n, pkgCli'.entries = es, pkgCli'.next = n, pkgCli'.at = "copy" => n <= Len(es),
         pkgEver'.quiet => \A i \in DOMAIN es : i < n => Cached(es[i])',
         pkgEver'.quiet /\ pkgCli'.at = "copy" =>
           /\ pkgCache'[Id(es[n])].dir
           /\ \A f \in Files \ pkgCli'.left : pkgCache'[Id(es[n])].files[f] = es[n].hash
  PROVE  Mending'
<1>1. Fetching' = es[n] /\ Source' = Id(es[n])
  BY DEF Fetching, Source, Id
<1> QED
  BY <1>1 DEF Mending, Cached, Id

LEMMA EntryKnown ==
  ASSUME NEW es \in Seq(Entries), NEW i \in DOMAIN es
  PROVE  es[i] \in Entries /\ Id(es[i]) \in Ids
<1>1. es[i] \in Entries
  OBVIOUS
<1> QED
  BY <1>1 DEF Entries, Id, Ids

LEMMA MakeDestStep == ASSUME PkgInv, MakeDest PROVE PkgInv'
<1>1. /\ pkgCli.at = "dest" /\ pkgCli.next <= Len(pkgCli.entries) /\ UNCHANGED <<pkgRoot, pkgRegistry, pkgLock, pkgEver>>
      /\ pkgCache' = [pkgCache EXCEPT ![Source].dir = TRUE]
      /\ pkgCli' = [pkgCli EXCEPT !.at = "copy", !.left = Present(Source)]
  BY DEF MakeDest
<1>2. /\ pkgCli.entries \in Seq(Entries) /\ pkgCli.next \in DOMAIN pkgCli.entries /\ pkgCli.next \in Nat \ {0}
      /\ Fetching \in Entries /\ Source = Id(Fetching) /\ Source \in Ids
  BY <1>1, FetchingKnown
<1>3. /\ pkgCache' \in [Ids -> [dir : BOOLEAN, files : [Files -> Nat]]] /\ pkgCache'[Source].dir
      /\ \A id \in Ids : pkgCache'[id].files = pkgCache[id].files /\ (pkgCache[id].dir => pkgCache'[id].dir)
  BY <1>1, <1>2 DEF PkgInv, PkgTypeOK
<1>4. pkgCli' = Cli("copy", pkgCli.queue, pkgCli.next, pkgCli.entries, Present(Source))
  <2>1. pkgCli = Cli(pkgCli.at, pkgCli.queue, pkgCli.next, pkgCli.entries, pkgCli.left)
    BY CliIs DEF PkgInv
  <2> DEFINE c == [pkgCli EXCEPT !.at = "copy"]
  <2>2. c = Cli("copy", pkgCli.queue, pkgCli.next, pkgCli.entries, pkgCli.left)
    BY <2>1, CliFields
  <2>3. pkgCli' = [c EXCEPT !.left = Present(Source)]
    BY <1>1
  <2> HIDE DEF c
  <2> QED
    BY <2>2, <2>3, CliFields
<1>5. /\ pkgCli'.at = "copy" /\ pkgCli'.next = pkgCli.next /\ pkgCli'.entries = pkgCli.entries
      /\ pkgCli'.left = Present(Source)
  BY <1>4, CliFields
<1>6. pkgEver.quiet => Present(Source) = Files
  BY <1>1, <1>2 DEF PkgInv, Faithful, Hashed, Present, Fetching
<1>7. PICK es, n : es = pkgCli.entries /\ n = pkgCli.next
  OBVIOUS
<1>8. pkgEver'.quiet => \A i \in DOMAIN es : i < n => Cached(es[i])'
  <2> SUFFICES ASSUME pkgEver'.quiet, NEW i \in DOMAIN es, i < n PROVE Cached(es[i])'
    OBVIOUS
  <2>1. Cached(es[i])
    BY <1>1, <1>7 DEF PkgInv, Mending
  <2>2. Id(es[i]) \in Ids
    BY <1>2, <1>7, EntryKnown
  <2> QED
    BY <1>3, <2>1, <2>2 DEF Cached, Id
<1>9. Mending'
  <2>1. Source = Id(es[n])
    BY <1>2, <1>7 DEF Fetching
  <2>2. pkgEver'.quiet => Files \ pkgCli'.left = {}
    BY <1>1, <1>5, <1>6
  <2>3. pkgCli'.entries = es /\ pkgCli'.next = n /\ n <= Len(es)
    BY <1>1, <1>5, <1>7
  <2>4. pkgCache'[Id(es[n])].dir
    BY <1>3, <2>1
  <2> QED
    BY <1>8, <2>2, <2>3, <2>4, MendingNow
<1>10. Present(Source) \in SUBSET Files /\ "copy" \in {"dest", "copy"} /\ pkgCli.at \in {"dest", "copy"}
  BY <1>1 DEF Present
<1> QED
  BY <1>1, <1>2, <1>3, <1>4, <1>9, <1>10, FetchStep

LEMMA CopyFileStep == ASSUME PkgInv, NEW f \in Files, CopyFile(f) PROVE PkgInv'
<1>1. /\ pkgCli.at = "copy" /\ f \in pkgCli.left /\ UNCHANGED <<pkgRoot, pkgRegistry, pkgLock, pkgEver>>
      /\ pkgCache' = [pkgCache EXCEPT ![Source].files[f] = pkgRegistry[Source].tag]
      /\ pkgCli' = [pkgCli EXCEPT !.left = @ \ {f}]
      /\ pkgCli.next <= Len(pkgCli.entries)
  BY DEF CopyFile, PkgInv, Mending
<1>2. /\ pkgCli.entries \in Seq(Entries) /\ pkgCli.next \in DOMAIN pkgCli.entries /\ pkgCli.next \in Nat \ {0}
      /\ Fetching \in Entries /\ Source = Id(Fetching) /\ Source \in Ids
  BY <1>1, FetchingKnown
<1>3. /\ pkgCache \in [Ids -> [dir : BOOLEAN, files : [Files -> Nat]]] /\ pkgRegistry[Source].tag \in Nat
      /\ pkgCache[Source].files \in [Files -> Nat]
  BY <1>2 DEF PkgInv, PkgTypeOK
<1>4. /\ pkgCache' \in [Ids -> [dir : BOOLEAN, files : [Files -> Nat]]]
      /\ pkgCache'[Source].dir = pkgCache[Source].dir
      /\ pkgCache'[Source].files[f] = pkgRegistry[Source].tag
      /\ \A g \in Files : g # f => pkgCache'[Source].files[g] = pkgCache[Source].files[g]
      /\ \A id \in Ids : id # Source => pkgCache'[id] = pkgCache[id]
  <2> DEFINE new == [pkgCache[Source] EXCEPT !.files = [@ EXCEPT ![f] = pkgRegistry[Source].tag]]
  <2>1. /\ new \in [dir : BOOLEAN, files : [Files -> Nat]] /\ new.dir = pkgCache[Source].dir
        /\ new.files = [pkgCache[Source].files EXCEPT ![f] = pkgRegistry[Source].tag]
    BY <1>2, <1>3
  <2>2. pkgCache' = [pkgCache EXCEPT ![Source] = new]
    BY <1>1
  <2> HIDE DEF new
  <2> QED
    BY <1>2, <1>3, <2>1, <2>2
<1>5. pkgCli' = Cli("copy", pkgCli.queue, pkgCli.next, pkgCli.entries, pkgCli.left \ {f})
  <2>1. pkgCli = Cli("copy", pkgCli.queue, pkgCli.next, pkgCli.entries, pkgCli.left)
    BY <1>1, CliIs DEF PkgInv
  <2>2. PICK q, n, es, left, rest :
          /\ q = pkgCli.queue /\ n = pkgCli.next /\ es = pkgCli.entries /\ left = pkgCli.left
          /\ rest = pkgCli.left \ {f}
    OBVIOUS
  <2>3. pkgCli = Cli("copy", q, n, es, left)
    BY <2>1, <2>2
  <2>4. pkgCli' = [pkgCli EXCEPT !.left = rest]
    BY <1>1, <2>2
  <2>5. pkgCli' = Cli("copy", q, n, es, rest)
    BY <2>3, <2>4, CliFields
  <2> QED
    BY <2>2, <2>5
<1>6. /\ pkgCli'.at = "copy" /\ pkgCli'.next = pkgCli.next /\ pkgCli'.entries = pkgCli.entries
      /\ pkgCli'.left = pkgCli.left \ {f}
  BY <1>5, CliFields
<1>7. PICK es, n : es = pkgCli.entries /\ n = pkgCli.next
  OBVIOUS
<1>8. pkgEver'.quiet => \A i \in DOMAIN es : i < n => Cached(es[i])'
  <2> SUFFICES ASSUME pkgEver'.quiet, NEW i \in DOMAIN es, i < n PROVE Cached(es[i])'
    OBVIOUS
  <2>1. Cached(es[i])
    BY <1>1, <1>7 DEF PkgInv, Mending
  <2>2. Id(es[i]) \in Ids
    BY <1>2, <1>7, EntryKnown
  <2>3. OncePerName(es) /\ n \in DOMAIN es /\ n \in Nat /\ es[n] = Fetching
    BY <1>1, <1>2, <1>7 DEF PkgInv, Writing, Fetching
  <2>4. es[i].name # es[n].name
    BY <2>3 DEF OncePerName
  <2>5. Id(es[i]) # Source
    BY <1>2, <2>3, <2>4 DEF Id
  <2> QED
    BY <1>4, <2>1, <2>2, <2>5 DEF Cached, Id
<1>9. Mending'
  <2>1. Source = Id(es[n]) /\ Fetching = es[n]
    BY <1>2, <1>7 DEF Fetching
  <2>2. pkgEver.quiet => /\ pkgCache[Source].dir /\ pkgRegistry[Source].tag = Fetching.hash
                         /\ \A g \in Files \ pkgCli.left : pkgCache[Source].files[g] = Fetching.hash
    BY <1>1, <1>2 DEF PkgInv, Mending, Faithful, Hashed, Fetching
  <2>3. pkgEver'.quiet => /\ pkgCache'[Id(es[n])].dir
                          /\ \A g \in Files \ pkgCli'.left : pkgCache'[Id(es[n])].files[g] = es[n].hash
    BY <1>1, <1>4, <1>6, <2>1, <2>2
  <2>4. pkgCli'.entries = es /\ pkgCli'.next = n /\ n <= Len(es)
    BY <1>1, <1>6, <1>7
  <2> QED
    BY <1>8, <2>3, <2>4, MendingNow
<1>10. pkgCli.left \ {f} \in SUBSET Files /\ "copy" \in {"dest", "copy"} /\ pkgCli.at \in {"dest", "copy"}
  BY <1>1 DEF PkgInv, PkgTypeOK
<1> QED
  BY <1>1, <1>2, <1>4, <1>5, <1>9, <1>10, FetchStep

LEMMA NextEntryStep == ASSUME PkgInv, NextEntry PROVE PkgInv'
<1>1. /\ pkgCli.at = "copy" /\ pkgCli.left = {} /\ UNCHANGED <<pkgRoot, pkgRegistry, pkgLock, pkgCache, pkgEver>>
      /\ pkgCli' = [pkgCli EXCEPT !.at = "dest", !.next = pkgCli.next + 1]
      /\ pkgCli.next <= Len(pkgCli.entries)
  BY DEF NextEntry, PkgInv, Mending
<1>2. /\ pkgCli.entries \in Seq(Entries) /\ pkgCli.next \in DOMAIN pkgCli.entries /\ pkgCli.next \in Nat \ {0}
      /\ Fetching \in Entries /\ Source = Id(Fetching) /\ Source \in Ids
  BY <1>1, FetchingKnown
<1>3. pkgCli' = Cli("dest", pkgCli.queue, pkgCli.next + 1, pkgCli.entries, pkgCli.left)
  BY <1>1, CliMoves DEF PkgInv
<1>4. pkgCli'.at = "dest" /\ pkgCli'.next = pkgCli.next + 1 /\ pkgCli'.entries = pkgCli.entries
  BY <1>3, CliFields
<1>5. ASSUME pkgEver.quiet PROVE Cached(Fetching)
  <2>1. pkgCache[Source].dir /\ \A g \in Files : pkgCache[Source].files[g] = Fetching.hash
    BY <1>1, <1>5 DEF PkgInv, Mending
  <2>2. pkgCache[Source].files \in [Files -> Nat]
    BY <1>2 DEF PkgInv, PkgTypeOK
  <2> QED
    BY <1>2, <2>1, <2>2 DEF Cached
<1>6. ASSUME pkgEver.quiet, NEW i \in DOMAIN pkgCli.entries, i < pkgCli.next + 1 PROVE Cached(pkgCli.entries[i])
  <2>1. i = pkgCli.next \/ i < pkgCli.next
    BY <1>2, <1>6
  <2>2. CASE i < pkgCli.next
    BY <1>1, <1>6, <2>2 DEF PkgInv, Mending
  <2>3. CASE i = pkgCli.next
    BY <1>5, <1>6, <2>3 DEF Fetching
  <2> QED
    BY <2>1, <2>2, <2>3
<1>7. Mending'
  BY <1>1, <1>4, <1>6 DEF Mending, Cached, Id
<1>8. /\ pkgCli.left \in SUBSET Files /\ "dest" \in {"dest", "copy"} /\ pkgCli.at \in {"dest", "copy"}
      /\ pkgCli.next + 1 \in Nat \ {0} /\ UNCHANGED <<pkgRoot, pkgRegistry, pkgLock, pkgEver>>
      /\ pkgCache' \in [Ids -> [dir : BOOLEAN, files : [Files -> Nat]]]
  BY <1>1, <1>2 DEF PkgInv, PkgTypeOK
<1> QED
  BY <1>3, <1>7, <1>8, FetchStep

LEMMA FetchedStep == ASSUME PkgInv, Fetched PROVE PkgInv'
<1>1. /\ pkgCli.at = "dest" /\ pkgCli.next > Len(pkgCli.entries) /\ pkgCli' = Idle
      /\ UNCHANGED <<pkgRoot, pkgRegistry, pkgLock, pkgCache>>
      /\ pkgEver' = [pkgEver EXCEPT !.fetched = pkgEver.quiet]
  BY DEF Fetched
<1>2. /\ pkgCli.entries \in Seq(Entries) /\ pkgCli.next \in Nat /\ pkgEver \in Evers
      /\ OncePerName(pkgCli.entries) /\ pkgLock = pkgCli.entries
  BY <1>1 DEF PkgInv, PkgTypeOK, Writing, Evers
<1>3. pkgEver' \in Evers /\ pkgEver'.fetched = pkgEver.quiet
  BY <1>1, <1>2 DEF Evers
<1>4. PkgTypeOK' /\ pkgCli'.at = "idle"
  BY <1>1, <1>3 DEF PkgInv, PkgTypeOK, Idle, Evers
<1>5. ASSUME pkgEver.quiet, NEW i \in DOMAIN pkgLock PROVE pkgLock[i].hash # 0 /\ Cached(pkgLock[i])
  <2>1. i < pkgCli.next
    BY <1>1, <1>2, <1>5
  <2> QED
    BY <1>1, <1>2, <1>5, <2>1 DEF PkgInv, Mending, Faithful, Hashed
<1>6. LastFetch'
  <2>1. pkgEver'.fetched => pkgEver.quiet
    BY <1>2, <1>3 DEF Evers
  <2>2. pkgEver.quiet => OncePerName(pkgLock) /\ \A i \in DOMAIN pkgLock : pkgLock[i].hash # 0 /\ Cached(pkgLock[i])
    BY <1>2, <1>5
  <2> QED
    BY <1>1, <2>1, <2>2 DEF LastFetch, OncePerName, Cached, Id
<1> QED
  BY <1>4, <1>6 DEF PkgInv, Resolving, LockCloses, Faithful, Writing, Mending
-----------------------------------------------------------------------------
(* An edit of the registry: nothing is quiet any more. *)
LEMMA EditStep ==
  ASSUME PkgInv, Edited, pkgEver.edits < PkgEdits, UNCHANGED <<pkgRoot, pkgLock, pkgCache, pkgCli>>,
         pkgRegistry' \in [Ids -> [tag : Nat, depends : Seq(Requirements)]]
  PROVE  PkgInv'
<1>1. pkgEver' \in Evers /\ ~pkgEver'.quiet /\ pkgEver'.fetched = pkgEver.fetched
  <2> DEFINE e == [pkgEver EXCEPT !.edits = @ + 1]
  <2>1. pkgEver \in Evers /\ pkgEver.edits + 1 \in 0..PkgEdits
    BY PkgAssumption DEF PkgInv, PkgTypeOK, Evers
  <2>2. e \in Evers /\ e.fetched = pkgEver.fetched
    BY <2>1 DEF Evers
  <2>3. pkgEver' = [e EXCEPT !.quiet = FALSE]
    BY DEF Edited
  <2>4. [e EXCEPT !.quiet = FALSE] \in Evers /\ [e EXCEPT !.quiet = FALSE].fetched = e.fetched
        /\ ~[e EXCEPT !.quiet = FALSE].quiet
    <3> HIDE DEF e
    <3> QED
      BY <2>2 DEF Evers
  <2> HIDE DEF e
  <2> QED
    BY <2>2, <2>3, <2>4
<1>2. PkgTypeOK'
  BY <1>1 DEF PkgInv, PkgTypeOK, Evers
<1>3. PICK es, q, n : es = pkgCli.entries /\ q = pkgCli.queue /\ n = pkgCli.next
  OBVIOUS
<1>4. es = pkgCli'.entries /\ q = pkgCli'.queue /\ n = pkgCli'.next /\ pkgCli' = pkgCli
  BY <1>3
<1>5. Required(es)' = Required(es)
  BY DEF Required
<1>6. Resolving'
  <2> SUFFICES ASSUME pkgCli.at = "resolve" PROVE Resolving'
    BY <1>4 DEF Resolving
  <2>1. PICK m : m = n - 1
    OBVIOUS
  <2>2. q = Required(es) /\ n <= Len(q) + 1 /\ Answered(es, q, m)
    BY <1>3, <2>1 DEF PkgInv, Resolving
  <2>3. Answered(es, q, m)'
    BY <1>1, <2>2, AnsweredStays
  <2>4. m = pkgCli'.next - 1
    BY <1>4, <2>1
  <2> QED
    BY <1>4, <1>5, <2>2, <2>3, <2>4 DEF Resolving
<1>7. LockCloses'
  <2> SUFFICES ASSUME pkgCli.at = "write" PROVE Closed(es)'
    BY <1>4 DEF LockCloses
  <2>1. Closed(es)
    BY <1>3 DEF PkgInv, LockCloses
  <2>2. PICK asked : asked = Required(es)
    OBVIOUS
  <2>3. asked = Required(es)'
    BY <1>5, <2>2
  <2>4. \A i \in DOMAIN es : AskedFirst(asked, es[i])'
    <3> TAKE i \in DOMAIN es
    <3>1. PICK k \in DOMAIN asked : FirstOf(asked, k, es[i].name) /\ Meets(es[i], asked[k])
      BY <2>1, <2>2 DEF Closed, AskedFirst
    <3>2. Meets(es[i], asked[k])'
      BY <1>1, <3>1, MeetsStays
    <3> QED
      BY <3>1, <3>2 DEF AskedFirst
  <2> QED
    BY <2>1, <2>2, <2>3, <2>4 DEF Closed
<1>8. Faithful' /\ Mending' /\ Writing'
  BY <1>1 DEF PkgInv, Faithful, Mending, Writing
<1>9. LastFetch'
  BY <1>1 DEF PkgInv, LastFetch, OncePerName, Cached, Id
<1> QED
  BY <1>2, <1>6, <1>7, <1>8, <1>9 DEF PkgInv

LEMMA InvStep == PkgInv /\ [PkgNext]_pkgVars => PkgInv'
<1> SUFFICES ASSUME PkgInv, [PkgNext]_pkgVars PROVE PkgInv'
  OBVIOUS
<1>1. CASE StartLock
  BY <1>1, StartLockStep
<1>2. CASE AddPkg
  BY <1>2, AddPkgStep
<1>3. CASE OpenLock
  BY <1>3, OpenLockStep
<1>4. CASE WriteEntry
  BY <1>4, WriteEntryStep
<1>5. CASE CloseLock
  BY <1>5, CloseLockStep
<1>6. CASE MakeDest
  BY <1>6, MakeDestStep
<1>7. CASE CopyFails
  BY <1>7, IdleStep DEF CopyFails
<1>8. CASE NextEntry
  BY <1>8, NextEntryStep
<1>9. CASE Fetched
  BY <1>9, FetchedStep
<1>10. CASE Killed
  BY <1>10, IdleStep DEF Killed
<1>11. ASSUME NEW f \in Files, CopyFile(f) PROVE PkgInv'
  BY <1>11, CopyFileStep
<1>12. ASSUME NEW id \in Ids, Withdraw(id) PROVE PkgInv'
  <2>1. pkgRegistry' \in [Ids -> [tag : Nat, depends : Seq(Requirements)]]
    <3>1. Absent \in [tag : Nat, depends : Seq(Requirements)]
      BY DEF Absent
    <3> QED
      BY <1>12, <3>1 DEF Withdraw, PkgInv, PkgTypeOK
  <2> QED
    BY <1>12, <2>1, EditStep DEF Withdraw
<1>13. ASSUME NEW id \in Ids, NEW depends \in Depends(1), Publish(id, depends) PROVE PkgInv'
  <2>1. pkgRegistry' \in [Ids -> [tag : Nat, depends : Seq(Requirements)]]
    <3>1. pkgEver.edits + 2 \in Nat
      BY PkgAssumption DEF PkgInv, PkgTypeOK
    <3>2. depends \in Seq(Requirements)
      BY SomeDepends
    <3>3. [tag |-> pkgEver.edits + 2, depends |-> depends] \in [tag : Nat, depends : Seq(Requirements)]
      BY <3>1, <3>2
    <3> QED
      BY <1>13, <3>3 DEF Publish, PkgInv, PkgTypeOK
  <2> QED
    BY <1>13, <2>1, EditStep DEF Publish
<1>14. CASE UNCHANGED pkgVars
  <2>1. UNCHANGED <<pkgRoot, pkgRegistry, pkgLock, pkgCache, pkgCli, pkgEver>>
    BY <1>14 DEF pkgVars
  <2>2. PkgTypeOK'
    BY <2>1 DEF PkgInv, PkgTypeOK
  <2>3. Resolving'
    BY <2>1 DEF PkgInv, Resolving, Answered, OncePerName, Meets, Matching, Required
  <2>4. LockCloses'
    BY <2>1 DEF PkgInv, LockCloses, Closed, AskedFirst, Meets, Matching, Required
  <2>5. Faithful' /\ Writing'
    BY <2>1 DEF PkgInv, Faithful, Hashed, Id, Writing
  <2>6. Mending' /\ LastFetch'
    BY <2>1 DEF PkgInv, Mending, LastFetch, Cached, Id, Source, Fetching
  <2> QED
    BY <2>2, <2>3, <2>4, <2>5, <2>6 DEF PkgInv
<1> QED
  BY <1>1, <1>2, <1>3, <1>4, <1>5, <1>6, <1>7, <1>8, <1>9, <1>10, <1>11, <1>12, <1>13, <1>14 DEF PkgNext

LEMMA InvAlways == PkgSpec => []PkgInv
  BY InvInit, InvStep, PTL DEF PkgSpec

(* Whatever is asked for, published and withdrawn, the variables of the package
   manager have their types: only versions of the registry are locked. *)
THEOREM PkgTyped == PkgSpec => []PkgTypeOK
<1>1. PkgInv => PkgTypeOK
  BY DEF PkgInv
<1> QED
  BY <1>1, InvAlways, PTL

(* resolve_and_lock: for any registry, any requirements and any edits of the
   registry meanwhile, the lock that is about to be written names every package
   that is asked for, each once, in a version that meets what asked first, and the
   newest one if nobody edited the registry. *)
THEOREM LocksClose == PkgSpec => []LockCloses
<1>1. PkgInv => LockCloses
  BY DEF PkgInv
<1> QED
  BY <1>1, InvAlways, PTL

LEMMA FetchedIsImported == PkgInv => FetchedImports
<1> SUFFICES ASSUME PkgInv, pkgEver.fetched, NEW i \in DOMAIN pkgLock
             PROVE  Import(pkgLock[i].name) = [f \in Files |-> pkgLock[i].hash]
  BY DEF FetchedImports
<1> DEFINE name == pkgLock[i].name
           First(k) == FirstOf(pkgLock, k, name)
           first == CHOOSE k \in DOMAIN pkgLock : First(k)
<1>1. OncePerName(pkgLock) /\ pkgLock[i].hash # 0 /\ Cached(pkgLock[i]) /\ i \in 1..Len(pkgLock) /\ Len(pkgLock) \in Nat
  BY DEF PkgInv, LastFetch, PkgTypeOK
<1>2. First(i)
  <2>1. \A j \in 1..i - 1 : j \in DOMAIN pkgLock /\ j # i
    BY <1>1 DEF PkgInv, PkgTypeOK
  <2> QED
    BY <1>1, <2>1 DEF FirstOf, OncePerName
<1>3. first \in DOMAIN pkgLock /\ First(first)
  <2> HIDE DEF First
  <2> QED
    BY <1>2
<1>4. first = i
  BY <1>1, <1>3 DEF FirstOf, OncePerName
<1>5. Named(pkgLock, name)
  BY DEF Named
<1>6. Tree(<<pkgLock[i].name, pkgLock[i].version>>) = [f \in Files |-> pkgLock[i].hash]
  BY <1>1 DEF Tree, Cached, Id
<1>7. \A f \in Files : [g \in Files |-> pkgLock[i].hash][f] # 0
  BY <1>1
<1> HIDE DEF first
<1> QED
  BY <1>4, <1>5, <1>6, <1>7 DEF Import, first

(* fetch_locked_packages and resolve_package_import: after a fetch for which the
   registry stayed as it was, every import of a locked package finds the bytes
   that were hashed, whatever killed fetches had left in the cache and whatever
   others do to the registry, for any packages and versions. *)
THEOREM FetchesReachImports == PkgSpec => []FetchedImports
<1> QED
  BY FetchedIsImported, InvAlways, PTL
=============================================================================
