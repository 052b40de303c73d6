------------------------------ MODULE Packages ------------------------------
(* The package manager: --lock resolves the requirements of a project against a
   registry of directories and writes erelang.lock, --fetch copies the locked
   trees into the cache beside it, and an import of pkg/NAME looks there.  The
   registry belongs to others, who publish and withdraw at any time; the process
   may be killed between any two of its steps. *)
EXTENDS Integers, Sequences, FiniteSets

CONSTANTS PkgNames,    \* names of packages
          PkgVersions, \* <<major, minor, patch>>
          PkgWants,    \* requirements that manifests state
          PkgEdits,    \* bound: times the registry changes
          PkgRuns      \* bound: times --lock or --fetch is called

(* What parse_semver reads is three integers; a registry holds finitely many. *)
ASSUME PkgAssumption ==
  /\ PkgNames # {}
  /\ IsFiniteSet(PkgVersions) /\ PkgVersions \subseteq Int \X Int \X Int
  /\ PkgEdits \in Nat /\ PkgRuns \in Nat

Files == {"package.elan", "lib.elan"} \* what every published tree holds
Ids == PkgNames \X PkgVersions        \* directories <name>/<version>
Absent == [tag |-> 0, depends |-> <<>>]
Nothing == [f \in Files |-> 0]
Requirements == [name : PkgNames, want : PkgWants]
Depends(n) == UNION {[1..k -> Requirements] : k \in 0..n}

VARIABLES pkgRoot,     \* the depends of the project's own package.elan
          pkgRegistry, \* id -> [tag, depends]; tag 0: no such directory
          pkgLock,     \* entries of erelang.lock
          pkgCache,    \* id -> [dir, files]; files: name -> tag of its bytes, 0: none
          pkgCli,      \* the one process that locks and fetches
          pkgEver      \* edits and runs so far; ghosts quiet and fetched

pkgVars == <<pkgRoot, pkgRegistry, pkgLock, pkgCache, pkgCli, pkgEver>>

-----------------------------------------------------------------------------
(* Versions and requirements.  A requirement is [kind, v]; "*" takes anything. *)

Newer(v, w) ==
  \/ v[1] > w[1]
  \/ v[1] = w[1] /\ v[2] > w[2]
  \/ v[1] = w[1] /\ v[2] = w[2] /\ v[3] > w[3]
Satisfies(v, want) ==
  CASE want.kind = "any" -> TRUE
    [] want.kind = "caret" -> v[1] = want.v[1] /\ ~Newer(want.v, v)
    [] want.kind = "exact" -> v = want.v

Matching(name, want) ==
  {v \in PkgVersions : pkgRegistry[<<name, v>>].tag # 0 /\ Satisfies(v, want)}
FindNewest(name, want) == CHOOSE v \in Matching(name, want) : \A w \in Matching(name, want) : ~Newer(w, v)

-----------------------------------------------------------------------------
(* resolve_and_lock: a queue that grows while it is walked, one directory of the
   registry after the other. *)

Idle == [at |-> "idle", queue |-> <<>>, next |-> 1, entries |-> <<>>, left |-> {}]
Named(entries, name) == \E i \in DOMAIN entries : entries[i].name = name

StartLock ==
  /\ pkgCli = Idle /\ pkgEver.runs < PkgRuns
  /\ pkgCli' = [Idle EXCEPT !.at = "resolve", !.queue = pkgRoot]
  /\ pkgEver' = [pkgEver EXCEPT !.runs = @ + 1, !.quiet = TRUE]
  /\ UNCHANGED <<pkgRoot, pkgRegistry, pkgLock, pkgCache>>

(* The file holds name, version, hash and path; depends is a ghost. *)
Entry(name, v) ==
  [name |-> name, version |-> v, hash |-> pkgRegistry[<<name, v>>].tag, depends |-> pkgRegistry[<<name, v>>].depends]
QueueOfRoot(e) == pkgCli.queue
QueueWith(e) == pkgCli.queue \o e.depends
AddPkg ==
  LET d == pkgCli.queue[pkgCli.next]
      e == Entry(d.name, FindNewest(d.name, d.want))
  IN
  /\ pkgCli.at = "resolve" /\ pkgCli.next <= Len(pkgCli.queue)
  /\ pkgCli' = IF Named(pkgCli.entries, d.name) THEN [pkgCli EXCEPT !.next = @ + 1]
               ELSE IF Matching(d.name, d.want) = {} THEN Idle
               ELSE [pkgCli EXCEPT !.next = @ + 1, !.entries = Append(@, e), !.queue = QueueWith(e)]
  /\ UNCHANGED <<pkgRoot, pkgRegistry, pkgLock, pkgCache, pkgEver>>

(* The file is truncated and written in place; --lock ends there. *)
OpenLock ==
  /\ pkgCli.at = "resolve" /\ pkgCli.next > Len(pkgCli.queue)
  /\ pkgLock' = <<>> /\ pkgEver' = [pkgEver EXCEPT !.fetched = FALSE]
  /\ pkgCli' = [pkgCli EXCEPT !.at = "write", !.next = 1]
  /\ UNCHANGED <<pkgRoot, pkgRegistry, pkgCache>>
WriteEntry ==
  /\ pkgCli.at = "write" /\ pkgCli.next <= Len(pkgCli.entries)
  /\ pkgLock' = Append(pkgLock, pkgCli.entries[pkgCli.next])
  /\ pkgCli' = [pkgCli EXCEPT !.next = @ + 1]
  /\ UNCHANGED <<pkgRoot, pkgRegistry, pkgCache, pkgEver>>
CloseLock ==
  /\ pkgCli.at = "write" /\ pkgCli.next > Len(pkgCli.entries)
  /\ pkgCli' \in {Idle, [pkgCli EXCEPT !.at = "dest", !.next = 1]}
  /\ UNCHANGED <<pkgRoot, pkgRegistry, pkgLock, pkgCache, pkgEver>>

-----------------------------------------------------------------------------
(* fetch_locked_packages: files are copied over what an earlier fetch left.  A
   tree that went away is an empty one: the error of the iterator is not seen. *)

Fetching == pkgCli.entries[pkgCli.next]
Source == <<Fetching.name, Fetching.version>>
PresentUnlessCached(id) == IF pkgRegistry[id].tag = 0 \/ pkgCache[id].dir THEN {} ELSE Files
Present(id) == IF pkgRegistry[id].tag = 0 THEN {} ELSE Files

MakeDest ==
  /\ pkgCli.at = "dest" /\ pkgCli.next <= Len(pkgCli.entries)
  /\ pkgCache' = [pkgCache EXCEPT ![Source].dir = TRUE]
  /\ pkgCli' = [pkgCli EXCEPT !.at = "copy", !.left = Present(Source)]
  /\ UNCHANGED <<pkgRoot, pkgRegistry, pkgLock, pkgEver>>

CopyFile(f) ==
  /\ pkgCli.at = "copy" /\ f \in pkgCli.left /\ pkgRegistry[Source].tag # 0
  /\ pkgCache' = [pkgCache EXCEPT ![Source].files[f] = pkgRegistry[Source].tag]
  /\ pkgCli' = [pkgCli EXCEPT !.left = @ \ {f}]
  /\ UNCHANGED <<pkgRoot, pkgRegistry, pkgLock, pkgEver>>
CopyFails ==
  /\ pkgCli.at = "copy" /\ pkgCli.left # {} /\ pkgRegistry[Source].tag = 0
  /\ pkgCli' = Idle
  /\ UNCHANGED <<pkgRoot, pkgRegistry, pkgLock, pkgCache, pkgEver>>
NextEntry ==
  /\ pkgCli.at = "copy" /\ pkgCli.left = {}
  /\ pkgCli' = [pkgCli EXCEPT !.at = "dest", !.next = @ + 1]
  /\ UNCHANGED <<pkgRoot, pkgRegistry, pkgLock, pkgCache, pkgEver>>
Fetched ==
  /\ pkgCli.at = "dest" /\ pkgCli.next > Len(pkgCli.entries)
  /\ pkgCli' = Idle /\ pkgEver' = [pkgEver EXCEPT !.fetched = pkgEver.quiet]
  /\ UNCHANGED <<pkgRoot, pkgRegistry, pkgLock, pkgCache>>

Killed ==
  /\ pkgCli.at \in {"write", "dest", "copy"} /\ pkgCli' = Idle
  /\ UNCHANGED <<pkgRoot, pkgRegistry, pkgLock, pkgCache, pkgEver>>

-----------------------------------------------------------------------------
(* resolve_package_import of pkg/NAME: the tree it reads, file by file.  A cache
   directory is preferred to the registry however little it holds; only the name
   is looked up, the hash is compared nowhere. *)

Tree(id) ==
  IF pkgCache[id].dir THEN pkgCache[id].files ELSE [f \in Files |-> pkgRegistry[id].tag]
FirstOf(named, i, name) == named[i].name = name /\ \A j \in 1..i - 1 : named[j].name # name
Import(name) ==
  IF ~Named(pkgLock, name) THEN Nothing
  ELSE LET e == pkgLock[CHOOSE i \in DOMAIN pkgLock : FirstOf(pkgLock, i, name)]
           tree == Tree(<<e.name, e.version>>)
       IN IF \E f \in Files : tree[f] = 0 THEN Nothing ELSE tree

-----------------------------------------------------------------------------
(* Others change the registry: a tree is published, replaced or withdrawn. *)
Edited == pkgEver' = [pkgEver EXCEPT !.edits = @ + 1, !.quiet = FALSE]
Publish(id, depends) ==
  /\ pkgEver.edits < PkgEdits /\ Edited
  /\ pkgRegistry' = [pkgRegistry EXCEPT ![id] = [tag |-> pkgEver.edits + 2, depends |-> depends]]
  /\ UNCHANGED <<pkgRoot, pkgLock, pkgCache, pkgCli>>
Withdraw(id) ==
  /\ pkgEver.edits < PkgEdits /\ Edited
  /\ pkgRegistry[id].tag # 0 /\ pkgRegistry' = [pkgRegistry EXCEPT ![id] = Absent]
  /\ UNCHANGED <<pkgRoot, pkgLock, pkgCache, pkgCli>>

PkgIdle ==
  /\ pkgRoot = <<>> /\ pkgLock = <<>> /\ pkgCli = Idle
  /\ pkgRegistry = [id \in Ids |-> Absent]
  /\ pkgCache = [id \in Ids |-> [dir |-> FALSE, files |-> Nothing]]
  /\ pkgEver = [edits |-> 0, runs |-> 0, quiet |-> TRUE, fetched |-> FALSE]
(* At first every package has its oldest version published.  Names are alike, so
   the project asks for a fixed one of them. *)
PkgInit ==
  /\ \E want \in PkgWants : pkgRoot = <<[name |-> CHOOSE n \in PkgNames : TRUE, want |-> want]>>
  /\ pkgLock = <<>> /\ pkgCli = Idle
  /\ \E depends \in [PkgNames -> Depends(1)] :
       pkgRegistry = [id \in Ids |-> IF \A v \in PkgVersions : ~Newer(id[2], v)
                                    THEN [tag |-> 1, depends |-> depends[id[1]]] ELSE Absent]
  /\ pkgCache = [id \in Ids |-> [dir |-> FALSE, files |-> Nothing]]
  /\ pkgEver = [edits |-> 0, runs |-> 0, quiet |-> TRUE, fetched |-> FALSE]
PkgNext ==
  \/ StartLock \/ AddPkg \/ OpenLock \/ WriteEntry \/ CloseLock
  \/ MakeDest \/ CopyFails \/ NextEntry \/ Fetched \/ Killed
  \/ \E f \in Files : CopyFile(f)
  \/ \E id \in Ids : Withdraw(id) \/ \E depends \in Depends(1) : Publish(id, depends)

PkgSpec == PkgInit /\ [][PkgNext]_pkgVars

(* The types of the variables: versions and hashes of what is locked are ones a
   registry can hold, and a fetch has only files of a tree left to copy. *)
Entries == [name : PkgNames, version : PkgVersions, hash : Nat, depends : Seq(Requirements)]
PkgTypeOK ==
  /\ pkgRoot \in Seq(Requirements)
  /\ pkgRegistry \in [Ids -> [tag : Nat, depends : Seq(Requirements)]]
  /\ pkgLock \in Seq(Entries)
  /\ pkgCache \in [Ids -> [dir : BOOLEAN, files : [Files -> Nat]]]
  /\ pkgCli \in [at : {"idle", "resolve", "write", "dest", "copy"}, queue : Seq(Requirements), next : Nat \ {0},
                 entries : Seq(Entries), left : SUBSET Files]
  /\ pkgEver \in [edits : 0..PkgEdits, runs : 0..PkgRuns, quiet : BOOLEAN, fetched : BOOLEAN]

-----------------------------------------------------------------------------
(* What a complete lock says (resolve_and_lock): every package that the project
   or a locked package asks for is locked once, in the newest version that meets
   the requirement met first, as long as nobody changed the registry meanwhile. *)
RequiredBy(root, entries) ==
  LET asked[n \in 0..Len(entries)] == IF n = 0 THEN root ELSE asked[n - 1] \o entries[n].depends
  IN asked
Required(entries) == RequiredBy(pkgRoot, entries)[Len(entries)]
Meets(e, d) ==
  /\ Satisfies(e.version, d.want)
  /\ pkgEver.quiet => ~ \E v \in Matching(d.name, d.want) : Newer(v, e.version)
AskedFirst(asked, e) == \E k \in DOMAIN asked : FirstOf(asked, k, e.name) /\ Meets(e, asked[k])
OncePerName(entries) == \A i, j \in DOMAIN entries : entries[i].name = entries[j].name => i = j
Closed(entries) ==
  LET asked == Required(entries) IN
  /\ \A k \in DOMAIN asked : Named(entries, asked[k].name)
  /\ OncePerName(entries)
  /\ \A i \in DOMAIN entries : AskedFirst(asked, entries[i])
LockCloses == pkgCli.at = "write" => Closed(pkgCli.entries)

(* Once a fetch has ended for which the registry stayed as the lock had found it,
   an import of any locked package finds the bytes that were hashed, whatever
   fetches that were killed or failed had left in the cache and whatever becomes
   of the registry, until the next lock is written. *)
FetchedImports ==
  pkgEver.fetched =>
    \A i \in DOMAIN pkgLock : Import(pkgLock[i].name) = [f \in Files |-> pkgLock[i].hash]
=============================================================================
