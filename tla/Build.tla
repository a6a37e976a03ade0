-------------------------------- MODULE Build --------------------------------
(***************************************************************************)
(* src/build.rs, Project::build and src/cache.rs: building the graph of a  *)
(* source tree again and again, while people edit the tree, releases of    *)
(* the program come and go, and builds are interrupted.                    *)
(*                                                                         *)
(* A build scans the tree, then reads one file after the other, from the   *)
(* parse cache or from disk, and then applies and commits one change set.  *)
(* The graph holds the analyzer's own records only: the claims of others   *)
(* are the subject of Apply, two builds at once the subject of Project.    *)
(***************************************************************************)
EXTENDS Naturals, Sequences, FiniteSets

CONSTANTS
  Files,      \* the paths of source files, in the order of a scan
  Asset,      \* the paths of files a scan skips as binary or too large
  Parent,     \* parent_of: the directory of a path or a directory
  Root,       \* ROOT_PATH
  Language,   \* the language of each source file
  Covered,    \* the languages that have an analyzer
  Content,    \* what a file can hold; a digest stands for it
  Name,       \* the qualified names of declarations
  Version,    \* the GRAPH_SCHEMA_VERSIONs of the releases of the program
  Parse,      \* what a release reads out of a content in a language
  MaxBuilds,  \* bound on the builds that commit
  MaxEdits,   \* bound on the changes around them
  Broken,     \* a cache entry that does not decode
  Nothing     \* no file, no entry, no part of an identifier

Path == {Files[i] : i \in DOMAIN Files}
Directory == {Parent[x] : x \in DOMAIN Parent} \union {Root}

\* The items of a file in order, with the names each refers to, the files the
\* file imports, and the handlers of the routes a framework finds in it.
FileAnalysis == [items : Seq([name : Name, references : SUBSET Name]),
                 imports : SUBSET (Path \union Asset), routes : SUBSET Name]

\* StructuralParseCacheKey.
Key == [digest : Content, language : Covered, version : Version]

ASSUME BuildAssumption ==
  /\ Files \in Seq(Path)
  /\ \A i, j \in DOMAIN Files : Files[i] = Files[j] => i = j
  /\ Path \subseteq DOMAIN Parent
  /\ \A d \in Directory \ {Root} : d \in DOMAIN Parent
  /\ Path \subseteq DOMAIN Language
  /\ Parse \in [Key -> FileAnalysis]
  /\ MaxBuilds \in Nat
  /\ MaxEdits \in Nat
  /\ Broken \notin Content
  /\ Nothing \notin Content

VARIABLES
  tree,     \* what each source file holds
  present,  \* the assets that are there
  version,  \* GRAPH_SCHEMA_VERSION of the program in use
  cache,    \* the content whose parse each entry of the project tier holds
  graph,    \* the records of the analyzer in the committed graph
  pc,       \* "idle", or "reading" the files of a scan
  scan,     \* the digests and the skipped files the scan found
  at,       \* where in Files the next file of the scan is looked for
  units,    \* what pass one has learned of the files before it
  builds,   \* how many builds have committed
  edits,    \* how many changes were made around them
  settled,  \* history: a build has ended and nothing was changed since it began
  missed    \* history: a file was once not read as it was scanned

vars == <<tree, present, version, cache, graph, pc, scan, at, units, builds, edits,
          settled, missed>>

around == <<tree, present, version>>
build == <<pc, scan, at, units>>

EmptyGraph == [files |-> {}, items |-> {}, routes |-> {}, directories |-> {},
               assets |-> {}, edges |-> {}]

NoScan == [digest |-> [p \in Path |-> Nothing], skipped |-> {}]

Init ==
  /\ tree \in [Path -> Content \union {Nothing}]
  /\ present \in SUBSET Asset
  /\ version \in Version
  /\ cache = [k \in Key |-> Nothing]
  /\ graph = EmptyGraph
  /\ pc = "idle"
  /\ scan = NoScan
  /\ at = 1
  /\ units = {}
  /\ builds = 0
  /\ edits = 0
  /\ settled = FALSE
  /\ missed = FALSE

-----------------------------------------------------------------------------
(* Identity *)

\* Minter never gives an identifier twice: one minted in this build is told
\* apart by the build and by what it was minted for.
Minted(kind, path, name, ordinal) ==
  [born |-> builds, kind |-> kind, path |-> path, name |-> name, ordinal |-> ordinal]

Nodes(g) == g.files \union g.items \union g.routes \union g.directories \union g.assets

existing_unit(g, path) == {f \in g.files : f.path = path}

UnitOf(g, path) ==
  IF existing_unit(g, path) = {} THEN Minted("unit", path, Nothing, 0)
  ELSE (CHOOSE f \in existing_unit(g, path) : TRUE).unit

FileId(g, path) ==
  IF existing_unit(g, path) = {} THEN Minted("file", path, Nothing, 0)
  ELSE (CHOOSE f \in existing_unit(g, path) : TRUE).id

\* Mutant: occurrences are stored from zero and looked up from one.
existing_names_from_one(g, unit, name, ordinal) ==
  {i \in g.items : i.unit = unit /\ i.name = name /\ i.ordinal = ordinal + 1}

\* A name need not be unique in a file, so its occurrence belongs to the key.
existing_names(g, unit, name, ordinal) ==
  {i \in g.items : i.unit = unit /\ i.name = name /\ i.ordinal = ordinal}

ItemId(g, path, name, ordinal) ==
  LET known == existing_names(g, UnitOf(g, path), name, ordinal)
  IN IF known = {} THEN Minted("item", path, name, ordinal)
     ELSE (CHOOSE i \in known : TRUE).id

DirectoryId(g, path) ==
  LET known == {d \in g.directories : d.path = path}
  IN IF known = {} THEN Minted("directory", path, Nothing, 0)
     ELSE (CHOOSE d \in known : TRUE).id

AssetId(g, path) ==
  LET known == {a \in g.assets : a.path = path}
  IN IF known = {} THEN Minted("asset", path, Nothing, 0)
     ELSE (CHOOSE a \in known : TRUE).id

TreeUnit(g) ==
  IF g.directories = {} THEN Minted("tree", Root, Nothing, 0)
  ELSE (CHOOSE d \in g.directories : TRUE).unit

analyzed_units(g) == {n.unit : n \in Nodes(g)}

-----------------------------------------------------------------------------
(* draft() *)

\* What was read out of a file, which is nothing when it was only recorded.
Analysis(u) ==
  IF u.source # Nothing
  THEN Parse[[digest |-> u.source, language |-> Language[u.path], version |-> version]]
  ELSE [items |-> <<>>, imports |-> {}, routes |-> {}]

\* plan_item(): every occurrence of a name in one file is a record of its own.
Occurrence(items, i) == Cardinality({j \in 1 .. i - 1 : items[j].name = items[i].name})

Planned(g, us) ==
  UNION {LET items == Analysis(u).items
         IN {[id |-> ItemId(g, u.path, items[i].name, Occurrence(items, i)),
              unit |-> UnitOf(g, u.path), path |-> u.path, name |-> items[i].name,
              ordinal |-> Occurrence(items, i), references |-> items[i].references] :
              i \in DOMAIN items} : u \in us}

\* A name that two records of the build carry answers nothing.
Resolved(planned, name) ==
  LET named == {r \in planned : r.name = name}
  IN IF Cardinality(named) = 1 THEN named ELSE {}

\* The directory of a path, and that of every directory but the root.
Ancestors(path) ==
  {d \in Directory : \A climbed \in SUBSET Directory :
     /\ Parent[path] \in climbed
     /\ \A x \in climbed \ {Root} : Parent[x] \in climbed
     => d \in climbed}

Edge(from, to, relation, unit) ==
  [from |-> from, to |-> to, relation |-> relation, unit |-> unit]

Calls(planned) ==
  UNION {{Edge(r.id, to.id, "CALLS", r.unit) :
            to \in UNION {Resolved(planned, n) : n \in r.references}} : r \in planned}

\* A route is a record of its own, minted anew by every build.
Routes(g, us) ==
  UNION {{[id |-> Minted("route", u.path, h, 0), unit |-> UnitOf(g, u.path),
           path |-> u.path, name |-> h] : h \in Analysis(u).routes} : u \in us}

\* Its handler is looked for in the file of the route alone.
RouteEdges(g, routes, planned) ==
  UNION {{Edge(FileId(g, x.path), x.id, "CONTAINS", x.unit)} \union
         {Edge(x.id, r.id, "HANDLED_BY", x.unit) :
            r \in {r \in planned : r.path = x.path /\ r.name = x.name /\ r.ordinal = 0}} :
          x \in routes}

\* What the scan skipped is recorded when a file imports it.
Assets(us, skipped) == {a \in skipped : \E u \in us : a \in Analysis(u).imports}

ImportEdges(g, us, assets) ==
  UNION {{Edge(FileId(g, u.path), FileId(g, v.path), "IMPORTS", UnitOf(g, u.path)) :
            v \in {v \in us : v.path \in Analysis(u).imports /\ v # u}} \union
         {Edge(FileId(g, u.path), AssetId(g, a), "IMPORTS", UnitOf(g, u.path)) :
            a \in Analysis(u).imports \intersect assets} : u \in us}

Directories(us) == UNION {Ancestors(u.path) : u \in us}

TreeEdges(g, us) ==
  {Edge(DirectoryId(g, Parent[d]), DirectoryId(g, d), "CONTAINS", TreeUnit(g)) :
     d \in Directories(us) \ {Root}} \union
  {Edge(DirectoryId(g, Parent[u.path]), FileId(g, u.path), "CONTAINS", TreeUnit(g)) :
     u \in us}

\* The records a build asserts.
Draft(g, us, skipped) ==
  LET planned == Planned(g, us)
      routes == Routes(g, us)
      assets == Assets(us, skipped)
  IN [files |-> {[id |-> FileId(g, u.path), unit |-> UnitOf(g, u.path), path |-> u.path,
                  digest |-> u.digest, version |-> version, analyzed |-> u.source # Nothing] :
                  u \in us},
      items |-> {[id |-> r.id, unit |-> r.unit, path |-> r.path, name |-> r.name,
                  ordinal |-> r.ordinal] : r \in planned},
      routes |-> routes,
      directories |-> {[id |-> DirectoryId(g, d), unit |-> TreeUnit(g), path |-> d] :
                        d \in Directories(us)},
      assets |-> {[id |-> AssetId(g, a), unit |-> TreeUnit(g), path |-> a] : a \in assets},
      edges |-> {Edge(FileId(g, r.path), r.id, "CONTAINS", r.unit) : r \in planned}
                \union Calls(planned) \union RouteEdges(g, routes, planned)
                \union ImportEdges(g, us, assets) \union TreeEdges(g, us)]

\* A change set that names an identifier twice is refused.
Refused(draft) == \E m, n \in Nodes(draft) : m # n /\ m.id = n.id

\* Every unit the build holds, the tree, and every unit that has departed.
Withdrawn(g, us) ==
  {UnitOf(g, u.path) : u \in us} \union
  (IF us # {} \/ g.directories # {} THEN {TreeUnit(g)} ELSE {}) \union
  analyzed_units(g)

\* apply(): the withdrawn units lose their records, then the draft is stated.
Applied(g, us, draft) ==
  LET gone == Withdrawn(g, us)
      Kept(records) == {r \in records : r.unit \notin gone}
  IN [files |-> Kept(g.files) \union draft.files,
      items |-> Kept(g.items) \union draft.items,
      routes |-> Kept(g.routes) \union draft.routes,
      directories |-> Kept(g.directories) \union draft.directories,
      assets |-> Kept(g.assets) \union draft.assets,
      edges |-> Kept(g.edges) \union draft.edges]

-----------------------------------------------------------------------------
(* A build *)

Found == [digest |-> tree, skipped |-> present]

\* Mutant: a record written by an earlier release is as good as a new one.
every_file_unchanged_any_version ==
  /\ \E p \in Path : tree[p] # Nothing
  /\ \A p \in Path : tree[p] # Nothing =>
       \E f \in existing_unit(graph, p) : f.digest = tree[p]
  /\ \A unit \in analyzed_units(graph) :
       \/ \E f \in graph.files : f.unit = unit /\ tree[f.path] # Nothing
       \/ graph.directories # {} /\ unit = TreeUnit(graph)

\* Every scanned file has a record of its digest and of this release, and every
\* unit belongs to such a file or to the tree.
every_file_unchanged ==
  /\ \E p \in Path : tree[p] # Nothing
  /\ \A p \in Path : tree[p] # Nothing =>
       \E f \in existing_unit(graph, p) : f.digest = tree[p] /\ f.version = version
  /\ \A unit \in analyzed_units(graph) :
       \/ \E f \in graph.files : f.unit = unit /\ tree[f.path] # Nothing
       \/ graph.directories # {} /\ unit = TreeUnit(graph)

\* The tree is scanned, and nothing is read if it is unchanged.
Start ==
  /\ pc = "idle"
  /\ builds < MaxBuilds
  /\ \E rebuild \in BOOLEAN :
       IF ~rebuild /\ every_file_unchanged
       THEN UNCHANGED build
       ELSE /\ pc' = "reading"
            /\ scan' = Found
            /\ at' = 1
            /\ units' = {}
  /\ settled' = TRUE
  /\ UNCHANGED <<around, cache, graph, builds, edits, missed>>

\* The next file of the scan, if there is one.
Turn == {i \in at .. Len(Files) :
           /\ scan.digest[Files[i]] # Nothing
           /\ \A j \in at .. i - 1 : scan.digest[Files[j]] = Nothing}

CacheKey(path) ==
  [digest |-> scan.digest[path], language |-> Language[path], version |-> version]

\* `source` is the content the analysis of this file was made of.
Learn(i, digest, source) ==
  /\ units' = units \union {[path |-> Files[i], digest |-> digest, source |-> source]}
  /\ at' = i + 1
  /\ UNCHANGED <<around, graph, pc, scan, builds, edits, settled>>

\* A language without an analyzer: the bytes are not read.
RecordFile ==
  /\ pc = "reading"
  /\ \E i \in Turn :
       /\ Language[Files[i]] \notin Covered
       /\ Learn(i, scan.digest[Files[i]], Nothing)
  /\ UNCHANGED <<cache, missed>>

\* Mutant: an entry is served whether it decodes or not.
DecodesAnything(entry) == entry # Nothing

\* decode_analysis().
Decodes(entry) == entry \in Content

\* Mutant: the record of a cached parse has the digest the scan found.
CacheHitScanned ==
  /\ pc = "reading"
  /\ \E i \in Turn :
       /\ Language[Files[i]] \in Covered
       /\ Decodes(cache[CacheKey(Files[i])])
       /\ Learn(i, scan.digest[Files[i]], cache[CacheKey(Files[i])])
  /\ UNCHANGED <<cache, missed>>

\* The parse has the digest of the content it was made of.
CacheHit ==
  /\ pc = "reading"
  /\ \E i \in Turn :
       LET entry == cache[CacheKey(Files[i])]
       IN /\ Language[Files[i]] \in Covered
          /\ Decodes(entry)
          /\ Learn(i, entry, entry)
  /\ UNCHANGED <<cache, missed>>

\* The file is read as it is now, and its parse stored under the digest of the
\* scan; an entry that did not decode was removed, and storing may fail.
ReadFile ==
  /\ pc = "reading"
  /\ \E i \in Turn :
       LET found == tree[Files[i]]
           key == CacheKey(Files[i])
       IN /\ Language[Files[i]] \in Covered
          /\ ~Decodes(cache[key])
          /\ found # Nothing
          /\ Learn(i, found, found)
          /\ \E stored \in {found, Nothing} : cache' = [cache EXCEPT ![key] = stored]
          /\ missed' = (missed \/ found # scan.digest[Files[i]])

\* The file is gone, or this read of it fails: it is recorded as it was scanned.
ReadFails ==
  /\ pc = "reading"
  /\ \E i \in Turn :
       LET key == CacheKey(Files[i])
       IN /\ Language[Files[i]] \in Covered
          /\ ~Decodes(cache[key])
          /\ Learn(i, scan.digest[Files[i]], Nothing)
          /\ cache' = [cache EXCEPT ![key] = Nothing]
  /\ missed' = TRUE

\* Project::build: an empty change set commits nothing, one that is refused
\* leaves the graph as it was.
Commit ==
  /\ pc = "reading"
  /\ Turn = {}
  /\ LET draft == Draft(graph, units, scan.skipped)
     IN IF (units = {} /\ analyzed_units(graph) = {}) \/ Refused(draft)
        THEN UNCHANGED <<graph, builds>>
        ELSE /\ graph' = Applied(graph, units, draft)
             /\ builds' = builds + 1
  /\ pc' = "idle"
  /\ scan' = NoScan
  /\ at' = 1
  /\ units' = {}
  /\ UNCHANGED <<around, cache, edits, settled, missed>>

-----------------------------------------------------------------------------
(* The environment *)

Around ==
  /\ edits < MaxEdits
  /\ edits' = edits + 1
  /\ settled' = FALSE
  /\ UNCHANGED <<graph, build, builds, missed>>

\* Somebody writes, moves or deletes a source file.
Edit ==
  /\ Around
  /\ \E p \in Path, c \in Content \union {Nothing} :
       c # tree[p] /\ tree' = [tree EXCEPT ![p] = c]
  /\ UNCHANGED <<present, version, cache>>

EditAsset ==
  /\ Around
  /\ \E a \in Asset : present' = IF a \in present THEN present \ {a} ELSE present \union {a}
  /\ UNCHANGED <<tree, version, cache>>

\* Another release of the program is installed.
Upgrade ==
  /\ pc = "idle"
  /\ Around
  /\ version' \in Version \ {version}
  /\ UNCHANGED <<tree, present, cache>>

\* An entry of the cache is damaged.
Damage ==
  /\ edits < MaxEdits
  /\ edits' = edits + 1
  /\ \E k \in Key : cache[k] \in Content /\ cache' = [cache EXCEPT ![k] = Broken]
  /\ UNCHANGED <<around, graph, build, builds, settled, missed>>

\* The build is killed; what it put into the cache stays.
Crash ==
  /\ pc = "reading"
  /\ pc' = "idle"
  /\ scan' = NoScan
  /\ at' = 1
  /\ units' = {}
  /\ settled' = FALSE
  /\ UNCHANGED <<around, cache, graph, builds, edits, missed>>

Next ==
  \/ Start \/ RecordFile \/ CacheHit \/ ReadFile \/ ReadFails \/ Commit
  \/ Edit \/ EditAsset \/ Upgrade \/ Damage \/ Crash

Spec == Init /\ [][Next]_vars

-----------------------------------------------------------------------------
(* Properties *)

\* Every variable holds a value of its kind, no two records share an
\* identifier, and every edge connects two of them.
TypeOK ==
  /\ tree \in [Path -> Content \union {Nothing}]
  /\ present \subseteq Asset
  /\ version \in Version
  /\ cache \in [Key -> Content \union {Nothing, Broken}]
  /\ pc \in {"idle", "reading"}
  /\ at \in 1 .. Len(Files) + 1
  /\ scan.digest \in [Path -> Content \union {Nothing}]
  /\ \A u \in units : u.path \in Path /\ u.digest \in Content /\ u.source \in Content \union {Nothing}
  /\ builds \in 0 .. MaxBuilds
  /\ edits \in 0 .. MaxEdits
  /\ \A f \in graph.files : f.digest \in Content /\ f.version \in Version
  /\ ~Refused(graph)
  /\ \A e \in graph.edges : {e.from, e.to} \subseteq {n.id : n \in Nodes(graph)}

\* The change set that a build is about to apply names no identifier twice, so it is
\* not refused: what existing_unit(), existing_names() and their like find again in the
\* committed graph never comes out for two things (build.rs:1417 tells of the time it
\* did).
DraftAccepted ==
  pc = "reading" /\ Turn = {} => ~Refused(Draft(graph, units, scan.skipped))

\* The declarations recorded under a file are those of the content its digest
\* names, however the file, the scan and the cache have moved meanwhile: a
\* record never describes other bytes than it says.
RecordsMatchDigest ==
  \A f \in graph.files :
    {[name |-> i.name, ordinal |-> i.ordinal] : i \in {i \in graph.items : i.unit = f.unit}} =
    LET items == IF f.analyzed
                 THEN Parse[[digest |-> f.digest, language |-> Language[f.path],
                             version |-> f.version]].items
                 ELSE <<>>
    IN {[name |-> items[k].name, ordinal |-> Occurrence(items, k)] : k \in DOMAIN items}

\* What a graph says, whatever its identifiers are.
Said(n) == IF "name" \in DOMAIN n THEN <<n.path, n.name>> ELSE <<n.path>>
Saying(g, id) == Said(CHOOSE n \in Nodes(g) : n.id = id)

SaysOfFiles(g) ==
  [files |-> {<<f.path, f.digest, f.version, f.analyzed>> : f \in g.files},
   items |-> {<<i.path, i.name, i.ordinal>> : i \in g.items},
   routes |-> {Said(r) : r \in g.routes},
   directories |-> {Said(d) : d \in g.directories},
   edges |-> {<<Saying(g, e.from), Saying(g, e.to), e.relation>> :
                e \in {e \in g.edges : e.to \notin {a.id : a \in g.assets}}}]

SaysOfAssets(g) ==
  {<<Saying(g, e.from), Saying(g, e.to)>> :
     e \in {e \in g.edges : e.to \in {a.id : a \in g.assets}}}

\* The graph a first build makes of the tree, when it reads it as it is.
FreshBuild ==
  Draft(EmptyGraph,
        {[path |-> p, digest |-> tree[p],
          source |-> IF Language[p] \in Covered THEN tree[p] ELSE Nothing] :
           p \in {p \in Path : tree[p] # Nothing}},
        present)

Quiet == pc = "idle" /\ settled /\ ~missed

\* A build leaves what a first build of the same tree would, whatever was built,
\* cached, interrupted or released before: a graph does not depend on how it was
\* built.
GraphMatchesTree == Quiet => SaysOfFiles(graph) = SaysOfFiles(FreshBuild)

\* The same for the assets the files import.
AssetsMatchTree == Quiet => SaysOfAssets(graph) = SaysOfAssets(FreshBuild)

\* What a build finds again keeps its identifier: files and directories by their
\* path, declarations by their file, name and occurrence.
IdentityKept ==
  [][ /\ \A f \in graph.files, h \in graph'.files :
           f.path = h.path => f.id = h.id /\ f.unit = h.unit
      /\ \A i \in graph.items, j \in graph'.items :
           i.path = j.path /\ i.name = j.name /\ i.ordinal = j.ordinal => i.id = j.id
      /\ \A d \in graph.directories, e \in graph'.directories :
           d.path = e.path => d.id = e.id /\ d.unit = e.unit
      /\ \A x \in graph.assets, y \in graph'.assets : x.path = y.path => x.id = y.id
    ]_graph

=============================================================================
