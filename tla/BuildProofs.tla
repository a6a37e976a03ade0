----------------------------- MODULE BuildProofs -----------------------------
(***************************************************************************)
(* Repeated builds, for every tree, every analyzer, every sequence of      *)
(* edits, releases, damaged entries and crashes: a committed graph is well *)
(* formed, its records describe the bytes whose digest they carry, what a  *)
(* build finds again keeps its identifier, and a settled build leaves what *)
(* a first build of the same tree would.                                   *)
(*                                                                         *)
(* Two arguments.  Identifiers are found by what they stand for: a lookup  *)
(* by path, or by file, name and occurrence, has at most one answer in a   *)
(* graph a build has made (Known), so the graph of the next build is of    *)
(* that kind again.  And what a draft says depends on the release and on   *)
(* what was read (DraftSays), not on the identifiers it takes over, so the *)
(* graph of a build that read its files as they were scanned says what the *)
(* first build says, and the files recorded in a graph tell which it was   *)
(* (GraphSays), which is what a build that reads nothing relies on.        *)
(***************************************************************************)
EXTENDS Build, FiniteSetTheorems, WellFoundedInduction, TLAPS

\* Each path has one file, and its identifiers stand for that path.
FilesKnown(g) ==
  /\ \A f \in g.files : /\ f.id.kind = "file" /\ f.id.path = f.path
                        /\ f.unit.kind = "unit" /\ f.unit.path = f.path
  /\ \A f, h \in g.files : f.path = h.path => f = h

InAFile(g, n) == \E f \in g.files : f.path = n.path /\ f.unit = n.unit

\* Each occurrence of a name in a file is one item of that file's unit.
ItemsKnown(g) ==
  /\ \A i \in g.items : /\ i.id.kind = "item" /\ i.id.path = i.path
                        /\ i.id.name = i.name /\ i.id.ordinal = i.ordinal
                        /\ InAFile(g, i)
  /\ \A i, j \in g.items :
       i.path = j.path /\ i.name = j.name /\ i.ordinal = j.ordinal => i = j

RoutesKnown(g) ==
  /\ \A r \in g.routes : /\ r.id.kind = "route" /\ r.id.path = r.path
                         /\ r.id.name = r.name
                         /\ InAFile(g, r)
  /\ \A r, q \in g.routes : r.path = q.path /\ r.name = q.name => r = q

\* All directories are in one unit, and each path has one of them.
DirectoriesKnown(g) ==
  /\ \A d \in g.directories : d.id.kind = "directory" /\ d.id.path = d.path
  /\ \A d, e \in g.directories : d.unit = e.unit /\ (d.path = e.path => d = e)

AssetsKnown(g) ==
  /\ \A a \in g.assets : a.id.kind = "asset" /\ a.id.path = a.path
  /\ \A a, x \in g.assets : a.path = x.path => a = x

Known(g) ==
  FilesKnown(g) /\ ItemsKnown(g) /\ RoutesKnown(g) /\ DirectoriesKnown(g) /\ AssetsKnown(g)

Ids(g) == {n.id : n \in Nodes(g)}

\* Every edge joins two records and belongs to the unit of one.
EdgesOwned(g) ==
  \A e \in g.edges : e.from \in Ids(g) /\ e.to \in Ids(g) /\ e.unit \in analyzed_units(g)

FilesTyped(g) == \A f \in g.files : f.digest \in Content /\ f.version \in Version

\* What was learned of the files before `at`, of each of them once.
UnitsKnown ==
  /\ \A u \in units : /\ u.digest \in Content
                      /\ u.source \in Content \union {Nothing}
                      /\ u.source # Nothing => u.digest = u.source
                      /\ \E k \in 1 .. at - 1 : k \in DOMAIN Files /\ u.path = Files[k]
  /\ \A u, v \in units : u.path = v.path => u = v

-----------------------------------------------------------------------------
(* Identifiers stand for what they were looked up by *)

LEMMA MintedFields ==
  ASSUME NEW k, NEW p, NEW n, NEW o
  PROVE  /\ Minted(k, p, n, o).kind = k /\ Minted(k, p, n, o).path = p
         /\ Minted(k, p, n, o).name = n /\ Minted(k, p, n, o).ordinal = o
BY DEF Minted

LEMMA UnitOfPath ==
  ASSUME NEW g, FilesKnown(g), NEW p
  PROVE  UnitOf(g, p).kind = "unit" /\ UnitOf(g, p).path = p
<1>1. CASE existing_unit(g, p) = {}
  BY <1>1, MintedFields DEF UnitOf
<1>2. CASE existing_unit(g, p) # {}
  <2>1. (CHOOSE f \in existing_unit(g, p) : TRUE) \in existing_unit(g, p)
    BY <1>2
  <2>2. QED BY <1>2, <2>1 DEF UnitOf, existing_unit, FilesKnown
<1>3. QED BY <1>1, <1>2

LEMMA FileIdPath ==
  ASSUME NEW g, FilesKnown(g), NEW p
  PROVE  FileId(g, p).kind = "file" /\ FileId(g, p).path = p
<1>1. CASE existing_unit(g, p) = {}
  BY <1>1, MintedFields DEF FileId
<1>2. CASE existing_unit(g, p) # {}
  <2>1. (CHOOSE f \in existing_unit(g, p) : TRUE) \in existing_unit(g, p)
    BY <1>2
  <2>2. QED BY <1>2, <2>1 DEF FileId, existing_unit, FilesKnown
<1>3. QED BY <1>1, <1>2

\* The file a path has is the one its identifiers come from.
LEMMA FileFound ==
  ASSUME NEW g, FilesKnown(g), NEW f \in g.files
  PROVE  UnitOf(g, f.path) = f.unit /\ FileId(g, f.path) = f.id
<1>1. existing_unit(g, f.path) = {f}
  BY DEF existing_unit, FilesKnown
<1>2. (CHOOSE h \in existing_unit(g, f.path) : TRUE) = f
  BY <1>1
<1>3. QED BY <1>1, <1>2 DEF UnitOf, FileId

LEMMA ItemIdName ==
  ASSUME NEW g, FilesKnown(g), ItemsKnown(g), NEW p, NEW n, NEW o
  PROVE  LET id == ItemId(g, p, n, o)
         IN id.kind = "item" /\ id.path = p /\ id.name = n /\ id.ordinal = o
<1> DEFINE known == existing_names(g, UnitOf(g, p), n, o)
<1>1. CASE known = {}
  BY <1>1, MintedFields DEF ItemId
<1>2. CASE known # {}
  <2>1. PICK i \in known : i = CHOOSE j \in known : TRUE
    BY <1>2
  <2>2. i \in g.items /\ i.unit = UnitOf(g, p) /\ i.name = n /\ i.ordinal = o
    BY <2>1 DEF existing_names
  <2>3. i.unit.path = i.path
    BY <2>2 DEF ItemsKnown, InAFile, FilesKnown
  <2>4. i.path = p
    BY <2>2, <2>3, UnitOfPath
  <2>5. ItemId(g, p, n, o) = i.id
    BY <1>2, <2>1 DEF ItemId
  <2>6. QED BY <2>2, <2>4, <2>5 DEF ItemsKnown
<1>3. QED BY <1>1, <1>2

\* An item keeps the identifier it has.
LEMMA ItemFound ==
  ASSUME NEW g, FilesKnown(g), ItemsKnown(g), NEW i \in g.items
  PROVE  ItemId(g, i.path, i.name, i.ordinal) = i.id
<1> DEFINE known == existing_names(g, UnitOf(g, i.path), i.name, i.ordinal)
<1>1. PICK f \in g.files : f.path = i.path /\ f.unit = i.unit
  BY DEF ItemsKnown, InAFile
<1>2. UnitOf(g, i.path) = i.unit
  BY <1>1, FileFound
<1>3. i \in known
  BY <1>2 DEF existing_names
<1>4. ASSUME NEW j \in known PROVE j = i
  <2>1. j \in g.items /\ j.unit = i.unit /\ j.name = i.name /\ j.ordinal = i.ordinal
    BY <1>2 DEF existing_names
  <2>2. j.unit.path = j.path /\ i.unit.path = i.path
    BY <2>1 DEF ItemsKnown, InAFile, FilesKnown
  <2>3. QED BY <2>1, <2>2 DEF ItemsKnown
<1>5. (CHOOSE j \in known : TRUE) = i
  BY <1>3, <1>4
<1>6. QED BY <1>3, <1>5 DEF ItemId

LEMMA DirectoryIdPath ==
  ASSUME NEW g, DirectoriesKnown(g), NEW p
  PROVE  /\ DirectoryId(g, p).kind = "directory" /\ DirectoryId(g, p).path = p
         /\ \A d \in g.directories : d.path = p => DirectoryId(g, p) = d.id
<1> DEFINE known == {d \in g.directories : d.path = p}
<1>1. CASE known = {}
  BY <1>1, MintedFields DEF DirectoryId
<1>2. CASE known # {}
  <2>1. PICK d \in known : d = CHOOSE x \in known : TRUE
    BY <1>2
  <2>2. DirectoryId(g, p) = d.id
    BY <1>2, <2>1 DEF DirectoryId
  <2>3. QED BY <2>2 DEF DirectoriesKnown
<1>3. QED BY <1>1, <1>2

LEMMA AssetIdPath ==
  ASSUME NEW g, AssetsKnown(g), NEW p
  PROVE  /\ AssetId(g, p).kind = "asset" /\ AssetId(g, p).path = p
         /\ \A a \in g.assets : a.path = p => AssetId(g, p) = a.id
<1> DEFINE known == {a \in g.assets : a.path = p}
<1>1. CASE known = {}
  BY <1>1, MintedFields DEF AssetId
<1>2. CASE known # {}
  <2>1. PICK a \in known : a = CHOOSE x \in known : TRUE
    BY <1>2
  <2>2. AssetId(g, p) = a.id
    BY <1>2, <2>1 DEF AssetId
  <2>3. QED BY <2>2 DEF AssetsKnown
<1>3. QED BY <1>1, <1>2

LEMMA TreeUnitFound ==
  ASSUME NEW g, DirectoriesKnown(g), NEW d \in g.directories
  PROVE  TreeUnit(g) = d.unit
<1>1. (CHOOSE x \in g.directories : TRUE) \in g.directories
  OBVIOUS
<1>2. QED BY <1>1 DEF TreeUnit, DirectoriesKnown

-----------------------------------------------------------------------------
(* The records of a build *)

\* What pass one has learned of each file, once.
Distinct(us) == \A u, v \in us : u.path = v.path => u = v

LEMMA PlannedRecord ==
  ASSUME NEW g, NEW us, NEW r \in Planned(g, us)
  PROVE  \E u \in us :
           LET items == Analysis(u).items
           IN \E k \in DOMAIN items :
                r = [id |-> ItemId(g, u.path, items[k].name, Occurrence(items, k)),
                     unit |-> UnitOf(g, u.path), path |-> u.path, name |-> items[k].name,
                     ordinal |-> Occurrence(items, k), references |-> items[k].references]
BY DEF Planned

\* The parts of a draft, one by one.
LEMMA DraftParts ==
  ASSUME NEW g, NEW us, NEW skipped
  PROVE  LET d == Draft(g, us, skipped)
         IN /\ d.files = {[id |-> FileId(g, u.path), unit |-> UnitOf(g, u.path),
                           path |-> u.path, digest |-> u.digest, version |-> version,
                           analyzed |-> u.source # Nothing] : u \in us}
            /\ d.items = {[id |-> r.id, unit |-> r.unit, path |-> r.path, name |-> r.name,
                           ordinal |-> r.ordinal] : r \in Planned(g, us)}
            /\ d.routes = Routes(g, us)
            /\ d.directories = {[id |-> DirectoryId(g, p), unit |-> TreeUnit(g), path |-> p] :
                                  p \in Directories(us)}
            /\ d.assets = {[id |-> AssetId(g, a), unit |-> TreeUnit(g), path |-> a] :
                             a \in Assets(us, skipped)}
            /\ d.edges = {Edge(FileId(g, r.path), r.id, "CONTAINS", r.unit) :
                            r \in Planned(g, us)}
                         \union Calls(Planned(g, us))
                         \union RouteEdges(g, Routes(g, us), Planned(g, us))
                         \union ImportEdges(g, us, Assets(us, skipped))
                         \union TreeEdges(g, us)
BY DEF Draft

\* Each record of a draft stands for one thing a build has seen.
LEMMA DraftKnown ==
  ASSUME NEW g, Known(g), NEW us, Distinct(us), NEW skipped
  PROVE  Known(Draft(g, us, skipped))
<1> DEFINE d == Draft(g, us, skipped)
<1>1. FilesKnown(d)
  <2>1. ASSUME NEW f \in d.files
        PROVE  /\ f.id.kind = "file" /\ f.id.path = f.path
               /\ f.unit.kind = "unit" /\ f.unit.path = f.path
    BY <2>1, DraftParts, UnitOfPath, FileIdPath DEF Known
  <2>2. ASSUME NEW f \in d.files, NEW h \in d.files, f.path = h.path PROVE f = h
    BY <2>2, DraftParts DEF Distinct
  <2>3. QED BY <2>1, <2>2 DEF FilesKnown
<1>2. ASSUME NEW u \in us, NEW n, n.path = u.path, n.unit = UnitOf(g, u.path)
      PROVE  InAFile(d, n)
  <2> DEFINE f == [id |-> FileId(g, u.path), unit |-> UnitOf(g, u.path), path |-> u.path,
                   digest |-> u.digest, version |-> version, analyzed |-> u.source # Nothing]
  <2>1. f \in d.files
    BY DraftParts
  <2>2. f.path = n.path /\ f.unit = n.unit
    BY <1>2
  <2>3. QED BY <2>1, <2>2 DEF InAFile
<1>3. ItemsKnown(d)
  <2>1. ASSUME NEW i \in d.items
        PROVE  /\ i.id = ItemId(g, i.path, i.name, i.ordinal)
               /\ i.unit = UnitOf(g, i.path)
               /\ i = [id |-> i.id, unit |-> i.unit, path |-> i.path, name |-> i.name,
                       ordinal |-> i.ordinal]
               /\ \E u \in us : i.path = u.path
    <3>1. PICK r \in Planned(g, us) : i = [id |-> r.id, unit |-> r.unit, path |-> r.path,
                                           name |-> r.name, ordinal |-> r.ordinal]
      BY DraftParts
    <3>2. QED BY <3>1, PlannedRecord
  <2>2. ASSUME NEW i \in d.items
        PROVE  /\ i.id.kind = "item" /\ i.id.path = i.path
               /\ i.id.name = i.name /\ i.id.ordinal = i.ordinal
               /\ InAFile(d, i)
    <3>1. /\ i.id.kind = "item" /\ i.id.path = i.path
          /\ i.id.name = i.name /\ i.id.ordinal = i.ordinal
      BY <2>1, ItemIdName DEF Known
    <3>2. InAFile(d, i)
      BY <2>1, <1>2
    <3>3. QED BY <3>1, <3>2
  <2>3. ASSUME NEW i \in d.items, NEW j \in d.items,
               i.path = j.path, i.name = j.name, i.ordinal = j.ordinal
        PROVE  i = j
    BY <2>1, <2>3
  <2>4. QED BY <2>2, <2>3 DEF ItemsKnown
<1>4. RoutesKnown(d)
  <2>1. ASSUME NEW r \in d.routes
        PROVE  \E u \in us : \E h :
                 r = [id |-> Minted("route", u.path, h, 0), unit |-> UnitOf(g, u.path),
                      path |-> u.path, name |-> h]
    BY DraftParts DEF Routes
  <2>2. ASSUME NEW r \in d.routes
        PROVE  /\ r.id.kind = "route" /\ r.id.path = r.path /\ r.id.name = r.name
               /\ InAFile(d, r)
    <3>1. r.id.kind = "route" /\ r.id.path = r.path /\ r.id.name = r.name
      BY <2>1, MintedFields
    <3>2. InAFile(d, r)
      BY <2>1, <1>2
    <3>3. QED BY <3>1, <3>2
  <2>3. ASSUME NEW r \in d.routes, NEW q \in d.routes, r.path = q.path, r.name = q.name
        PROVE  r = q
    BY <2>1, <2>3
  <2>4. QED BY <2>2, <2>3 DEF RoutesKnown
<1>5. DirectoriesKnown(d)
  BY DraftParts, DirectoryIdPath DEF Known, DirectoriesKnown
<1>6. AssetsKnown(d)
  BY DraftParts, AssetIdPath DEF Known, AssetsKnown
<1>7. QED BY <1>1, <1>3, <1>4, <1>5, <1>6 DEF Known

\* No two records of a graph of this kind have one identifier.
LEMMA NeverRefused ==
  ASSUME NEW g, Known(g)
  PROVE  ~Refused(g)
<1> SUFFICES ASSUME NEW m \in Nodes(g), NEW n \in Nodes(g), m.id = n.id PROVE m = n
  BY DEF Refused
<1>1. ASSUME NEW x \in Nodes(g)
      PROVE  /\ x.id.kind \in {"file", "item", "route", "directory", "asset"}
             /\ x.id.path = x.path
             /\ x \in g.files <=> x.id.kind = "file"
             /\ x \in g.items <=> x.id.kind = "item"
             /\ x \in g.routes <=> x.id.kind = "route"
             /\ x \in g.directories <=> x.id.kind = "directory"
             /\ x \in g.assets <=> x.id.kind = "asset"
  BY <1>1 DEF Known, FilesKnown, ItemsKnown, RoutesKnown, DirectoriesKnown, AssetsKnown, Nodes
<1>2. m.path = n.path
  BY <1>1
<1>3. CASE m \in g.files
  BY <1>1, <1>2, <1>3 DEF Known, FilesKnown
<1>4. CASE m \in g.items
  <2>1. n \in g.items
    BY <1>1, <1>4
  <2>2. QED BY <1>2, <1>4, <2>1 DEF Known, ItemsKnown
<1>5. CASE m \in g.routes
  <2>1. n \in g.routes
    BY <1>1, <1>5
  <2>2. QED BY <1>2, <1>5, <2>1 DEF Known, RoutesKnown
<1>6. CASE m \in g.directories
  BY <1>1, <1>2, <1>6 DEF Known, DirectoriesKnown
<1>7. CASE m \in g.assets
  BY <1>1, <1>2, <1>7 DEF Known, AssetsKnown
<1>8. QED BY <1>3, <1>4, <1>5, <1>6, <1>7 DEF Nodes

-----------------------------------------------------------------------------
(* The edges of a build, and the graph it leaves *)

LEMMA EdgeFields ==
  ASSUME NEW from, NEW to, NEW relation, NEW unit
  PROVE  LET e == Edge(from, to, relation, unit)
         IN e.from = from /\ e.to = to /\ e.unit = unit
BY DEF Edge

\* The directory of a file, and that of a directory below the root, is recorded.
LEMMA DirectoriesClimb ==
  ASSUME NEW us, \A u \in us : u.path \in Path
  PROVE  /\ \A u \in us : Parent[u.path] \in Directories(us)
         /\ \A d \in Directories(us) \ {Root} : Parent[d] \in Directories(us)
<1>1. ASSUME NEW p \in DOMAIN Parent
      PROVE  /\ Parent[p] \in Ancestors(p)
             /\ \A d \in Ancestors(p) \ {Root} : Parent[d] \in Ancestors(p)
  <2>1. Parent[p] \in Directory
    BY DEF Directory
  <2>2. ASSUME NEW d \in Ancestors(p) \ {Root} PROVE Parent[d] \in Directory
    BY <2>2, BuildAssumption DEF Ancestors, Directory
  <2>3. QED BY <2>1, <2>2 DEF Ancestors
<1>2. \A u \in us : u.path \in DOMAIN Parent
  BY BuildAssumption
<1>3. QED BY <1>1, <1>2 DEF Directories

\* The identifiers and units a draft gives to what it records.
LEMMA DraftIds ==
  ASSUME NEW g, NEW us, NEW skipped
  PROVE  LET d == Draft(g, us, skipped)
             Has(id, unit) == id \in Ids(d) /\ unit \in analyzed_units(d)
         IN /\ \A u \in us : Has(FileId(g, u.path), UnitOf(g, u.path))
            /\ \A r \in Planned(g, us) : Has(r.id, r.unit)
            /\ \A x \in Routes(g, us) : Has(x.id, x.unit)
            /\ \A p \in Directories(us) : Has(DirectoryId(g, p), TreeUnit(g))
            /\ \A a \in Assets(us, skipped) : Has(AssetId(g, a), TreeUnit(g))
<1> DEFINE d == Draft(g, us, skipped)
           Has(id, unit) == id \in Ids(d) /\ unit \in analyzed_units(d)
<1>1. ASSUME NEW n \in Nodes(d) PROVE Has(n.id, n.unit)
  BY <1>1 DEF Ids, analyzed_units
<1>2. ASSUME NEW u \in us PROVE Has(FileId(g, u.path), UnitOf(g, u.path))
  <2> DEFINE f == [id |-> FileId(g, u.path), unit |-> UnitOf(g, u.path), path |-> u.path,
                   digest |-> u.digest, version |-> version, analyzed |-> u.source # Nothing]
  <2>1. f \in d.files
    BY DraftParts
  <2>2. f.id = FileId(g, u.path) /\ f.unit = UnitOf(g, u.path)
    OBVIOUS
  <2> HIDE DEF f
  <2>3. QED BY <1>1, <2>1, <2>2 DEF Nodes
<1>3. ASSUME NEW r \in Planned(g, us) PROVE Has(r.id, r.unit)
  <2> DEFINE i == [id |-> r.id, unit |-> r.unit, path |-> r.path, name |-> r.name,
                   ordinal |-> r.ordinal]
  <2>1. i \in d.items
    BY DraftParts
  <2>2. i.id = r.id /\ i.unit = r.unit
    OBVIOUS
  <2> HIDE DEF i
  <2>3. QED BY <1>1, <2>1, <2>2 DEF Nodes
<1>4. ASSUME NEW x \in Routes(g, us) PROVE Has(x.id, x.unit)
  BY <1>1, DraftParts DEF Nodes
<1>5. ASSUME NEW p \in Directories(us) PROVE Has(DirectoryId(g, p), TreeUnit(g))
  <2> DEFINE n == [id |-> DirectoryId(g, p), unit |-> TreeUnit(g), path |-> p]
  <2>1. n \in d.directories
    BY DraftParts
  <2>2. n.id = DirectoryId(g, p) /\ n.unit = TreeUnit(g)
    OBVIOUS
  <2> HIDE DEF n
  <2>3. QED BY <1>1, <2>1, <2>2 DEF Nodes
<1>6. ASSUME NEW a \in Assets(us, skipped) PROVE Has(AssetId(g, a), TreeUnit(g))
  <2> DEFINE n == [id |-> AssetId(g, a), unit |-> TreeUnit(g), path |-> a]
  <2>1. n \in d.assets
    BY DraftParts
  <2>2. n.id = AssetId(g, a) /\ n.unit = TreeUnit(g)
    OBVIOUS
  <2> HIDE DEF n
  <2>3. QED BY <1>1, <2>1, <2>2 DEF Nodes
<1>7. QED BY <1>2, <1>3, <1>4, <1>5, <1>6

\* Every edge a build draws joins two of its records.
LEMMA DraftEdges ==
  ASSUME NEW g, NEW us, \A u \in us : u.path \in Path, NEW skipped
  PROVE  EdgesOwned(Draft(g, us, skipped))
<1> DEFINE d == Draft(g, us, skipped)
           planned == Planned(g, us)
           routes == Routes(g, us)
           Joins(e) == e.from \in Ids(d) /\ e.to \in Ids(d) /\ e.unit \in analyzed_units(d)
<1>1. ASSUME NEW r \in planned
      PROVE  \E u \in us : r.path = u.path /\ r.unit = UnitOf(g, u.path)
  BY PlannedRecord
<1>2. ASSUME NEW x \in routes
      PROVE  \E u \in us : x.path = u.path /\ x.unit = UnitOf(g, u.path)
  BY DEF Routes
<1>3. ASSUME NEW r \in planned PROVE Joins(Edge(FileId(g, r.path), r.id, "CONTAINS", r.unit))
  BY <1>1, DraftIds, EdgeFields
<1>4. ASSUME NEW e \in Calls(planned) PROVE Joins(e)
  <2>1. PICK r \in planned : \E to \in planned : e = Edge(r.id, to.id, "CALLS", r.unit)
    BY <1>4 DEF Calls, Resolved
  <2>2. QED BY <2>1, DraftIds, EdgeFields
<1>5. ASSUME NEW e \in RouteEdges(g, routes, planned) PROVE Joins(e)
  <2>1. PICK x \in routes :
          \/ e = Edge(FileId(g, x.path), x.id, "CONTAINS", x.unit)
          \/ \E r \in planned : e = Edge(x.id, r.id, "HANDLED_BY", x.unit)
    BY <1>5 DEF RouteEdges
  <2>2. QED BY <2>1, <1>2, DraftIds, EdgeFields
<1>6. ASSUME NEW e \in ImportEdges(g, us, Assets(us, skipped)) PROVE Joins(e)
  <2>1. PICK u \in us :
          \/ \E v \in us :
               e = Edge(FileId(g, u.path), FileId(g, v.path), "IMPORTS", UnitOf(g, u.path))
          \/ \E a \in Assets(us, skipped) :
               e = Edge(FileId(g, u.path), AssetId(g, a), "IMPORTS", UnitOf(g, u.path))
    BY <1>6 DEF ImportEdges
  <2>2. QED BY <2>1, DraftIds, EdgeFields
<1>7. ASSUME NEW e \in TreeEdges(g, us) PROVE Joins(e)
  <2>1. \/ \E p \in Directories(us) \ {Root} :
             e = Edge(DirectoryId(g, Parent[p]), DirectoryId(g, p), "CONTAINS", TreeUnit(g))
        \/ \E u \in us :
             e = Edge(DirectoryId(g, Parent[u.path]), FileId(g, u.path), "CONTAINS",
                      TreeUnit(g))
    BY <1>7 DEF TreeEdges
  <2>2. QED BY <2>1, DirectoriesClimb, DraftIds, EdgeFields
<1>8. ASSUME NEW e \in d.edges PROVE Joins(e)
  BY <1>3, <1>4, <1>5, <1>6, <1>7, DraftParts
<1>9. QED BY <1>8 DEF EdgesOwned

\* Everything the graph held is withdrawn, so the draft is what is left.
LEMMA AppliedParts ==
  ASSUME NEW g, EdgesOwned(g), NEW us, NEW draft
  PROVE  LET a == Applied(g, us, draft)
         IN /\ a.files = draft.files /\ a.items = draft.items /\ a.routes = draft.routes
            /\ a.directories = draft.directories /\ a.assets = draft.assets
            /\ a.edges = draft.edges
<1> DEFINE gone == Withdrawn(g, us)
<1>1. \A n \in Nodes(g) : n.unit \in gone
  BY DEF Withdrawn, analyzed_units
<1>2. \A e \in g.edges : e.unit \in gone
  BY DEF Withdrawn, EdgesOwned
<1>3. QED BY <1>1, <1>2 DEF Applied, Nodes

-----------------------------------------------------------------------------
(* The invariant *)

GraphKnown == Known(graph) /\ EdgesOwned(graph)

\* A build that runs may still commit.
Pending == pc = "reading" => builds < MaxBuilds

IInv == TypeOK /\ GraphKnown /\ UnitsKnown /\ Pending /\ RecordsMatchDigest

LEMMA IInvInit == Init => IInv
<1> SUFFICES ASSUME Init PROVE IInv
  OBVIOUS
<1>1. /\ graph.files = {} /\ graph.items = {} /\ graph.routes = {}
      /\ graph.directories = {} /\ graph.assets = {} /\ graph.edges = {}
  BY DEF Init, EmptyGraph
<1>2. GraphKnown
  BY <1>1 DEF GraphKnown, Known, FilesKnown, ItemsKnown, RoutesKnown, DirectoriesKnown,
              AssetsKnown, EdgesOwned
<1>3. UnitsKnown /\ Pending /\ RecordsMatchDigest
  BY <1>1 DEF Init, UnitsKnown, Pending, RecordsMatchDigest
<1>4. ~Refused(graph)
  BY <1>2, NeverRefused DEF GraphKnown
<1>5. cache \in [Key -> Content \union {Nothing, Broken}]
  BY DEF Init
<1>6. Len(Files) \in Nat
  BY BuildAssumption
<1>7. QED
  BY <1>1, <1>2, <1>3, <1>4, <1>5, <1>6, BuildAssumption DEF Init, IInv, TypeOK, NoScan

\* Only a commit touches the graph.
LEMMA GraphSteps ==
  ASSUME [Next]_vars
  PROVE  Commit \/ UNCHANGED <<graph, builds>>
BY DEF Next, vars, around, build, Start, RecordFile, CacheHit, ReadFile, ReadFails, Learn,
       Edit, EditAsset, Upgrade, Damage, Crash, Around

\* Learning one more file keeps what is known of those before it.
LEMMA LearnKeeps ==
  ASSUME IInv, NEW i \in Turn, NEW digest \in Content,
         NEW source \in Content \union {Nothing}, source # Nothing => digest = source,
         Learn(i, digest, source)
  PROVE  /\ UnitsKnown' /\ at' \in 1 .. Len(Files) + 1
         /\ \A u \in units' : /\ u.path \in Path /\ u.digest \in Content
                              /\ u.source \in Content \union {Nothing}
<1> DEFINE new == [path |-> Files[i], digest |-> digest, source |-> source]
<1>1. /\ i \in DOMAIN Files /\ i \in Nat /\ at \in Nat /\ at >= 1 /\ at <= i /\ i <= Len(Files)
      /\ Len(Files) \in Nat /\ DOMAIN Files = 1 .. Len(Files)
  BY BuildAssumption DEF IInv, TypeOK, Turn
<1>2. units' = units \union {new} /\ at' = i + 1
  BY DEF Learn
<1>3. Files[i] \in Path
  BY <1>1 DEF Path
<1>4. new.path = Files[i] /\ new.digest = digest /\ new.source = source
  OBVIOUS
<1> HIDE DEF new
<1>5. ASSUME NEW u \in units PROVE u.path # Files[i]
  <2>1. PICK k \in 1 .. at - 1 : k \in DOMAIN Files /\ u.path = Files[k]
    BY DEF IInv, UnitsKnown
  <2>2. k # i
    BY <1>1, <2>1
  <2>3. QED BY <1>1, <2>1, <2>2, BuildAssumption
<1>6. \A u, v \in units' : u.path = v.path => u = v
  BY <1>2, <1>4, <1>5 DEF IInv, UnitsKnown
<1>7. ASSUME NEW u \in units'
      PROVE  /\ u.path \in Path /\ u.digest \in Content
             /\ u.source \in Content \union {Nothing}
             /\ u.source # Nothing => u.digest = u.source
             /\ \E k \in 1 .. at' - 1 : k \in DOMAIN Files /\ u.path = Files[k]
  <2>1. CASE u = new
    <3>1. i \in 1 .. at' - 1
      BY <1>1, <1>2
    <3>2. QED BY <1>1, <1>3, <1>4, <2>1, <3>1
  <2>2. CASE u \in units
    <3>1. PICK k \in 1 .. at - 1 : k \in DOMAIN Files /\ u.path = Files[k]
      BY <2>2 DEF IInv, UnitsKnown
    <3>2. k \in 1 .. at' - 1
      BY <1>1, <1>2, <3>1
    <3>3. QED BY <2>2, <3>1, <3>2 DEF IInv, UnitsKnown, TypeOK
  <2>3. QED BY <1>2, <2>1, <2>2
<1>8. at' \in 1 .. Len(Files) + 1
  BY <1>1, <1>2
<1>9. QED BY <1>6, <1>7, <1>8 DEF UnitsKnown

\* One file more of pass one.
LEMMA TurnStep ==
  ASSUME IInv, RecordFile \/ CacheHit \/ ReadFile \/ ReadFails
  PROVE  TypeOK' /\ UnitsKnown' /\ Pending'
<1>1. ASSUME NEW i \in Turn
      PROVE  /\ scan.digest[Files[i]] \in Content
             /\ tree[Files[i]] \in Content \union {Nothing}
  <2>1. Files[i] \in Path
    BY BuildAssumption DEF Turn, Path, IInv, TypeOK
  <2>2. QED BY <2>1 DEF Turn, IInv, TypeOK
<1>2. \E i \in Turn, digest \in Content, source \in Content \union {Nothing} :
        (source # Nothing => digest = source) /\ Learn(i, digest, source)
  <2>1. CASE RecordFile
    BY <1>1, <2>1 DEF RecordFile
  <2>2. CASE CacheHit
    <3>1. PICK i \in Turn : /\ cache[CacheKey(Files[i])] \in Content
                            /\ Learn(i, cache[CacheKey(Files[i])], cache[CacheKey(Files[i])])
      BY <2>2 DEF CacheHit, Decodes
    <3>2. QED BY <3>1
  <2>3. CASE ReadFile
    <3>1. PICK i \in Turn : /\ tree[Files[i]] # Nothing
                            /\ Learn(i, tree[Files[i]], tree[Files[i]])
      BY <2>3 DEF ReadFile
    <3>2. QED BY <1>1, <3>1
  <2>4. CASE ReadFails
    <3>1. PICK i \in Turn : Learn(i, scan.digest[Files[i]], Nothing)
      BY <2>4 DEF ReadFails
    <3>2. QED BY <1>1, <3>1
  <2>5. QED BY <2>1, <2>2, <2>3, <2>4
<1>3. /\ UnitsKnown' /\ at' \in 1 .. Len(Files) + 1
      /\ \A u \in units' : /\ u.path \in Path /\ u.digest \in Content
                           /\ u.source \in Content \union {Nothing}
      /\ UNCHANGED <<around, graph, pc, scan, builds, edits, settled>>
  BY <1>2, LearnKeeps DEF Learn
<1>4. cache' \in [Key -> Content \union {Nothing, Broken}]
  <2>1. CASE RecordFile \/ CacheHit
    BY <2>1 DEF RecordFile, CacheHit, IInv, TypeOK
  <2>2. CASE ReadFile
    <3>1. PICK i \in Turn : \E stored \in {tree[Files[i]], Nothing} :
            cache' = [cache EXCEPT ![CacheKey(Files[i])] = stored]
      BY <2>2 DEF ReadFile
    <3>2. PICK stored \in Content \union {Nothing, Broken} :
            cache' = [cache EXCEPT ![CacheKey(Files[i])] = stored]
      BY <1>1, <3>1
    <3>3. QED BY <3>2 DEF IInv, TypeOK
  <2>3. CASE ReadFails
    <3>1. PICK i \in Turn : cache' = [cache EXCEPT ![CacheKey(Files[i])] = Nothing]
      BY <2>3 DEF ReadFails
    <3>2. QED BY <3>1 DEF IInv, TypeOK
  <2>4. QED BY <2>1, <2>2, <2>3
<1>5. ~Refused(graph)'
  BY <1>3 DEF IInv, TypeOK, Refused, Nodes
<1>6. QED
  <2>1. UNCHANGED <<tree, present, version, graph, pc, scan, builds, edits>>
    BY <1>3 DEF around
  <2>2. QED BY <1>3, <1>4, <1>5, <2>1 DEF IInv, TypeOK, Pending, Nodes

\* What happens before, around and instead of pass one.
LEMMA OtherStep ==
  ASSUME IInv, Start \/ Edit \/ EditAsset \/ Upgrade \/ Damage \/ Crash
  PROVE  TypeOK' /\ UnitsKnown' /\ Pending'
<1>1. UNCHANGED <<graph, builds>>
  BY DEF Start, Edit, EditAsset, Upgrade, Damage, Crash, Around
<1>2. ~Refused(graph)'
  BY <1>1 DEF IInv, TypeOK, Refused, Nodes
<1>3. /\ \A f \in graph'.files : f.digest \in Content /\ f.version \in Version
      /\ \A e \in graph'.edges : {e.from, e.to} \subseteq {n.id : n \in Nodes(graph')}
      /\ builds' \in 0 .. MaxBuilds
  BY <1>1 DEF IInv, TypeOK, Nodes
<1>4. Len(Files) \in Nat
  BY BuildAssumption
<1>5. ASSUME UNCHANGED build
      PROVE  /\ UnitsKnown'
             /\ pc' \in {"idle", "reading"} /\ at' \in 1 .. Len(Files) + 1
             /\ scan'.digest \in [Path -> Content \union {Nothing}]
             /\ \A u \in units' : /\ u.path \in Path /\ u.digest \in Content
                                  /\ u.source \in Content \union {Nothing}
  BY <1>5 DEF build, IInv, TypeOK, UnitsKnown
<1>6. ASSUME units' = {}, at' = 1, pc' \in {"idle", "reading"}, scan' \in {Found, NoScan}
      PROVE  /\ UnitsKnown'
             /\ pc' \in {"idle", "reading"} /\ at' \in 1 .. Len(Files) + 1
             /\ scan'.digest \in [Path -> Content \union {Nothing}]
             /\ \A u \in units' : /\ u.path \in Path /\ u.digest \in Content
                                  /\ u.source \in Content \union {Nothing}
  BY <1>4, <1>6 DEF UnitsKnown, Found, NoScan, IInv, TypeOK
<1>7. Pending'
  BY <1>1 DEF Start, Edit, EditAsset, Upgrade, Damage, Crash, Around, build, IInv, Pending
<1>8. CASE Start
  <2>1. UNCHANGED <<around, cache, edits>>
    BY <1>8 DEF Start
  <2>2. \/ UNCHANGED build
        \/ units' = {} /\ at' = 1 /\ pc' \in {"idle", "reading"} /\ scan' \in {Found, NoScan}
    BY <1>8 DEF Start
  <2>3. QED BY <1>2, <1>3, <1>5, <1>6, <1>7, <2>1, <2>2 DEF around, IInv, TypeOK
<1>9. CASE Crash
  BY <1>2, <1>3, <1>6, <1>7, <1>9 DEF Crash, around, IInv, TypeOK
<1>10. CASE Edit \/ EditAsset \/ Upgrade \/ Damage
  <2>1. edits' \in 0 .. MaxEdits /\ UNCHANGED build
    BY <1>10, BuildAssumption DEF Edit, EditAsset, Upgrade, Damage, Around, IInv, TypeOK
  <2>2. tree' \in [Path -> Content \union {Nothing}]
    <3>1. CASE Edit
      <4>1. PICK p \in Path, c \in Content \union {Nothing} : tree' = [tree EXCEPT ![p] = c]
        BY <3>1 DEF Edit
      <4>2. QED BY <4>1 DEF IInv, TypeOK
    <3>2. CASE tree' = tree
      BY <3>2 DEF IInv, TypeOK
    <3>3. QED BY <1>10, <3>1, <3>2 DEF EditAsset, Upgrade, Damage, around
  <2>3. present' \subseteq Asset
    <3>1. CASE EditAsset
      BY <3>1 DEF EditAsset, IInv, TypeOK
    <3>2. CASE present' = present
      BY <3>2 DEF IInv, TypeOK
    <3>3. QED BY <1>10, <3>1, <3>2 DEF Edit, Upgrade, Damage, around
  <2>4. version' \in Version
    BY <1>10 DEF Edit, EditAsset, Upgrade, Damage, around, IInv, TypeOK
  <2>5. cache' \in [Key -> Content \union {Nothing, Broken}]
    <3>1. CASE Damage
      <4>1. PICK k \in Key : cache' = [cache EXCEPT ![k] = Broken]
        BY <3>1 DEF Damage
      <4>2. QED BY <4>1 DEF IInv, TypeOK
    <3>2. CASE cache' = cache
      BY <3>2 DEF IInv, TypeOK
    <3>3. QED BY <1>10, <3>1, <3>2 DEF Edit, EditAsset, Upgrade
  <2>6. QED BY <1>2, <1>3, <1>5, <1>7, <2>1, <2>2, <2>3, <2>4, <2>5 DEF TypeOK
<1>11. QED BY <1>8, <1>9, <1>10

\* What a draft records under a file is what was read out of that file.
LEMMA DraftItemsOfFile ==
  ASSUME NEW g, Known(g), NEW us, Distinct(us), NEW skipped, NEW u \in us
  PROVE  LET d == Draft(g, us, skipped)
             items == Analysis(u).items
         IN {[name |-> i.name, ordinal |-> i.ordinal] :
               i \in {i \in d.items : i.unit = UnitOf(g, u.path)}} =
            {[name |-> items[k].name, ordinal |-> Occurrence(items, k)] : k \in DOMAIN items}
<1> DEFINE d == Draft(g, us, skipped)
           items == Analysis(u).items
           left == {[name |-> i.name, ordinal |-> i.ordinal] :
                      i \in {i \in d.items : i.unit = UnitOf(g, u.path)}}
           right == {[name |-> items[k].name, ordinal |-> Occurrence(items, k)] :
                       k \in DOMAIN items}
<1>1. ASSUME NEW i \in d.items, i.unit = UnitOf(g, u.path)
      PROVE  [name |-> i.name, ordinal |-> i.ordinal] \in right
  <2>1. PICK r \in Planned(g, us) : /\ i.unit = r.unit /\ i.name = r.name
                                    /\ i.ordinal = r.ordinal
    BY DraftParts
  <2>2. PICK v \in us : \E k \in DOMAIN Analysis(v).items :
          /\ r.unit = UnitOf(g, v.path) /\ r.name = Analysis(v).items[k].name
          /\ r.ordinal = Occurrence(Analysis(v).items, k)
    BY PlannedRecord
  <2>3. v.path = u.path
    <3>1. UnitOf(g, v.path) = UnitOf(g, u.path)
      BY <1>1, <2>1, <2>2
    <3>2. UnitOf(g, v.path).path = v.path /\ UnitOf(g, u.path).path = u.path
      BY UnitOfPath DEF Known
    <3>3. QED BY <3>1, <3>2
  <2>4. v = u
    BY <2>3 DEF Distinct
  <2>5. QED BY <2>1, <2>2, <2>4
<1>2. ASSUME NEW k \in DOMAIN items
      PROVE  [name |-> items[k].name, ordinal |-> Occurrence(items, k)] \in left
  <2> DEFINE r == [id |-> ItemId(g, u.path, items[k].name, Occurrence(items, k)),
                   unit |-> UnitOf(g, u.path), path |-> u.path, name |-> items[k].name,
                   ordinal |-> Occurrence(items, k), references |-> items[k].references]
             i == [id |-> r.id, unit |-> r.unit, path |-> r.path, name |-> r.name,
                   ordinal |-> r.ordinal]
  <2>1. r \in Planned(g, us)
    BY DEF Planned
  <2>2. i \in d.items
    BY <2>1, DraftParts
  <2>3. /\ i.unit = UnitOf(g, u.path) /\ i.name = items[k].name
        /\ i.ordinal = Occurrence(items, k)
    OBVIOUS
  <2> HIDE DEF i, r
  <2>4. QED BY <2>2, <2>3
<1>3. QED BY <1>1, <1>2

\* The two outcomes of a commit.
LEMMA CommitOutcome ==
  ASSUME IInv, Commit
  PROVE  \/ UNCHANGED <<graph, builds>>
         \/ /\ builds' = builds + 1
            /\ LET d == Draft(graph, units, scan.skipped)
               IN /\ graph'.files = d.files /\ graph'.items = d.items
                  /\ graph'.routes = d.routes /\ graph'.directories = d.directories
                  /\ graph'.assets = d.assets /\ graph'.edges = d.edges
<1>1. CASE builds' = builds + 1
           /\ graph' = Applied(graph, units, Draft(graph, units, scan.skipped))
  BY <1>1, AppliedParts DEF IInv, GraphKnown
<1>2. QED BY <1>1 DEF Commit

LEMMA CommitStep ==
  ASSUME IInv, Commit
  PROVE  IInv'
<1> DEFINE d == Draft(graph, units, scan.skipped)
<1>1. /\ pc' = "idle" /\ units' = {} /\ at' = 1 /\ scan' = NoScan
      /\ UNCHANGED <<around, cache, edits>>
  BY DEF Commit
<1>2. UnitsKnown' /\ Pending'
  BY <1>1 DEF UnitsKnown, Pending
<1>3. builds' \in 0 .. MaxBuilds
  <2>1. builds' = builds \/ builds' = builds + 1
    BY CommitOutcome
  <2>2. pc = "reading" /\ builds \in 0 .. MaxBuilds /\ builds < MaxBuilds
    BY DEF Commit, IInv, TypeOK, Pending
  <2>3. QED BY <2>1, <2>2, BuildAssumption
<1>4. Known(d) /\ EdgesOwned(d)
  <2>1. Distinct(units) /\ \A u \in units : u.path \in Path
    BY DEF IInv, UnitsKnown, Distinct, TypeOK
  <2>2. QED BY <2>1, DraftKnown, DraftEdges DEF IInv, GraphKnown
<1>5. CASE UNCHANGED graph
  <2>1. GraphKnown' /\ RecordsMatchDigest'
    BY <1>5 DEF IInv, GraphKnown, Known, FilesKnown, ItemsKnown, RoutesKnown, InAFile,
                DirectoriesKnown, AssetsKnown, EdgesOwned, Ids, Nodes, analyzed_units,
                RecordsMatchDigest
  <2>2. /\ \A f \in graph'.files : f.digest \in Content /\ f.version \in Version
        /\ ~Refused(graph)'
        /\ \A e \in graph'.edges : {e.from, e.to} \subseteq {n.id : n \in Nodes(graph')}
    BY <1>5 DEF IInv, TypeOK, Refused, Nodes
  <2>3. Len(Files) \in Nat
    BY BuildAssumption
  <2>4. QED BY <1>1, <1>2, <1>3, <2>1, <2>2, <2>3 DEF IInv, TypeOK, NoScan, around
<1>6. CASE /\ graph'.files = d.files /\ graph'.items = d.items /\ graph'.routes = d.routes
           /\ graph'.directories = d.directories /\ graph'.assets = d.assets
           /\ graph'.edges = d.edges
  <2>1. Known(graph') /\ EdgesOwned(graph')
    BY <1>4, <1>6 DEF Known, FilesKnown, ItemsKnown, RoutesKnown, InAFile,
                      DirectoriesKnown, AssetsKnown, EdgesOwned, Ids, Nodes, analyzed_units
  <2>2. ~Refused(graph')
    BY <2>1, NeverRefused
  <2>3. \A f \in graph'.files :
          \E u \in units : f = [id |-> FileId(graph, u.path), unit |-> UnitOf(graph, u.path),
                                path |-> u.path, digest |-> u.digest, version |-> version,
                                analyzed |-> u.source # Nothing]
    BY <1>6, DraftParts
  <2>4. \A f \in graph'.files : f.digest \in Content /\ f.version \in Version
    BY <2>3 DEF IInv, TypeOK
  <2>5. \A e \in graph'.edges : {e.from, e.to} \subseteq {n.id : n \in Nodes(graph')}
    BY <2>1 DEF EdgesOwned, Ids
  <2>6. ASSUME NEW f \in graph'.files
        PROVE  {[name |-> i.name, ordinal |-> i.ordinal] :
                  i \in {i \in graph'.items : i.unit = f.unit}} =
               LET items == IF f.analyzed
                            THEN Parse[[digest |-> f.digest, language |-> Language[f.path],
                                        version |-> f.version]].items
                            ELSE <<>>
               IN {[name |-> items[k].name, ordinal |-> Occurrence(items, k)] :
                     k \in DOMAIN items}
    <3>1. PICK u \in units : f = [id |-> FileId(graph, u.path), unit |-> UnitOf(graph, u.path),
                                  path |-> u.path, digest |-> u.digest, version |-> version,
                                  analyzed |-> u.source # Nothing]
      BY <2>3
    <3>2. Analysis(u).items = IF f.analyzed
                              THEN Parse[[digest |-> f.digest, language |-> Language[f.path],
                                          version |-> f.version]].items
                              ELSE <<>>
      BY <3>1 DEF Analysis, IInv, UnitsKnown
    <3>3. f.unit = UnitOf(graph, u.path)
      BY <3>1
    <3>4. {[name |-> i.name, ordinal |-> i.ordinal] :
             i \in {i \in d.items : i.unit = UnitOf(graph, u.path)}} =
          {[name |-> Analysis(u).items[k].name, ordinal |-> Occurrence(Analysis(u).items, k)] :
             k \in DOMAIN Analysis(u).items}
      <4>1. Known(graph) /\ Distinct(units)
        BY DEF IInv, GraphKnown, UnitsKnown, Distinct
      <4>2. QED BY <4>1, DraftItemsOfFile
    <3>5. QED BY <1>6, <3>2, <3>3, <3>4
  <2>7. RecordsMatchDigest'
    BY <2>6 DEF RecordsMatchDigest, Occurrence
  <2>8. Len(Files) \in Nat
    BY BuildAssumption
  <2>9. Refused(graph)' = Refused(graph')
    BY DEF Refused, Nodes
  <2>10. TypeOK'
    BY <1>1, <1>3, <2>2, <2>4, <2>5, <2>8, <2>9 DEF IInv, TypeOK, NoScan, around
  <2>11. GraphKnown'
    BY <2>1 DEF GraphKnown, Known, FilesKnown, ItemsKnown, RoutesKnown, InAFile,
                DirectoriesKnown, AssetsKnown, EdgesOwned, Ids, Nodes, analyzed_units
  <2>12. QED BY <1>2, <2>7, <2>10, <2>11 DEF IInv
<1>7. QED BY <1>5, <1>6, CommitOutcome

LEMMA IInvStep == IInv /\ [Next]_vars => IInv'
<1> SUFFICES ASSUME IInv, [Next]_vars PROVE IInv'
  OBVIOUS
<1>1. CASE Commit
  BY <1>1, CommitStep
<1>2. ASSUME UNCHANGED graph PROVE GraphKnown' /\ RecordsMatchDigest'
  BY <1>2 DEF IInv, GraphKnown, Known, FilesKnown, ItemsKnown, RoutesKnown, InAFile,
              DirectoriesKnown, AssetsKnown, EdgesOwned, Ids, Nodes, analyzed_units,
              RecordsMatchDigest
<1>3. CASE UNCHANGED vars
  <2>1. TypeOK' /\ UnitsKnown' /\ Pending'
    BY <1>3 DEF vars, IInv, TypeOK, UnitsKnown, Pending, Refused, Nodes
  <2>2. QED BY <1>2, <1>3, <2>1 DEF IInv, vars
<1>4. CASE RecordFile \/ CacheHit \/ ReadFile \/ ReadFails
  <2>1. UNCHANGED graph
    BY <1>4 DEF RecordFile, CacheHit, ReadFile, ReadFails, Learn
  <2>2. QED BY <1>2, <1>4, <2>1, TurnStep DEF IInv
<1>5. CASE Start \/ Edit \/ EditAsset \/ Upgrade \/ Damage \/ Crash
  <2>1. UNCHANGED graph
    BY <1>5 DEF Start, Edit, EditAsset, Upgrade, Damage, Crash, Around
  <2>2. QED BY <1>2, <1>5, <2>1, OtherStep DEF IInv
<1>6. QED BY <1>1, <1>3, <1>4, <1>5 DEF Next

LEMMA Invariance == Spec => []IInv
BY IInvInit, IInvStep, PTL DEF Spec

-----------------------------------------------------------------------------
(* What a build says of its files *)

\* The names below say what a draft says, without the identifiers it gives and for
\* every release `v`: what the analyzer reads, declares and finds.
Reading(v, u) ==
  IF u.source # Nothing
  THEN Parse[[digest |-> u.source, language |-> Language[u.path], version |-> v]]
  ELSE [items |-> <<>>, imports |-> {}, routes |-> {}]

Declared(v, us) ==
  UNION {{[path |-> u.path, name |-> Reading(v, u).items[k].name,
           ordinal |-> Occurrence(Reading(v, u).items, k),
           references |-> Reading(v, u).items[k].references] :
            k \in DOMAIN Reading(v, u).items} : u \in us}

FoundRoutes(v, us) == UNION {{<<u.path, h>> : h \in Reading(v, u).routes} : u \in us}

\* `t` is what the name refers to: the only declaration of that name.
Answers(declared, name, t) ==
  t.name = name /\ \A x \in declared : x.name = name => x = t

SaidContains(declared) == {<<<<t.path>>, <<t.path, t.name>>, "CONTAINS">> : t \in declared}

SaidCalls(declared) ==
  UNION {{<<<<t.path, t.name>>, <<x.path, x.name>>, "CALLS">> :
            x \in {x \in declared : \E n \in t.references : Answers(declared, n, x)}} :
          t \in declared}

SaidRoutes(routes, declared) ==
  UNION {{<<<<q[1]>>, q, "CONTAINS">>} \union
         {<<q, <<t.path, t.name>>, "HANDLED_BY">> :
            t \in {t \in declared : t.path = q[1] /\ t.name = q[2] /\ t.ordinal = 0}} :
          q \in routes}

SaidImports(v, us) ==
  UNION {{<<<<u.path>>, <<w.path>>, "IMPORTS">> :
            w \in {w \in us : w.path \in Reading(v, u).imports /\ w # u}} : u \in us}

SaidTree(us) ==
  {<<<<Parent[d]>>, <<d>>, "CONTAINS">> : d \in Directories(us) \ {Root}} \union
  {<<<<Parent[u.path]>>, <<u.path>>, "CONTAINS">> : u \in us}

SaidEdges(v, us) ==
  SaidContains(Declared(v, us)) \union SaidCalls(Declared(v, us)) \union
  SaidRoutes(FoundRoutes(v, us), Declared(v, us)) \union SaidImports(v, us) \union SaidTree(us)

Meaning(v, us) ==
  [files |-> {<<u.path, u.digest, v, u.source # Nothing>> : u \in us},
   items |-> {<<t.path, t.name, t.ordinal>> : t \in Declared(v, us)},
   routes |-> FoundRoutes(v, us),
   directories |-> {<<d>> : d \in Directories(us)},
   edges |-> SaidEdges(v, us)]

\* A file that is read as it was scanned.
AsScanned(p, c) ==
  [path |-> p, digest |-> c, source |-> IF Language[p] \in Covered THEN c ELSE Nothing]

UnitsOf(digests) ==
  {AsScanned(p, digests[p]) : p \in {p \in Path : digests[p] # Nothing}}

RecordedUnits(g) == {AsScanned(f.path, f.digest) : f \in g.files}

\* As long as every file was read as it was scanned, an entry of the cache holds the
\* parse of the bytes it is filed under.
CacheTrue == ~missed => \A k \in Key : cache[k] \in {k.digest, Nothing, Broken}

ScanTrue == pc = "reading" /\ settled => scan.digest = tree

\* Pass one has learned of every scanned file before `at`, and learned what the scan saw.
UnitsComplete ==
  /\ IsFiniteSet(units)
  /\ ~missed => \A u \in units : u = AsScanned(u.path, scan.digest[u.path])
  /\ \A k \in 1 .. at - 1 : scan.digest[Files[k]] # Nothing => \E u \in units : u.path = Files[k]

\* The files of the graph are files of the tree, its directories are one unit apart.
TreeKnown ==
  /\ \A f \in graph.files : f.path \in Path
  /\ \A d \in graph.directories : d.unit.kind = "tree"

\* The graph says what one release reads out of the files it records.
GraphSays ==
  ~missed => \E v \in Version : /\ \A f \in graph.files : f.version = v
                                /\ SaysOfFiles(graph) = Meaning(v, RecordedUnits(graph))

TreeSays == Quiet => SaysOfFiles(graph) = Meaning(version, UnitsOf(tree))

GInv == IInv /\ CacheTrue /\ ScanTrue /\ UnitsComplete /\ TreeKnown /\ GraphSays /\ TreeSays

LEMMA Least ==
  ASSUME NEW S \in SUBSET Nat, S # {}
  PROVE  \E m \in S : \A k \in S : m <= k
<1>1. PICK m \in S : \A y \in S : ~(<<y, m>> \in OpToRel(<, Nat))
  BY WFMin, NatLessThanWellFounded
<1>2. \A y \in S : ~(y < m)
  BY <1>1 DEF OpToRel
<1>3. QED BY <1>2

\* What an identifier stands for, which is all that a graph says of its record.
Told(id) ==
  IF id.kind \in {"item", "route"} THEN <<id.path, id.name>> ELSE <<id.path>>

\* Items and routes have names, the other records have none.
Shaped(g) ==
  /\ \A n \in g.items \union g.routes : "name" \in DOMAIN n
  /\ \A n \in g.files \union g.directories \union g.assets : "name" \notin DOMAIN n

LEMMA SayingTold ==
  ASSUME NEW g, Known(g), Shaped(g), NEW id \in Ids(g)
  PROVE  Saying(g, id) = Told(id)
<1>1. PICK n \in Nodes(g) : n.id = id
  BY DEF Ids
<1>2. \A m \in Nodes(g) : m.id = id => m = n
  BY <1>1, NeverRefused DEF Refused
<1>3. (CHOOSE m \in Nodes(g) : m.id = id) = n
  BY <1>1, <1>2
<1>4. Said(n) = Told(n.id)
  <2>1. CASE n \in g.files \union g.directories \union g.assets
    <3>1. n.id.kind \in {"file", "directory", "asset"} /\ n.id.path = n.path
      BY <2>1 DEF Known, FilesKnown, DirectoriesKnown, AssetsKnown
    <3>2. "name" \notin DOMAIN n
      BY <2>1 DEF Shaped
    <3>3. QED BY <3>1, <3>2 DEF Said, Told
  <2>2. CASE n \in g.items \union g.routes
    <3>1. n.id.kind \in {"item", "route"} /\ n.id.path = n.path /\ n.id.name = n.name
      BY <2>2 DEF Known, ItemsKnown, RoutesKnown
    <3>2. "name" \in DOMAIN n
      BY <2>2 DEF Shaped
    <3>3. QED BY <3>1, <3>2 DEF Said, Told
  <2>3. QED BY <1>1, <2>1, <2>2 DEF Nodes
<1>5. QED BY <1>1, <1>3, <1>4 DEF Saying

LEMMA DraftShaped ==
  ASSUME NEW g, NEW us, NEW skipped
  PROVE  Shaped(Draft(g, us, skipped))
BY DraftParts DEF Shaped, Routes

\* An edge leads to an asset when its identifier is one of an asset.
LEMMA AssetEdges ==
  ASSUME NEW g, Known(g), NEW id \in Ids(g)
  PROVE  id \in {a.id : a \in g.assets} <=> id.kind = "asset"
<1>1. PICK n \in Nodes(g) : n.id = id
  BY DEF Ids
<1>2. CASE n \in g.assets
  BY <1>1, <1>2 DEF Known, AssetsKnown
<1>3. CASE n \notin g.assets
  BY <1>1, <1>3 DEF Nodes, Known, FilesKnown, ItemsKnown, RoutesKnown, DirectoriesKnown,
                    AssetsKnown
<1>4. QED BY <1>2, <1>3

\* What the edges of a draft say.
Tells(e) == <<Told(e.from), Told(e.to), e.relation>>

LEMMA EdgesTell ==
  ASSUME NEW g, Known(g), Shaped(g), EdgesOwned(g)
  PROVE  SaysOfFiles(g).edges = {Tells(e) : e \in {e \in g.edges : e.to.kind # "asset"}}
<1>1. ASSUME NEW e \in g.edges
      PROVE  /\ <<Saying(g, e.from), Saying(g, e.to), e.relation>> = Tells(e)
             /\ e.to \notin {a.id : a \in g.assets} <=> e.to.kind # "asset"
  <2>1. e.from \in Ids(g) /\ e.to \in Ids(g)
    BY DEF EdgesOwned
  <2>2. Saying(g, e.from) = Told(e.from) /\ Saying(g, e.to) = Told(e.to)
    BY <2>1, SayingTold
  <2>3. e.to \in {a.id : a \in g.assets} <=> e.to.kind = "asset"
    BY <2>1, AssetEdges
  <2>4. QED BY <2>2, <2>3 DEF Tells
<1> DEFINE kept == {e \in g.edges : e.to \notin {a.id : a \in g.assets}}
<1>2. kept = {e \in g.edges : e.to.kind # "asset"}
  BY <1>1
<1>3. SaysOfFiles(g).edges = {<<Saying(g, e.from), Saying(g, e.to), e.relation>> : e \in kept}
  BY DEF SaysOfFiles
<1>4. \A e \in kept : <<Saying(g, e.from), Saying(g, e.to), e.relation>> = Tells(e)
  BY <1>1
<1> HIDE DEF kept
<1>5. {<<Saying(g, e.from), Saying(g, e.to), e.relation>> : e \in kept} = {Tells(e) : e \in kept}
  BY <1>4
<1>6. QED BY <1>2, <1>3, <1>5

-----------------------------------------------------------------------------
(* The records of a draft are the declarations it makes of its files *)

LEMMA PlannedDeclared ==
  ASSUME NEW g, NEW us
  PROVE  /\ \A r \in Planned(g, us) : \E t \in Declared(version, us) :
              /\ t.path = r.path /\ t.name = r.name /\ t.ordinal = r.ordinal
              /\ t.references = r.references
         /\ \A t \in Declared(version, us) : \E r \in Planned(g, us) :
              /\ t.path = r.path /\ t.name = r.name /\ t.ordinal = r.ordinal
              /\ t.references = r.references
         /\ \A r, q \in Planned(g, us) :
              /\ r.path = q.path /\ r.name = q.name /\ r.ordinal = q.ordinal
              /\ r.references = q.references
              => r = q
         /\ \A t, x \in Declared(version, us) :
              /\ t.path = x.path /\ t.name = x.name /\ t.ordinal = x.ordinal
              /\ t.references = x.references
              => t = x
<1>1. \A u \in us : Analysis(u) = Reading(version, u)
  BY DEF Analysis, Reading
<1>2. ASSUME NEW r \in Planned(g, us)
      PROVE  /\ r = [id |-> ItemId(g, r.path, r.name, r.ordinal), unit |-> UnitOf(g, r.path),
                     path |-> r.path, name |-> r.name, ordinal |-> r.ordinal,
                     references |-> r.references]
             /\ \E t \in Declared(version, us) :
                  /\ t.path = r.path /\ t.name = r.name /\ t.ordinal = r.ordinal
                  /\ t.references = r.references
  <2>1. PICK u \in us : \E k \in DOMAIN Analysis(u).items :
               r = [id |-> ItemId(g, u.path, Analysis(u).items[k].name,
                                  Occurrence(Analysis(u).items, k)),
                    unit |-> UnitOf(g, u.path), path |-> u.path, name |-> Analysis(u).items[k].name,
                    ordinal |-> Occurrence(Analysis(u).items, k),
                    references |-> Analysis(u).items[k].references]
    BY PlannedRecord
  <2>2. PICK k \in DOMAIN Analysis(u).items :
               r = [id |-> ItemId(g, u.path, Analysis(u).items[k].name,
                                  Occurrence(Analysis(u).items, k)),
                    unit |-> UnitOf(g, u.path), path |-> u.path, name |-> Analysis(u).items[k].name,
                    ordinal |-> Occurrence(Analysis(u).items, k),
                    references |-> Analysis(u).items[k].references]
    BY <2>1
  <2> DEFINE t == [path |-> u.path, name |-> Analysis(u).items[k].name,
                   ordinal |-> Occurrence(Analysis(u).items, k),
                   references |-> Analysis(u).items[k].references]
  <2>3. t \in Declared(version, us)
    BY <1>1 DEF Declared
  <2>4. /\ t.path = r.path /\ t.name = r.name /\ t.ordinal = r.ordinal
        /\ t.references = r.references
    BY <2>2
  <2> HIDE DEF t
  <2>5. QED BY <2>2, <2>3, <2>4
<1>3. ASSUME NEW t \in Declared(version, us)
      PROVE  /\ t = [path |-> t.path, name |-> t.name, ordinal |-> t.ordinal,
                     references |-> t.references]
             /\ \E r \in Planned(g, us) :
                  /\ t.path = r.path /\ t.name = r.name /\ t.ordinal = r.ordinal
                  /\ t.references = r.references
  <2>1. PICK u \in us : \E k \in DOMAIN Analysis(u).items :
               t = [path |-> u.path, name |-> Analysis(u).items[k].name,
                    ordinal |-> Occurrence(Analysis(u).items, k),
                    references |-> Analysis(u).items[k].references]
    BY <1>1 DEF Declared
  <2>2. PICK k \in DOMAIN Analysis(u).items :
               t = [path |-> u.path, name |-> Analysis(u).items[k].name,
                    ordinal |-> Occurrence(Analysis(u).items, k),
                    references |-> Analysis(u).items[k].references]
    BY <2>1
  <2> DEFINE items == Analysis(u).items
             r == [id |-> ItemId(g, u.path, items[k].name, Occurrence(items, k)),
                   unit |-> UnitOf(g, u.path), path |-> u.path, name |-> items[k].name,
                   ordinal |-> Occurrence(items, k), references |-> items[k].references]
  <2>3. r \in Planned(g, us)
    BY DEF Planned
  <2>4. /\ t.path = r.path /\ t.name = r.name /\ t.ordinal = r.ordinal
        /\ t.references = r.references
    BY <2>2
  <2> HIDE DEF r
  <2>5. QED BY <2>2, <2>3, <2>4
<1>4. ASSUME NEW r \in Planned(g, us), NEW q \in Planned(g, us),
             r.path = q.path, r.name = q.name, r.ordinal = q.ordinal, r.references = q.references
      PROVE  r = q
  BY <1>2, <1>4
<1>5. ASSUME NEW t \in Declared(version, us), NEW x \in Declared(version, us),
             t.path = x.path, t.name = x.name, t.ordinal = x.ordinal, t.references = x.references
      PROVE  t = x
  BY <1>3, <1>5
<1>6. QED BY <1>2, <1>3, <1>4, <1>5

\* A build of finitely many files makes finitely many records.
LEMMA PlannedFinite ==
  ASSUME NEW g, NEW us, IsFiniteSet(us),
         \A u \in us : IsFiniteSet(DOMAIN Analysis(u).items)
  PROVE  IsFiniteSet(Planned(g, us))
<1> DEFINE Record(u, k) ==
             [id |-> ItemId(g, u.path, Analysis(u).items[k].name, Occurrence(Analysis(u).items, k)),
              unit |-> UnitOf(g, u.path), path |-> u.path, name |-> Analysis(u).items[k].name,
              ordinal |-> Occurrence(Analysis(u).items, k),
              references |-> Analysis(u).items[k].references]
           Of(u) == {Record(u, k) : k \in DOMAIN Analysis(u).items}
<1>1. Planned(g, us) = UNION {Of(u) : u \in us}
  BY DEF Planned
<1> HIDE DEF Record
<1>2. ASSUME NEW u \in us PROVE IsFiniteSet(Of(u))
  <2> DEFINE f == [k \in DOMAIN Analysis(u).items |-> Record(u, k)]
  <2>1. f \in Surjection(DOMAIN Analysis(u).items, Of(u))
    BY DEF Surjection
  <2>2. QED BY <2>1, FS_Surjection
<1> HIDE DEF Of
<1>3. IsFiniteSet({Of(u) : u \in us})
  <2> DEFINE f == [u \in us |-> Of(u)]
  <2>1. f \in Surjection(us, {Of(u) : u \in us})
    BY DEF Surjection
  <2>2. QED BY <2>1, FS_Surjection
<1>4. QED BY <1>1, <1>2, <1>3, FS_UNION

\* A name refers to the one declaration of that name, if there is one.
LEMMA ResolvedAnswers ==
  ASSUME NEW g, NEW us, IsFiniteSet(Planned(g, us)), NEW name, NEW r \in Planned(g, us),
         NEW t \in Declared(version, us), t.path = r.path, t.name = r.name,
         t.ordinal = r.ordinal, t.references = r.references
  PROVE  r \in Resolved(Planned(g, us), name) <=> Answers(Declared(version, us), name, t)
<1> DEFINE P == Planned(g, us)
           D == Declared(version, us)
           named == {q \in P : q.name = name}
<1>1. IsFiniteSet(named)
  BY FS_Subset
<1>2. r \in Resolved(P, name) <=> r.name = name /\ \A q \in P : q.name = name => q = r
  <2>1. Cardinality(named) = 1 <=> \E x : named = {x}
    BY <1>1, FS_Singleton
  <2>2. QED BY <2>1 DEF Resolved
<1>3. ASSUME \A q \in P : q.name = name => q = r, NEW x \in D, x.name = name PROVE x = t
  <2>1. PICK q \in P : /\ x.path = q.path /\ x.name = q.name /\ x.ordinal = q.ordinal
                       /\ x.references = q.references
    BY PlannedDeclared
  <2>2. q = r
    BY <1>3, <2>1
  <2>3. QED BY <2>1, <2>2, PlannedDeclared
<1>4. ASSUME \A x \in D : x.name = name => x = t, NEW q \in P, q.name = name PROVE q = r
  <2>1. PICK x \in D : /\ x.path = q.path /\ x.name = q.name /\ x.ordinal = q.ordinal
                       /\ x.references = q.references
    BY PlannedDeclared
  <2>2. x = t
    BY <1>4, <2>1
  <2>3. QED BY <2>1, <2>2, PlannedDeclared
<1>5. QED BY <1>2, <1>3, <1>4 DEF Answers

\* A file no analyzer covers has no parse.
Readable(us) ==
  /\ IsFiniteSet(us)
  /\ Distinct(us)
  /\ \A u \in us : /\ u.path \in Path
                   /\ u.source # Nothing => u.source \in Content /\ Language[u.path] \in Covered

LEMMA ReadableFinite ==
  ASSUME NEW g, NEW us, Readable(us), version \in Version
  PROVE  IsFiniteSet(Planned(g, us))
<1>1. ASSUME NEW u \in us
      PROVE  IsFiniteSet(DOMAIN Analysis(u).items)
  <2>1. CASE u.source # Nothing
    <3> DEFINE key == [digest |-> u.source, language |-> Language[u.path], version |-> version]
    <3>1. key \in Key
      BY <2>1 DEF Readable, Key
    <3>2. Parse[key] \in FileAnalysis
      BY <3>1, BuildAssumption
    <3>3. Parse[key].items \in Seq([name : Name, references : SUBSET Name])
      BY <3>2 DEF FileAnalysis
    <3>4. Analysis(u) = Parse[key]
      BY <2>1 DEF Analysis
    <3> HIDE DEF key
    <3>5. PICK s \in Seq([name : Name, references : SUBSET Name]) : s = Analysis(u).items
      BY <3>3, <3>4
    <3>6. DOMAIN s = 1 .. Len(s) /\ Len(s) \in Nat
      OBVIOUS
    <3>7. IsFiniteSet(1 .. Len(s))
      BY <3>6, FS_Interval
    <3>8. QED BY <3>5, <3>6, <3>7
  <2>2. CASE u.source = Nothing
    <3>1. Analysis(u).items = <<>>
      BY <2>2 DEF Analysis
    <3>2. DOMAIN <<>> = {}
      OBVIOUS
    <3>3. QED BY <3>1, <3>2, FS_EmptySet
  <2>3. QED BY <2>1, <2>2
<1>2. QED BY <1>1, PlannedFinite DEF Readable

LEMMA EdgeTells ==
  ASSUME NEW from, NEW to, NEW relation, NEW unit
  PROVE  LET e == Edge(from, to, relation, unit)
         IN Tells(e) = <<Told(from), Told(to), relation>> /\ e.to.kind = to.kind
BY DEF Edge, Tells

\* What the identifiers a draft gives stand for.
LEMMA IdsTell ==
  ASSUME NEW g, Known(g), NEW us
  PROVE  /\ \A p : Told(FileId(g, p)) = <<p>> /\ FileId(g, p).kind = "file"
         /\ \A p : Told(DirectoryId(g, p)) = <<p>> /\ DirectoryId(g, p).kind = "directory"
         /\ \A a : AssetId(g, a).kind = "asset"
         /\ \A r \in Planned(g, us) : Told(r.id) = <<r.path, r.name>> /\ r.id.kind = "item"
         /\ \A x \in Routes(g, us) : Told(x.id) = <<x.path, x.name>> /\ x.id.kind = "route"
<1>1. ASSUME NEW p PROVE Told(FileId(g, p)) = <<p>> /\ FileId(g, p).kind = "file"
  BY FileIdPath DEF Known, Told
<1>2. ASSUME NEW p PROVE Told(DirectoryId(g, p)) = <<p>> /\ DirectoryId(g, p).kind = "directory"
  BY DirectoryIdPath DEF Known, Told
<1>3. ASSUME NEW a PROVE AssetId(g, a).kind = "asset"
  BY AssetIdPath DEF Known
<1>4. ASSUME NEW r \in Planned(g, us)
      PROVE  Told(r.id) = <<r.path, r.name>> /\ r.id.kind = "item"
  <2>1. r.id = ItemId(g, r.path, r.name, r.ordinal)
    BY PlannedRecord
  <2>2. r.id.kind = "item" /\ r.id.path = r.path /\ r.id.name = r.name
    BY <2>1, ItemIdName DEF Known
  <2>3. QED BY <2>2 DEF Told
<1>5. ASSUME NEW x \in Routes(g, us)
      PROVE  Told(x.id) = <<x.path, x.name>> /\ x.id.kind = "route"
  <2>1. PICK u \in us : \E h \in Analysis(u).routes :
          x = [id |-> Minted("route", u.path, h, 0), unit |-> UnitOf(g, u.path),
               path |-> u.path, name |-> h]
    BY DEF Routes
  <2>2. x.id.kind = "route" /\ x.id.path = x.path /\ x.id.name = x.name
    BY <2>1, MintedFields
  <2>3. QED BY <2>2 DEF Told
<1>6. QED BY <1>1, <1>2, <1>3, <1>4, <1>5

\* What the edges of a set that lead to other than assets say.
ToldOf(edges) == {Tells(e) : e \in {e \in edges : e.to.kind # "asset"}}

LEMMA ContainsTold ==
  ASSUME NEW g, Known(g), NEW us
  PROVE  ToldOf({Edge(FileId(g, r.path), r.id, "CONTAINS", r.unit) : r \in Planned(g, us)}) =
         SaidContains(Declared(version, us))
<1> DEFINE P == Planned(g, us)
           D == Declared(version, us)
           E(r) == Edge(FileId(g, r.path), r.id, "CONTAINS", r.unit)
<1>1. ASSUME NEW r \in P
      PROVE  Tells(E(r)) = <<<<r.path>>, <<r.path, r.name>>, "CONTAINS">> /\ E(r).to.kind = "item"
  BY EdgeTells, IdsTell
<1> HIDE DEF E
<1>2. ASSUME NEW s \in ToldOf({E(r) : r \in P}) PROVE s \in SaidContains(D)
  <2>1. PICK r \in P : s = <<<<r.path>>, <<r.path, r.name>>, "CONTAINS">>
    BY <1>1 DEF ToldOf
  <2>2. PICK t \in D : t.path = r.path /\ t.name = r.name
    BY PlannedDeclared
  <2>3. QED BY <2>1, <2>2 DEF SaidContains
<1>3. ASSUME NEW s \in SaidContains(D) PROVE s \in ToldOf({E(r) : r \in P})
  <2>1. PICK t \in D : s = <<<<t.path>>, <<t.path, t.name>>, "CONTAINS">>
    BY DEF SaidContains
  <2>2. PICK r \in P : t.path = r.path /\ t.name = r.name
    BY PlannedDeclared
  <2>3. s = Tells(E(r)) /\ E(r).to.kind # "asset"
    BY <1>1, <2>1, <2>2
  <2>4. QED BY <2>3 DEF ToldOf
<1>4. QED BY <1>2, <1>3 DEF E

LEMMA CallsTold ==
  ASSUME NEW g, Known(g), NEW us, IsFiniteSet(Planned(g, us))
  PROVE  ToldOf(Calls(Planned(g, us))) = SaidCalls(Declared(version, us))
<1> DEFINE P == Planned(g, us)
           D == Declared(version, us)
<1>1. ASSUME NEW r \in P, NEW q \in P
      PROVE  LET e == Edge(r.id, q.id, "CALLS", r.unit)
             IN /\ Tells(e) = <<<<r.path, r.name>>, <<q.path, q.name>>, "CALLS">>
                /\ e.to.kind = "item"
  BY EdgeTells, IdsTell
<1>2. \A name : Resolved(P, name) \subseteq P
  BY DEF Resolved
<1>3. ASSUME NEW s \in ToldOf(Calls(P)) PROVE s \in SaidCalls(D)
  <2>1. PICK e \in Calls(P) : s = Tells(e)
    BY DEF ToldOf
  <2>2. PICK r \in P : \E n \in r.references : \E q \in Resolved(P, n) :
          e = Edge(r.id, q.id, "CALLS", r.unit)
    BY <2>1 DEF Calls
  <2>3. PICK n \in r.references : \E q \in Resolved(P, n) : e = Edge(r.id, q.id, "CALLS", r.unit)
    BY <2>2
  <2>4. PICK q \in Resolved(P, n) : e = Edge(r.id, q.id, "CALLS", r.unit)
    BY <2>3
  <2>5. s = <<<<r.path, r.name>>, <<q.path, q.name>>, "CALLS">>
    BY <1>1, <1>2, <2>1, <2>4
  <2>6. PICK t \in D : /\ t.path = r.path /\ t.name = r.name /\ t.ordinal = r.ordinal
                       /\ t.references = r.references
    BY PlannedDeclared
  <2>7. PICK x \in D : /\ x.path = q.path /\ x.name = q.name /\ x.ordinal = q.ordinal
                       /\ x.references = q.references
    BY <1>2, PlannedDeclared
  <2>8. Answers(D, n, x)
    BY <1>2, <2>4, <2>7, ResolvedAnswers
  <2>9. s = <<<<t.path, t.name>>, <<x.path, x.name>>, "CALLS">> /\ n \in t.references
    BY <2>3, <2>5, <2>6, <2>7
  <2>10. QED BY <2>8, <2>9 DEF SaidCalls
<1>4. ASSUME NEW s \in SaidCalls(D) PROVE s \in ToldOf(Calls(P))
  <2>1. PICK t \in D, x \in D : /\ \E n \in t.references : Answers(D, n, x)
                                /\ s = <<<<t.path, t.name>>, <<x.path, x.name>>, "CALLS">>
    BY DEF SaidCalls
  <2>2. PICK n \in t.references : Answers(D, n, x)
    BY <2>1
  <2>3. PICK r \in P : /\ t.path = r.path /\ t.name = r.name /\ t.ordinal = r.ordinal
                       /\ t.references = r.references
    BY PlannedDeclared
  <2>4. PICK q \in P : /\ x.path = q.path /\ x.name = q.name /\ x.ordinal = q.ordinal
                       /\ x.references = q.references
    BY PlannedDeclared
  <2>5. q \in Resolved(P, n)
    BY <2>2, <2>4, ResolvedAnswers
  <2> DEFINE e == Edge(r.id, q.id, "CALLS", r.unit)
  <2>6. e \in Calls(P)
    BY <2>2, <2>3, <2>5 DEF Calls
  <2>7. s = Tells(e) /\ e.to.kind # "asset"
    BY <1>1, <2>1, <2>3, <2>4
  <2> HIDE DEF e
  <2>8. QED BY <2>6, <2>7 DEF ToldOf
<1>5. QED BY <1>3, <1>4

\* The routes a draft records are those found in its files.
LEMMA RoutesFound ==
  ASSUME NEW g, NEW us
  PROVE  /\ \A x \in Routes(g, us) : <<x.path, x.name>> \in FoundRoutes(version, us)
         /\ \A q \in FoundRoutes(version, us) : \E x \in Routes(g, us) : q = <<x.path, x.name>>
<1>1. \A u \in us : Analysis(u) = Reading(version, u)
  BY DEF Analysis, Reading
<1>2. ASSUME NEW x \in Routes(g, us) PROVE <<x.path, x.name>> \in FoundRoutes(version, us)
  <2>1. PICK u \in us : \E h \in Analysis(u).routes : x.path = u.path /\ x.name = h
    BY DEF Routes
  <2>2. QED BY <1>1, <2>1 DEF FoundRoutes
<1>3. ASSUME NEW q \in FoundRoutes(version, us)
      PROVE  \E x \in Routes(g, us) : q = <<x.path, x.name>>
  <2>1. PICK u \in us : \E h \in Analysis(u).routes : q = <<u.path, h>>
    BY <1>1 DEF FoundRoutes
  <2>2. PICK h \in Analysis(u).routes : q = <<u.path, h>>
    BY <2>1
  <2> DEFINE x == [id |-> Minted("route", u.path, h, 0), unit |-> UnitOf(g, u.path),
                   path |-> u.path, name |-> h]
  <2>3. x \in Routes(g, us)
    BY DEF Routes
  <2>4. x.path = u.path /\ x.name = h
    OBVIOUS
  <2> HIDE DEF x
  <2>5. QED BY <2>2, <2>3, <2>4
<1>4. QED BY <1>2, <1>3

LEMMA RoutesTold ==
  ASSUME NEW g, Known(g), NEW us
  PROVE  ToldOf(RouteEdges(g, Routes(g, us), Planned(g, us))) =
         SaidRoutes(FoundRoutes(version, us), Declared(version, us))
<1> DEFINE P == Planned(g, us)
           D == Declared(version, us)
           R == Routes(g, us)
           F == FoundRoutes(version, us)
<1>1. ASSUME NEW x \in R
      PROVE  LET e == Edge(FileId(g, x.path), x.id, "CONTAINS", x.unit)
             IN Tells(e) = <<<<x.path>>, <<x.path, x.name>>, "CONTAINS">> /\ e.to.kind = "route"
  BY EdgeTells, IdsTell
<1>2. ASSUME NEW x \in R, NEW r \in P
      PROVE  LET e == Edge(x.id, r.id, "HANDLED_BY", x.unit)
             IN /\ Tells(e) = <<<<x.path, x.name>>, <<r.path, r.name>>, "HANDLED_BY">>
                /\ e.to.kind = "item"
  BY EdgeTells, IdsTell
<1>3. ASSUME NEW s \in ToldOf(RouteEdges(g, R, P)) PROVE s \in SaidRoutes(F, D)
  <2>1. PICK e \in RouteEdges(g, R, P) : s = Tells(e)
    BY DEF ToldOf
  <2>2. PICK x \in R :
          \/ e = Edge(FileId(g, x.path), x.id, "CONTAINS", x.unit)
          \/ \E r \in P : /\ r.path = x.path /\ r.name = x.name /\ r.ordinal = 0
                          /\ e = Edge(x.id, r.id, "HANDLED_BY", x.unit)
    BY <2>1 DEF RouteEdges
  <2>3. PICK q \in F : q = <<x.path, x.name>>
    BY RoutesFound
  <2>4. CASE e = Edge(FileId(g, x.path), x.id, "CONTAINS", x.unit)
    <3>1. s = <<<<q[1]>>, q, "CONTAINS">>
      BY <1>1, <2>1, <2>3, <2>4
    <3>2. QED BY <3>1 DEF SaidRoutes
  <2>5. CASE \E r \in P : /\ r.path = x.path /\ r.name = x.name /\ r.ordinal = 0
                          /\ e = Edge(x.id, r.id, "HANDLED_BY", x.unit)
    <3>1. PICK r \in P : /\ r.path = x.path /\ r.name = x.name /\ r.ordinal = 0
                         /\ e = Edge(x.id, r.id, "HANDLED_BY", x.unit)
      BY <2>5
    <3>2. PICK t \in D : t.path = r.path /\ t.name = r.name /\ t.ordinal = r.ordinal
      BY PlannedDeclared
    <3>3. s = <<q, <<t.path, t.name>>, "HANDLED_BY">>
      BY <1>2, <2>1, <2>3, <3>1, <3>2
    <3>4. t.path = q[1] /\ t.name = q[2] /\ t.ordinal = 0
      BY <2>3, <3>1, <3>2
    <3>5. QED BY <3>3, <3>4 DEF SaidRoutes
  <2>6. QED BY <2>2, <2>4, <2>5
<1>4. ASSUME NEW s \in SaidRoutes(F, D) PROVE s \in ToldOf(RouteEdges(g, R, P))
  <2>1. PICK q \in F :
          \/ s = <<<<q[1]>>, q, "CONTAINS">>
          \/ \E t \in D : /\ t.path = q[1] /\ t.name = q[2] /\ t.ordinal = 0
                          /\ s = <<q, <<t.path, t.name>>, "HANDLED_BY">>
    BY DEF SaidRoutes
  <2>2. PICK x \in R : q = <<x.path, x.name>>
    BY RoutesFound
  <2>3. CASE s = <<<<q[1]>>, q, "CONTAINS">>
    <3> DEFINE e == Edge(FileId(g, x.path), x.id, "CONTAINS", x.unit)
    <3>1. e \in RouteEdges(g, R, P)
      BY DEF RouteEdges
    <3>2. s = Tells(e) /\ e.to.kind # "asset"
      BY <1>1, <2>2, <2>3
    <3> HIDE DEF e
    <3>3. QED BY <3>1, <3>2 DEF ToldOf
  <2>4. CASE \E t \in D : /\ t.path = q[1] /\ t.name = q[2] /\ t.ordinal = 0
                          /\ s = <<q, <<t.path, t.name>>, "HANDLED_BY">>
    <3>1. PICK t \in D : /\ t.path = q[1] /\ t.name = q[2] /\ t.ordinal = 0
                         /\ s = <<q, <<t.path, t.name>>, "HANDLED_BY">>
      BY <2>4
    <3>2. PICK r \in P : t.path = r.path /\ t.name = r.name /\ t.ordinal = r.ordinal
      BY PlannedDeclared
    <3> DEFINE e == Edge(x.id, r.id, "HANDLED_BY", x.unit)
    <3>3. e \in RouteEdges(g, R, P)
      BY <2>2, <3>1, <3>2 DEF RouteEdges
    <3>4. s = Tells(e) /\ e.to.kind # "asset"
      BY <1>2, <2>2, <3>1, <3>2
    <3> HIDE DEF e
    <3>5. QED BY <3>3, <3>4 DEF ToldOf
  <2>5. QED BY <2>1, <2>3, <2>4
<1>5. QED BY <1>3, <1>4

LEMMA ImportsTold ==
  ASSUME NEW g, Known(g), NEW us, NEW assets
  PROVE  ToldOf(ImportEdges(g, us, assets)) = SaidImports(version, us)
<1>1. \A u \in us : Analysis(u) = Reading(version, u)
  BY DEF Analysis, Reading
<1>2. ASSUME NEW u \in us, NEW w \in us
      PROVE  LET e == Edge(FileId(g, u.path), FileId(g, w.path), "IMPORTS", UnitOf(g, u.path))
             IN Tells(e) = <<<<u.path>>, <<w.path>>, "IMPORTS">> /\ e.to.kind = "file"
  BY EdgeTells, IdsTell
<1>3. ASSUME NEW u \in us, NEW a
      PROVE  Edge(FileId(g, u.path), AssetId(g, a), "IMPORTS", UnitOf(g, u.path)).to.kind = "asset"
  BY EdgeTells, IdsTell
<1>4. ASSUME NEW s \in ToldOf(ImportEdges(g, us, assets)) PROVE s \in SaidImports(version, us)
  <2>1. PICK e \in ImportEdges(g, us, assets) : s = Tells(e) /\ e.to.kind # "asset"
    BY DEF ToldOf
  <2>2. PICK u \in us :
          \/ \E w \in us : /\ w.path \in Analysis(u).imports /\ w # u
                           /\ e = Edge(FileId(g, u.path), FileId(g, w.path), "IMPORTS",
                                       UnitOf(g, u.path))
          \/ \E a \in assets :
               e = Edge(FileId(g, u.path), AssetId(g, a), "IMPORTS", UnitOf(g, u.path))
    BY <2>1 DEF ImportEdges
  <2>3. PICK w \in us : /\ w.path \in Analysis(u).imports /\ w # u
                        /\ e = Edge(FileId(g, u.path), FileId(g, w.path), "IMPORTS",
                                    UnitOf(g, u.path))
    BY <1>3, <2>1, <2>2
  <2>4. s = <<<<u.path>>, <<w.path>>, "IMPORTS">>
    BY <1>2, <2>1, <2>3
  <2>5. QED BY <1>1, <2>3, <2>4 DEF SaidImports
<1>5. ASSUME NEW s \in SaidImports(version, us) PROVE s \in ToldOf(ImportEdges(g, us, assets))
  <2>1. PICK u \in us, w \in us : /\ w.path \in Analysis(u).imports /\ w # u
                                  /\ s = <<<<u.path>>, <<w.path>>, "IMPORTS">>
    BY <1>1 DEF SaidImports
  <2> DEFINE e == Edge(FileId(g, u.path), FileId(g, w.path), "IMPORTS", UnitOf(g, u.path))
  <2>2. e \in ImportEdges(g, us, assets)
    BY <2>1 DEF ImportEdges
  <2>3. s = Tells(e) /\ e.to.kind # "asset"
    BY <1>2, <2>1
  <2> HIDE DEF e
  <2>4. QED BY <2>2, <2>3 DEF ToldOf
<1>6. QED BY <1>4, <1>5

LEMMA TreeTold ==
  ASSUME NEW g, Known(g), NEW us
  PROVE  ToldOf(TreeEdges(g, us)) = SaidTree(us)
<1> DEFINE D(x) == Edge(DirectoryId(g, Parent[x]), DirectoryId(g, x), "CONTAINS", TreeUnit(g))
           F(u) == Edge(DirectoryId(g, Parent[u.path]), FileId(g, u.path), "CONTAINS", TreeUnit(g))
<1>1. ASSUME NEW x
      PROVE  Tells(D(x)) = <<<<Parent[x]>>, <<x>>, "CONTAINS">> /\ D(x).to.kind # "asset"
  BY EdgeTells, IdsTell
<1>2. ASSUME NEW u \in us
      PROVE  Tells(F(u)) = <<<<Parent[u.path]>>, <<u.path>>, "CONTAINS">> /\ F(u).to.kind # "asset"
  BY EdgeTells, IdsTell
<1>3. TreeEdges(g, us) = {D(x) : x \in Directories(us) \ {Root}} \union {F(u) : u \in us}
  BY DEF TreeEdges
<1> HIDE DEF D, F
<1>4. QED BY <1>1, <1>2, <1>3 DEF ToldOf, SaidTree

\* What a draft says depends on the release and on what was read, and neither on the
\* identifiers it takes from the graph before nor on what the scan skipped.
LEMMA DraftSays ==
  ASSUME NEW g, Known(g), NEW us, Readable(us), version \in Version, NEW skipped
  PROVE  SaysOfFiles(Draft(g, us, skipped)) = Meaning(version, us)
<1> DEFINE d == Draft(g, us, skipped)
<1>1. Known(d) /\ Shaped(d) /\ EdgesOwned(d)
  BY DraftKnown, DraftShaped, DraftEdges DEF Readable
<1>2. IsFiniteSet(Planned(g, us))
  BY ReadableFinite
<1>3. SaysOfFiles(d).edges = ToldOf(d.edges)
  BY <1>1, EdgesTell DEF ToldOf
<1>4. ToldOf(d.edges) = SaidEdges(version, us)
  <2> DEFINE A == {Edge(FileId(g, r.path), r.id, "CONTAINS", r.unit) : r \in Planned(g, us)}
             B == Calls(Planned(g, us))
             C == RouteEdges(g, Routes(g, us), Planned(g, us))
             E == ImportEdges(g, us, Assets(us, skipped))
             F == TreeEdges(g, us)
  <2>1. d.edges = A \union B \union C \union E \union F
    BY DraftParts
  <2>2. /\ ToldOf(A) = SaidContains(Declared(version, us))
        /\ ToldOf(B) = SaidCalls(Declared(version, us))
        /\ ToldOf(C) = SaidRoutes(FoundRoutes(version, us), Declared(version, us))
        /\ ToldOf(E) = SaidImports(version, us)
        /\ ToldOf(F) = SaidTree(us)
    BY <1>2, ContainsTold, CallsTold, RoutesTold, ImportsTold, TreeTold
  <2> HIDE DEF A, B, C, E, F, d
  <2>3. ToldOf(d.edges) = ToldOf(A) \union ToldOf(B) \union ToldOf(C) \union ToldOf(E)
                           \union ToldOf(F)
    BY <2>1 DEF ToldOf
  <2>4. QED BY <2>2, <2>3 DEF SaidEdges
<1>5. {<<f.path, f.digest, f.version, f.analyzed>> : f \in d.files} =
      {<<u.path, u.digest, version, u.source # Nothing>> : u \in us}
  <2> DEFINE R(u) == [id |-> FileId(g, u.path), unit |-> UnitOf(g, u.path), path |-> u.path,
                      digest |-> u.digest, version |-> version, analyzed |-> u.source # Nothing]
  <2>1. d.files = {R(u) : u \in us}
    BY DraftParts
  <2>2. ASSUME NEW u \in us
        PROVE  <<R(u).path, R(u).digest, R(u).version, R(u).analyzed>> =
               <<u.path, u.digest, version, u.source # Nothing>>
    OBVIOUS
  <2> HIDE DEF R, d
  <2>3. QED BY <2>1, <2>2
<1>6. {<<i.path, i.name, i.ordinal>> : i \in d.items} =
      {<<t.path, t.name, t.ordinal>> : t \in Declared(version, us)}
  <2>1. {<<i.path, i.name, i.ordinal>> : i \in d.items} =
        {<<r.path, r.name, r.ordinal>> : r \in Planned(g, us)}
    <3> DEFINE R(r) == [id |-> r.id, unit |-> r.unit, path |-> r.path, name |-> r.name,
                        ordinal |-> r.ordinal]
    <3>1. d.items = {R(r) : r \in Planned(g, us)}
      BY DraftParts
    <3>2. ASSUME NEW r \in Planned(g, us)
          PROVE  <<R(r).path, R(r).name, R(r).ordinal>> = <<r.path, r.name, r.ordinal>>
      OBVIOUS
    <3> HIDE DEF R, d
    <3>3. QED BY <3>1, <3>2
  <2>2. QED BY <2>1, PlannedDeclared
<1>7. {Said(x) : x \in d.routes} = FoundRoutes(version, us)
  <2>1. \A x \in Routes(g, us) : Said(x) = <<x.path, x.name>>
    BY DEF Routes, Said
  <2>2. QED BY <2>1, DraftParts, RoutesFound
<1>8. {Said(x) : x \in d.directories} = {<<p>> : p \in Directories(us)}
  <2> DEFINE R(p) == [id |-> DirectoryId(g, p), unit |-> TreeUnit(g), path |-> p]
  <2>1. ASSUME NEW p PROVE Said(R(p)) = <<p>>
    BY DEF Said
  <2>2. d.directories = {R(p) : p \in Directories(us)}
    BY DraftParts
  <2> HIDE DEF R, d
  <2>3. QED BY <2>1, <2>2
<1> HIDE DEF d
<1>9. SaysOfFiles(d) =
        [files |-> {<<f.path, f.digest, f.version, f.analyzed>> : f \in d.files},
         items |-> {<<i.path, i.name, i.ordinal>> : i \in d.items},
         routes |-> {Said(r) : r \in d.routes},
         directories |-> {Said(x) : x \in d.directories},
         edges |-> SaysOfFiles(d).edges]
  BY DEF SaysOfFiles
<1>10. QED BY <1>3, <1>4, <1>5, <1>6, <1>7, <1>8, <1>9 DEF Meaning, d

-----------------------------------------------------------------------------
(* The graph says what the tree says *)

LEMMA PathFinite == IsFiniteSet(Path)
<1> DEFINE f == [i \in 1 .. Len(Files) |-> Files[i]]
<1>1. Len(Files) \in Nat /\ DOMAIN Files = 1 .. Len(Files)
  BY BuildAssumption
<1>2. f \in Surjection(1 .. Len(Files), Path)
  BY <1>1 DEF Surjection, Path
<1>3. IsFiniteSet(1 .. Len(Files))
  BY <1>1, FS_Interval
<1>4. QED BY <1>2, <1>3, FS_Surjection

LEMMA UnitsOfReadable ==
  ASSUME NEW digests \in [Path -> Content \union {Nothing}]
  PROVE  Readable(UnitsOf(digests))
<1> DEFINE scanned == {p \in Path : digests[p] # Nothing}
           f == [p \in scanned |-> AsScanned(p, digests[p])]
<1>1. f \in Surjection(scanned, UnitsOf(digests))
  BY DEF Surjection, UnitsOf
<1>2. IsFiniteSet(scanned)
  BY PathFinite, FS_Subset
<1>3. IsFiniteSet(UnitsOf(digests))
  BY <1>1, <1>2, FS_Surjection
<1>4. Distinct(UnitsOf(digests))
  BY DEF Distinct, UnitsOf, AsScanned
<1>5. ASSUME NEW u \in UnitsOf(digests)
      PROVE  /\ u.path \in Path
             /\ u.source # Nothing => u.source \in Content /\ Language[u.path] \in Covered
  BY DEF UnitsOf, AsScanned
<1>6. QED BY <1>3, <1>4, <1>5 DEF Readable

\* A graph without records says nothing.
LEMMA EmptySays ==
  ASSUME NEW g, Nodes(g) = {}, g.edges = {}, NEW v
  PROVE  SaysOfFiles(g) = Meaning(v, {})
<1>1. /\ g.files = {} /\ g.items = {} /\ g.routes = {} /\ g.directories = {} /\ g.assets = {}
  BY DEF Nodes
<1>2. Declared(v, {}) = {} /\ FoundRoutes(v, {}) = {} /\ Directories({}) = {}
  BY DEF Declared, FoundRoutes, Directories
<1>3. SaidEdges(v, {}) = {}
  BY <1>2 DEF SaidEdges, SaidContains, SaidCalls, SaidRoutes, SaidImports, SaidTree
<1>4. SaysOfFiles(g) =
        [files |-> {}, items |-> {}, routes |-> {}, directories |-> {}, edges |-> {}]
  BY <1>1 DEF SaysOfFiles
<1>5. QED BY <1>2, <1>3, <1>4 DEF Meaning

LEMMA EmptyKnown == Known(EmptyGraph) /\ Nodes(EmptyGraph) = {} /\ EmptyGraph.edges = {}
BY DEF EmptyGraph, Known, FilesKnown, ItemsKnown, RoutesKnown, DirectoriesKnown, AssetsKnown,
       Nodes

\* The first build of a tree says what one release reads out of its files.
LEMMA FreshSays ==
  ASSUME TypeOK
  PROVE  SaysOfFiles(FreshBuild) = Meaning(version, UnitsOf(tree))
<1>1. FreshBuild = Draft(EmptyGraph, UnitsOf(tree), present)
  BY DEF FreshBuild, UnitsOf, AsScanned
<1>2. Readable(UnitsOf(tree)) /\ version \in Version
  BY UnitsOfReadable DEF TypeOK
<1>3. QED BY <1>1, <1>2, EmptyKnown, DraftSays

LEMMA GInvInit == Init => GInv
<1> SUFFICES ASSUME Init PROVE GInv
  OBVIOUS
<1>1. graph = EmptyGraph /\ units = {} /\ at = 1 /\ pc = "idle" /\ ~settled
  BY DEF Init
<1>2. IInv
  BY IInvInit
<1>3. CacheTrue
  BY DEF Init, CacheTrue
<1>4. ScanTrue /\ TreeSays
  BY <1>1 DEF ScanTrue, TreeSays, Quiet
<1>5. UnitsComplete
  BY <1>1, FS_EmptySet DEF UnitsComplete
<1>6. graph.files = {} /\ graph.directories = {}
  BY <1>1 DEF EmptyGraph
<1>7. TreeKnown
  BY <1>6 DEF TreeKnown
<1>8. GraphSays
  <2>1. RecordedUnits(graph) = {}
    BY <1>6 DEF RecordedUnits
  <2>2. SaysOfFiles(graph) = Meaning(version, {})
    BY <1>1, EmptyKnown, EmptySays
  <2>3. version \in Version
    BY DEF Init
  <2>4. QED BY <1>6, <2>1, <2>2, <2>3 DEF GraphSays
<1>9. QED BY <1>2, <1>3, <1>4, <1>5, <1>7, <1>8 DEF GInv

\* A file learned as it was scanned, or not at all as far as this matters.
LEMMA LearnCompletes ==
  ASSUME GInv, NEW i \in Turn, NEW digest, NEW source, Learn(i, digest, source),
         missed => missed',
         ~missed' => /\ digest = scan.digest[Files[i]]
                     /\ source = IF Language[Files[i]] \in Covered THEN digest ELSE Nothing
  PROVE  UnitsComplete'
<1> DEFINE new == [path |-> Files[i], digest |-> digest, source |-> source]
<1>1. units' = units \union {new} /\ at' = i + 1 /\ scan' = scan
  BY DEF Learn
<1>2. new.path = Files[i] /\ (~missed' => new = AsScanned(Files[i], scan.digest[Files[i]]))
  BY DEF AsScanned
<1> HIDE DEF new
<1>3. IsFiniteSet(units')
  BY <1>1, FS_AddElement DEF GInv, UnitsComplete
<1>4. ASSUME ~missed', NEW u \in units' PROVE u = AsScanned(u.path, scan.digest[u.path])
  BY <1>1, <1>2, <1>4 DEF GInv, UnitsComplete
<1>5. i \in Nat /\ at \in Nat /\ at <= i
  BY BuildAssumption DEF GInv, IInv, TypeOK, Turn
<1>6. ASSUME NEW k \in 1 .. i, scan.digest[Files[k]] # Nothing
      PROVE  \E u \in units' : u.path = Files[k]
  <2>1. CASE k \in 1 .. at - 1
    BY <1>1, <1>6, <2>1 DEF GInv, UnitsComplete
  <2>2. CASE k = i
    BY <1>1, <1>2, <2>2
  <2>3. k \notin at .. i - 1
    BY <1>6 DEF Turn
  <2>4. QED BY <1>5, <2>1, <2>2, <2>3
<1>7. at' - 1 = i
  BY <1>1, <1>5
<1>8. QED BY <1>1, <1>3, <1>4, <1>6, <1>7 DEF UnitsComplete

\* The key a file is looked up under holds the digest of the scan.
LEMMA TurnKey ==
  ASSUME GInv, NEW i \in Turn, Language[Files[i]] \in Covered
  PROVE  CacheKey(Files[i]) \in Key /\ CacheKey(Files[i]).digest = scan.digest[Files[i]]
<1>1. i \in DOMAIN Files
  BY BuildAssumption DEF GInv, IInv, TypeOK, Turn
<1>2. scan.digest[Files[i]] \in Content
  BY <1>1 DEF Turn, Path, GInv, IInv, TypeOK
<1>3. QED BY <1>2 DEF CacheKey, Key, GInv, IInv, TypeOK

LEMMA ReadingStep ==
  ASSUME GInv, RecordFile \/ CacheHit \/ ReadFile \/ ReadFails
  PROVE  CacheTrue' /\ UnitsComplete' /\ (missed => missed')
<1>1. CASE RecordFile
  <2>1. PICK i \in Turn : /\ Language[Files[i]] \notin Covered
                          /\ Learn(i, scan.digest[Files[i]], Nothing)
    BY <1>1 DEF RecordFile
  <2>2. UNCHANGED <<cache, missed>>
    BY <1>1 DEF RecordFile
  <2>3. UnitsComplete'
    BY <2>1, <2>2, LearnCompletes
  <2>4. QED BY <2>2, <2>3 DEF GInv, CacheTrue
<1>2. CASE CacheHit
  <2>1. PICK i \in Turn : /\ Language[Files[i]] \in Covered
                          /\ cache[CacheKey(Files[i])] \in Content
                          /\ Learn(i, cache[CacheKey(Files[i])], cache[CacheKey(Files[i])])
    BY <1>2 DEF CacheHit, Decodes
  <2>2. UNCHANGED <<cache, missed>>
    BY <1>2 DEF CacheHit
  <2>3. ~missed => cache[CacheKey(Files[i])] = scan.digest[Files[i]]
    BY <2>1, TurnKey, BuildAssumption DEF GInv, CacheTrue
  <2>4. UnitsComplete'
    BY <2>1, <2>2, <2>3, LearnCompletes
  <2>5. QED BY <2>2, <2>4 DEF GInv, CacheTrue
<1>3. CASE ReadFile
  <2>1. PICK i \in Turn :
          /\ Language[Files[i]] \in Covered
          /\ Learn(i, tree[Files[i]], tree[Files[i]])
          /\ \E stored \in {tree[Files[i]], Nothing} :
               cache' = [cache EXCEPT ![CacheKey(Files[i])] = stored]
          /\ missed' = (missed \/ tree[Files[i]] # scan.digest[Files[i]])
    BY <1>3 DEF ReadFile
  <2>2. missed => missed'
    BY <2>1
  <2>3. ~missed' => tree[Files[i]] = scan.digest[Files[i]]
    BY <2>1
  <2>4. UnitsComplete'
    BY <2>1, <2>2, <2>3, LearnCompletes
  <2>5. CacheTrue'
    <3>1. PICK stored \in {tree[Files[i]], Nothing} :
            cache' = [cache EXCEPT ![CacheKey(Files[i])] = stored]
      BY <2>1
    <3>2. cache \in [Key -> Content \union {Nothing, Broken}]
      BY DEF GInv, IInv, TypeOK
    <3>3. ASSUME ~missed', NEW k \in Key PROVE cache'[k] \in {k.digest, Nothing, Broken}
      <4>1. CASE k = CacheKey(Files[i])
        BY <2>1, <2>3, <3>1, <3>2, <3>3, <4>1, TurnKey
      <4>2. CASE k # CacheKey(Files[i])
        BY <2>2, <3>1, <3>2, <3>3, <4>2 DEF GInv, CacheTrue
      <4>3. QED BY <4>1, <4>2
    <3>4. QED BY <3>3 DEF CacheTrue
  <2>6. QED BY <2>2, <2>4, <2>5
<1>4. CASE ReadFails
  <2>1. PICK i \in Turn : Learn(i, scan.digest[Files[i]], Nothing)
    BY <1>4 DEF ReadFails
  <2>2. missed'
    BY <1>4 DEF ReadFails
  <2>3. UnitsComplete'
    BY <2>1, <2>2, LearnCompletes
  <2>4. QED BY <2>2, <2>3 DEF CacheTrue
<1>5. QED BY <1>1, <1>2, <1>3, <1>4

\* When no file is left, pass one has learned what the scan saw.
LEMMA ScanRead ==
  ASSUME GInv, ~missed, Turn = {}
  PROVE  units = UnitsOf(scan.digest)
<1>1. Len(Files) \in Nat /\ DOMAIN Files = 1 .. Len(Files) /\ at \in Nat /\ at >= 1
  BY BuildAssumption DEF GInv, IInv, TypeOK
<1> DEFINE S == {k \in at .. Len(Files) : scan.digest[Files[k]] # Nothing}
<1>2. S = {}
  <2> SUFFICES ASSUME S # {} PROVE FALSE
    OBVIOUS
  <2>1. S \in SUBSET Nat
    BY <1>1
  <2>2. PICK m \in S : \A k \in S : m <= k
    BY <2>1, Least
  <2>3. m \in Nat /\ m \in at .. Len(Files) /\ scan.digest[Files[m]] # Nothing
    BY <2>1
  <2>4. ASSUME NEW j \in at .. m - 1 PROVE scan.digest[Files[j]] = Nothing
    <3>1. j \in at .. Len(Files) /\ j < m /\ j \in Nat
      BY <1>1, <2>3
    <3>2. j \notin S
      BY <2>2, <2>3, <3>1
    <3>3. QED BY <3>1, <3>2
  <2>5. m \in Turn
    BY <2>3, <2>4 DEF Turn
  <2>6. QED BY <2>5
<1>3. ASSUME NEW u \in units PROVE u \in UnitsOf(scan.digest)
  <2>1. u = AsScanned(u.path, scan.digest[u.path]) /\ u.path \in Path /\ u.digest \in Content
    BY DEF GInv, UnitsComplete, IInv, TypeOK
  <2>2. u.digest = scan.digest[u.path]
    BY <2>1 DEF AsScanned
  <2>3. scan.digest[u.path] # Nothing
    BY <2>1, <2>2, BuildAssumption
  <2>4. QED BY <2>1, <2>3 DEF UnitsOf
<1>4. ASSUME NEW p \in Path, scan.digest[p] # Nothing
      PROVE  AsScanned(p, scan.digest[p]) \in units
  <2>1. PICK k \in DOMAIN Files : p = Files[k]
    BY DEF Path
  <2>2. k \in 1 .. at - 1
    BY <1>1, <1>2, <1>4, <2>1
  <2>3. PICK u \in units : u.path = p
    BY <1>4, <2>1, <2>2 DEF GInv, UnitsComplete
  <2>4. QED BY <2>3 DEF GInv, UnitsComplete
<1>5. QED BY <1>3, <1>4 DEF UnitsOf

\* A commit leaves its draft, or the graph without records it found.
LEMMA CommitGraph ==
  ASSUME IInv, Commit
  PROVE  \/ /\ UNCHANGED graph
            /\ units = {} /\ Nodes(graph) = {} /\ graph.edges = {}
         \/ graph' = Draft(graph, units, scan.skipped)
<1> DEFINE d == Draft(graph, units, scan.skipped)
           a == Applied(graph, units, d)
<1>1. Distinct(units) /\ Known(graph) /\ EdgesOwned(graph)
  BY DEF IInv, UnitsKnown, Distinct, GraphKnown
<1>2. ~Refused(d)
  BY <1>1, DraftKnown, NeverRefused
<1>3. CASE units = {} /\ analyzed_units(graph) = {}
  <2>1. UNCHANGED graph
    BY <1>3 DEF Commit
  <2>2. Nodes(graph) = {}
    BY <1>3 DEF analyzed_units
  <2>3. graph.edges = {}
    BY <1>1, <1>3 DEF EdgesOwned
  <2>4. QED BY <1>3, <2>1, <2>2, <2>3
<1>4. CASE ~(units = {} /\ analyzed_units(graph) = {})
  <2>1. graph' = a
    BY <1>2, <1>4 DEF Commit
  <2>2. a = [files |-> a.files, items |-> a.items, routes |-> a.routes,
             directories |-> a.directories, assets |-> a.assets, edges |-> a.edges]
    BY DEF Applied
  <2>3. d = [files |-> d.files, items |-> d.items, routes |-> d.routes,
             directories |-> d.directories, assets |-> d.assets, edges |-> d.edges]
    BY DEF Draft
  <2>4. /\ a.files = d.files /\ a.items = d.items /\ a.routes = d.routes
        /\ a.directories = d.directories /\ a.assets = d.assets /\ a.edges = d.edges
    BY <1>1, AppliedParts
  <2> HIDE DEF a, d
  <2>5. a = d
    BY <2>2, <2>3, <2>4
  <2>6. QED BY <2>1, <2>5 DEF d
<1>5. QED BY <1>3, <1>4

LEMMA TreeUnitKind ==
  ASSUME TreeKnown
  PROVE  TreeUnit(graph).kind = "tree"
<1>1. CASE graph.directories = {}
  BY <1>1, MintedFields DEF TreeUnit
<1>2. CASE graph.directories # {}
  <2>1. (CHOOSE d \in graph.directories : TRUE) \in graph.directories
    BY <1>2
  <2>2. QED BY <1>2, <2>1 DEF TreeUnit, TreeKnown
<1>3. QED BY <1>1, <1>2

LEMMA CommitSays ==
  ASSUME GInv, Commit
  PROVE  TreeKnown' /\ GraphSays' /\ TreeSays'
<1>1. /\ UNCHANGED <<tree, version, settled, missed>> /\ pc = "reading" /\ Turn = {}
  BY DEF Commit, around
<1>2. version \in Version /\ Known(graph) /\ Distinct(units) /\ \A u \in units : u.path \in Path
  BY DEF GInv, IInv, TypeOK, GraphKnown, UnitsKnown, Distinct
<1>3. ASSUME ~missed PROVE units = UnitsOf(scan.digest) /\ Readable(units)
  <2>1. scan.digest \in [Path -> Content \union {Nothing}]
    BY DEF GInv, IInv, TypeOK
  <2>2. QED BY <1>1, <1>3, <2>1, ScanRead, UnitsOfReadable
<1>4. ASSUME ~missed, settled PROVE units = UnitsOf(tree)
  BY <1>1, <1>3, <1>4 DEF GInv, ScanTrue
<1>5. CASE UNCHANGED graph /\ units = {} /\ Nodes(graph) = {} /\ graph.edges = {}
  <2>1. graph.files = {} /\ RecordedUnits(graph) = {}
    BY <1>5 DEF Nodes, RecordedUnits
  <2>2. SaysOfFiles(graph) = Meaning(version, {})
    BY <1>5, EmptySays
  <2>3. TreeKnown'
    BY <1>5 DEF GInv, TreeKnown
  <2>4. GraphSays'
    BY <1>2, <1>5, <2>1, <2>2 DEF GraphSays
  <2>5. TreeSays'
    BY <1>1, <1>4, <1>5, <2>2 DEF TreeSays, Quiet
  <2>6. QED BY <2>3, <2>4, <2>5
<1>6. CASE graph' = Draft(graph, units, scan.skipped)
  <2> DEFINE R(u) == [id |-> FileId(graph, u.path), unit |-> UnitOf(graph, u.path),
                      path |-> u.path, digest |-> u.digest, version |-> version,
                      analyzed |-> u.source # Nothing]
  <2>1. graph'.files = {R(u) : u \in units}
    BY <1>6, DraftParts
  <2>2. \A u \in units : /\ R(u).path = u.path /\ R(u).digest = u.digest
                         /\ R(u).version = version
    OBVIOUS
  <2> HIDE DEF R
  <2>3. TreeKnown'
    <3>1. \A f \in graph'.files : f.path \in Path
      BY <1>2, <2>1, <2>2
    <3>2. graph'.directories =
            {[id |-> DirectoryId(graph, p), unit |-> TreeUnit(graph), path |-> p] :
               p \in Directories(units)}
      BY <1>6, DraftParts
    <3>3. TreeUnit(graph).kind = "tree"
      BY TreeUnitKind DEF GInv
    <3>4. QED BY <3>1, <3>2, <3>3 DEF TreeKnown
  <2>4. ASSUME ~missed PROVE SaysOfFiles(graph') = Meaning(version, units)
    BY <1>2, <1>3, <1>6, <2>4, DraftSays
  <2>5. ASSUME ~missed PROVE RecordedUnits(graph') = units
    <3>1. ASSUME NEW u \in units PROVE AsScanned(R(u).path, R(u).digest) = u
      <4>1. u = AsScanned(u.path, scan.digest[u.path])
        BY <2>5 DEF GInv, UnitsComplete
      <4>2. u.digest = scan.digest[u.path]
        BY <4>1 DEF AsScanned
      <4>3. QED BY <2>2, <4>1, <4>2
    <3>2. RecordedUnits(graph') = {AsScanned(R(u).path, R(u).digest) : u \in units}
      BY <2>1 DEF RecordedUnits
    <3>3. QED BY <3>1, <3>2
  <2>6. GraphSays'
    <3>1. \A f \in graph'.files : f.version = version
      BY <2>1, <2>2
    <3>2. QED BY <1>1, <1>2, <2>4, <2>5, <3>1 DEF GraphSays
  <2>7. TreeSays'
    BY <1>1, <1>4, <2>4 DEF TreeSays, Quiet
  <2>8. QED BY <2>3, <2>6, <2>7
<1>7. QED BY <1>5, <1>6, CommitGraph DEF GInv

\* A build that finds nothing to read finds a graph that says what the tree does.
LEMMA UnchangedSays ==
  ASSUME GInv, ~missed, every_file_unchanged
  PROVE  SaysOfFiles(graph) = Meaning(version, UnitsOf(tree))
<1>1. PICK v \in Version : /\ \A f \in graph.files : f.version = v
                           /\ SaysOfFiles(graph) = Meaning(v, RecordedUnits(graph))
  BY DEF GInv, GraphSays
<1>2. ASSUME NEW p \in Path, tree[p] # Nothing
      PROVE  \E f \in graph.files : f.path = p /\ f.digest = tree[p] /\ f.version = version
  BY <1>2 DEF every_file_unchanged, existing_unit
<1>3. v = version
  <2>1. PICK p \in Path : tree[p] # Nothing
    BY DEF every_file_unchanged
  <2>2. QED BY <1>1, <1>2, <2>1
<1>4. FilesKnown(graph) /\ TreeKnown
  BY DEF GInv, IInv, GraphKnown, Known
<1>5. ASSUME NEW f \in graph.files
      PROVE  f.path \in Path /\ tree[f.path] # Nothing /\ f.digest = tree[f.path]
  <2>1. f.unit \in analyzed_units(graph)
    BY DEF analyzed_units, Nodes
  <2>2. f.unit # TreeUnit(graph)
    BY <1>4, TreeUnitKind DEF FilesKnown
  <2>3. PICK h \in graph.files : h.unit = f.unit /\ tree[h.path] # Nothing
    BY <2>1, <2>2 DEF every_file_unchanged
  <2>4. h.path = f.path
    BY <1>4, <2>3 DEF FilesKnown
  <2>5. f.path \in Path
    BY <1>4 DEF TreeKnown
  <2>6. PICK k \in graph.files : k.path = f.path /\ k.digest = tree[f.path]
    BY <1>2, <2>3, <2>4, <2>5
  <2>7. k = f
    BY <1>4, <2>6 DEF FilesKnown
  <2>8. QED BY <2>3, <2>4, <2>5, <2>6, <2>7
<1>6. RecordedUnits(graph) = UnitsOf(tree)
  <2>1. ASSUME NEW f \in graph.files PROVE AsScanned(f.path, f.digest) \in UnitsOf(tree)
    BY <1>5 DEF UnitsOf
  <2>2. ASSUME NEW p \in Path, tree[p] # Nothing
        PROVE  AsScanned(p, tree[p]) \in RecordedUnits(graph)
    <3>1. PICK f \in graph.files : f.path = p /\ f.digest = tree[p]
      BY <1>2, <2>2
    <3>2. QED BY <3>1 DEF RecordedUnits
  <2>3. QED BY <2>1, <2>2 DEF RecordedUnits, UnitsOf
<1>7. QED BY <1>1, <1>3, <1>6

LEMMA GInvStep == GInv /\ [Next]_vars => GInv'
<1> SUFFICES ASSUME GInv, [Next]_vars PROVE GInv'
  OBVIOUS
<1>1. IInv'
  BY IInvStep DEF GInv
<1>2. ASSUME UNCHANGED graph, missed => missed' PROVE TreeKnown' /\ GraphSays'
  BY <1>2 DEF GInv, TreeKnown, GraphSays
<1>3. CASE Start
  <2>1. UNCHANGED <<tree, present, version, cache, graph, missed>> /\ settled'
    BY <1>3 DEF Start, around
  <2>2. CacheTrue'
    BY <2>1 DEF GInv, CacheTrue
  <2>3. CASE every_file_unchanged /\ UNCHANGED build
    <3>1. UNCHANGED <<pc, scan, at, units>>
      BY <2>3 DEF build
    <3>2. pc = "idle"
      BY <1>3 DEF Start
    <3>3. ScanTrue'
      BY <3>1, <3>2 DEF ScanTrue
    <3>4. UnitsComplete'
      BY <2>1, <3>1 DEF GInv, UnitsComplete
    <3>5. TreeSays'
      BY <2>1, <2>3, UnchangedSays DEF TreeSays, Quiet
    <3>6. QED BY <1>1, <1>2, <2>1, <2>2, <3>3, <3>4, <3>5 DEF GInv
  <2>4. CASE pc' = "reading" /\ scan' = Found /\ at' = 1 /\ units' = {}
    <3>1. ScanTrue' /\ TreeSays'
      BY <2>1, <2>4 DEF ScanTrue, TreeSays, Quiet, Found
    <3>2. UnitsComplete'
      BY <2>4, FS_EmptySet DEF UnitsComplete
    <3>3. QED BY <1>1, <1>2, <2>1, <2>2, <3>1, <3>2 DEF GInv
  <2>5. QED BY <1>3, <2>3, <2>4 DEF Start
<1>4. CASE RecordFile \/ CacheHit \/ ReadFile \/ ReadFails
  <2>1. UNCHANGED <<tree, version, graph, pc, scan, settled>> /\ pc = "reading"
    BY <1>4 DEF RecordFile, CacheHit, ReadFile, ReadFails, Learn, around
  <2>2. ScanTrue' /\ TreeSays'
    BY <2>1 DEF GInv, ScanTrue, TreeSays, Quiet
  <2>3. CacheTrue' /\ UnitsComplete' /\ (missed => missed')
    BY <1>4, ReadingStep
  <2>4. QED BY <1>1, <1>2, <2>1, <2>2, <2>3 DEF GInv
<1>5. CASE Commit
  <2>1. UNCHANGED <<cache, missed>> /\ pc' = "idle" /\ at' = 1 /\ units' = {}
    BY <1>5 DEF Commit
  <2>2. CacheTrue' /\ ScanTrue'
    BY <2>1 DEF GInv, CacheTrue, ScanTrue
  <2>3. UnitsComplete'
    BY <2>1, FS_EmptySet DEF UnitsComplete
  <2>4. QED BY <1>1, <1>5, <2>2, <2>3, CommitSays DEF GInv
<1>6. CASE Edit \/ EditAsset \/ Upgrade
  <2>1. UNCHANGED <<cache, graph, pc, scan, at, units, missed>> /\ ~settled'
    BY <1>6 DEF Edit, EditAsset, Upgrade, Around, build
  <2>2. CacheTrue' /\ ScanTrue' /\ UnitsComplete' /\ TreeSays'
    BY <2>1 DEF GInv, CacheTrue, ScanTrue, UnitsComplete, TreeSays, Quiet
  <2>3. QED BY <1>1, <1>2, <2>1, <2>2 DEF GInv
<1>7. CASE Damage
  <2>1. UNCHANGED <<tree, version, graph, pc, scan, at, units, settled, missed>>
    BY <1>7 DEF Damage, around, build
  <2>2. ScanTrue' /\ UnitsComplete' /\ TreeSays'
    BY <2>1 DEF GInv, ScanTrue, UnitsComplete, TreeSays, Quiet
  <2>3. CacheTrue'
    <3>1. PICK k \in Key : cache' = [cache EXCEPT ![k] = Broken]
      BY <1>7 DEF Damage
    <3>2. cache \in [Key -> Content \union {Nothing, Broken}]
      BY DEF GInv, IInv, TypeOK
    <3>3. QED BY <2>1, <3>1, <3>2 DEF GInv, CacheTrue
  <2>4. QED BY <1>1, <1>2, <2>1, <2>2, <2>3 DEF GInv
<1>8. CASE Crash
  <2>1. UNCHANGED <<cache, graph, missed>> /\ ~settled' /\ pc' = "idle" /\ at' = 1 /\ units' = {}
    BY <1>8 DEF Crash
  <2>2. CacheTrue' /\ ScanTrue' /\ TreeSays'
    BY <2>1 DEF GInv, CacheTrue, ScanTrue, TreeSays, Quiet
  <2>3. UnitsComplete'
    BY <2>1, FS_EmptySet DEF UnitsComplete
  <2>4. QED BY <1>1, <1>2, <2>1, <2>2, <2>3 DEF GInv
<1>9. CASE UNCHANGED vars
  <2>1. UNCHANGED <<tree, version, cache, graph, pc, scan, at, units, settled, missed>>
    BY <1>9 DEF vars
  <2>2. CacheTrue' /\ ScanTrue' /\ UnitsComplete' /\ TreeSays'
    BY <2>1 DEF GInv, CacheTrue, ScanTrue, UnitsComplete, TreeSays, Quiet
  <2>3. QED BY <1>1, <1>2, <2>1, <2>2 DEF GInv
<1>10. QED BY <1>3, <1>4, <1>5, <1>6, <1>7, <1>8, <1>9 DEF Next

-----------------------------------------------------------------------------
(* The theorems *)

\* However often a tree is built and whatever happens around the builds, every
\* variable keeps its kind; in the committed graph no two records share an identifier,
\* and every edge joins two records.
THEOREM TypeCorrect == Spec => []TypeOK
BY Invariance, PTL DEF IInv

\* No build is refused the change set it has drafted for two nodes of one identifier,
\* whatever was edited, deleted, upgraded or cached since the graph it looks
\* identities up in was made.
THEOREM DraftsAlwaysAccepted == Spec => []DraftAccepted
<1>1. ASSUME IInv PROVE DraftAccepted
  <2>1. Distinct(units) /\ Known(graph)
    BY <1>1 DEF IInv, UnitsKnown, Distinct, GraphKnown
  <2>2. Known(Draft(graph, units, scan.skipped))
    BY <2>1, DraftKnown
  <2>3. QED BY <2>2, NeverRefused DEF DraftAccepted
<1>2. QED BY <1>1, Invariance, PTL

\* A record never describes other bytes than its digest says: not after an edit
\* between scan and read, not out of a cache entry filed under another digest.
THEOREM RecordsAlwaysMatchDigest == Spec => []RecordsMatchDigest
BY Invariance, PTL DEF IInv

\* What a build finds again keeps its identifier, through every history.
THEOREM IdentityAlwaysKept == Spec => IdentityKept
<1> DEFINE Kept ==
      /\ \A f \in graph.files, h \in graph'.files :
           f.path = h.path => f.id = h.id /\ f.unit = h.unit
      /\ \A i \in graph.items, j \in graph'.items :
           i.path = j.path /\ i.name = j.name /\ i.ordinal = j.ordinal => i.id = j.id
      /\ \A d \in graph.directories, e \in graph'.directories :
           d.path = e.path => d.id = e.id /\ d.unit = e.unit
      /\ \A x \in graph.assets, y \in graph'.assets : x.path = y.path => x.id = y.id
<1>1. IInv /\ [Next]_vars => [Kept]_graph
  <2> SUFFICES ASSUME IInv, Commit, graph' # graph PROVE Kept
    BY GraphSteps
  <2> DEFINE d == Draft(graph, units, scan.skipped)
  <2>1. /\ graph'.files = d.files /\ graph'.items = d.items
        /\ graph'.directories = d.directories /\ graph'.assets = d.assets
    BY CommitOutcome
  <2>2. Known(graph)
    BY DEF IInv, GraphKnown
  <2>3. ASSUME NEW f \in graph.files, NEW h \in graph'.files, f.path = h.path
        PROVE  f.id = h.id /\ f.unit = h.unit
    <3>1. h.id = FileId(graph, h.path) /\ h.unit = UnitOf(graph, h.path)
      BY <2>1, DraftParts
    <3>2. QED BY <2>2, <2>3, <3>1, FileFound DEF Known
  <2>4. ASSUME NEW i \in graph.items, NEW j \in graph'.items,
               i.path = j.path, i.name = j.name, i.ordinal = j.ordinal
        PROVE  i.id = j.id
    <3>1. PICK r \in Planned(graph, units) : /\ j.id = r.id /\ j.path = r.path
                                             /\ j.name = r.name /\ j.ordinal = r.ordinal
      BY <2>1, DraftParts
    <3>2. j.id = ItemId(graph, j.path, j.name, j.ordinal)
      BY <3>1, PlannedRecord
    <3>3. QED BY <2>2, <2>4, <3>2, ItemFound DEF Known
  <2>5. ASSUME NEW x \in graph.directories, NEW e \in graph'.directories, x.path = e.path
        PROVE  x.id = e.id /\ x.unit = e.unit
    <3>1. e.id = DirectoryId(graph, e.path) /\ e.unit = TreeUnit(graph)
      BY <2>1, DraftParts
    <3>2. QED BY <2>2, <2>5, <3>1, DirectoryIdPath, TreeUnitFound DEF Known
  <2>6. ASSUME NEW x \in graph.assets, NEW y \in graph'.assets, x.path = y.path
        PROVE  x.id = y.id
    <3>1. y.id = AssetId(graph, y.path)
      BY <2>1, DraftParts
    <3>2. QED BY <2>2, <2>6, <3>1, AssetIdPath DEF Known
  <2>7. QED BY <2>3, <2>4, <2>5, <2>6
<1>2. QED BY <1>1, Invariance, PTL DEF Spec, IdentityKept, Kept

\* A settled build leaves the graph a first build of the same tree would make,
\* whatever was built, cached, damaged, interrupted or released before: for every
\* tree, every analyzer and every history.
THEOREM GraphAlwaysMatchesTree == Spec => []GraphMatchesTree
<1>1. GInv => GraphMatchesTree
  BY FreshSays DEF GInv, IInv, TreeSays, GraphMatchesTree
<1>2. QED BY <1>1, GInvInit, GInvStep, PTL DEF Spec

=============================================================================
