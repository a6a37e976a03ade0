# A TLA+ model of nostdb-core

`nostdb-core` keeps a graph of a software project in one database file, mirrors
it in a readable `.nost` file, rebuilds it from the sources, and lets people,
queries and external providers change it. This directory holds TLA+ modules for
the parts of it that have state and can go wrong in time, and for the forms it
reads, writes and derives; the TLC configurations that check them; and the proofs
that TLAPS checks about them.

Paths below are those of the repository as it lies under `src/`; the Rust
sources are in `src/src/`.

## 1. The system

| component | source | state it keeps | operations | what makes it correct |
|---|---|---|---|---|
| Database file | `storage.rs`, `generation.rs` | `<path>`, `<path>.staged`, `<path>.journal`; a `Database` value in memory | create, open, commit, recover | a reader sees whole generations only; an acknowledged commit survives any crash; recovery finishes exactly what was durable |
| Multi-file journal | `journal.rs` | staged files, one journal for all of them | begin, stage, remove, commit, abandon, recover_at | all files change or none does, whatever is interrupted |
| Transactions | `transaction.rs` | the base generation and a private copy of the graph | begin, run, commit, rollback | commits are serial; the file holds what was acknowledged, and beyond it only the whole work of commits that failed after the rename |
| Project and synchronization | `project.rs`, `sync.rs` | the database, the `.nost` file, the baseline that records their last agreement | synchronize, export, build, apply, query, add and remove links | nobody's work disappears from both files; a conflict touches neither |
| Ownership and change sets | `apply.rs`, `contribution.rs`, `mutate.rs`, `change.rs` | the claims of each owner on each record | apply a change set, write with a query, adopt a text | no owner loses a claim through another; no edge loses an endpoint |
| Federation | `federation.rs`, `locator.rs`, `link.rs` | one breadth-first walk: queue, opened sources, link statuses | resolve | limits hold, every link is answered, the nearest source wins |
| Provider conversation | `provider.rs`, `provider_process.rs` | one stream of lines and content in each direction | initialize, list, read, digest, close | an answer belongs to its request; every call returns |
| Build | `build.rs`, `analysis.rs` | records with digest, release and persisted identities | build | an incremental build equals a fresh one; identities last |
| Parse cache | `cache.rs` | two tiers of files on disk | get, put | a hit equals a parse |
| Settings and link mirror | `settings.rs`, `project.rs` | links in the settings and in the graph | read, layer, render, mirror, refresh | both name the same links; a refresh keeps what a person wrote |
| Query execution | `execute.rs`, `mutate.rs`, `procedure.rs`, `cancel.rs`, `result.rs` | rows, graph, summary and a cancellation flag of one statement | run, clause by clause | what is found is there, once; what is written is what was asked, counted and owned |
| Query language | `cypher.rs` | none | tokenize, parse | every query is a tree or a refusal with its code |
| `.nost` documents | `nost/` | none | lex, parse, validate, format, convert | canonical text round-trips; no comment is lost |
| Container format | `container.rs`, `encoding.rs`, `crc.rs` | none | encode, decode | a damaged file is refused; a stored graph comes back |
| Planning and packets | `plan.rs`, `packet.rs` | none | plan, build a packet | a run stays within a plan that is within its budget; a packet is about its unit |
| Change documents | `change_document.rs`, `change.rs` | none | parse, validate | all of a batch or nothing; the wrong member is told |
| Scan and ignore rules | `scan.rs`, `ignore.rs` | none | scan, match | the files Git would track, and one answer for every other entry |
| Analyzers | `analyze/` | none | lex and analyze one file | a token is cut where the language says; what is declared is found where it is held |
| Identifiers and values | `id.rs`, `name.rs`, `text.rs`, `property.rs`, `evidence.rs` | none | checked constructors | what is written is read back; what is no value is refused |

How they interact. `Project` owns everything on disk. A query runs in a
`Transaction`, whose commit is `Database::commit`. `build()` and `apply()` call
`Database::commit` directly with a graph that `apply.rs` has changed. A change of
links stages the database, the settings, the `.nost` file and the baseline in one
`FileTransaction`. `synchronize()` adopts a text through `convert.rs` into the
database and writes the baseline afterwards. Federation opens other databases and
asks providers for remote ones; a provider is a child process with which the
client speaks over two pipes. There are no threads inside the library: all
concurrency is between processes that share the files of a project, and between a
process and its provider.

What is hard here: two processes between "read" and "rename"; a crash between two
files that must agree; a failed write, rename or unlink in the middle of a
commit; recovery that runs while somebody else commits; a person who edits the
`.nost` file while a command runs; several owners of one record; a walk over
links that share and repeat targets; a peer that dies or answers wrongly.
In the forms: a comment whose place moves while its document is formatted, a file
cut short, a rule of an ignore file that undoes another, a source that is
unfinished. `PROJECT.json` lists these hazards by line, with the properties that
would catch each.

## 2. The modules

| module | models | composed with |
|---|---|---|
| `Storage` | `commit()` and `recover()` of `storage.rs`, one action per filesystem call | implements `AtomicDatabase` |
| `FileTransaction` (`MCFileTransaction`) | `FileTransaction`, `replay`, `recover_at` of `journal.rs`, one action per filesystem call | implements `AtomicFiles` |
| `Transaction` | `begin`, `run`, `commit`, `rollback` of `transaction.rs` | replaces the file in one step, which is what `AtomicDatabase` promises |
| `Project` | the commands of `project.rs` and the decision of `sync.rs` | the database changes in one step (`Storage`), the files of a link change in one step (`FileTransaction`) |
| `Apply` | `apply()`, the write clauses, the adoption of a text: claims and endpoints of records | its result is what `Project` commits |
| `Federation` (`MCFederation`) | `resolve_with()` and `follow()` | |
| `Provider` | `ProviderClient` of `provider.rs` and the process at the other end | |
| `Build` (`MCBuild`) | `Project::build`, `draft()` of `build.rs` and `cache.rs`: builds of a tree that changes | its change set is applied as `Apply` does for one owner, its commit is the build of `Project` |
| `Links` (`MCLinks`) | `settings.rs`, and what `project.rs` does with links and their mirror | replaces its files through the journal of `FileTransaction`, whose recovery is one step here |
| `Outcome`, `Cypher`, `Executor`, `Mutate`, `Query` (`MCQuery`) | the query language, the values, what a clause reads, what it writes, and the statements of a transaction step by step | `Query` extends `Mutate`, whose expressions and patterns are parameters that `Executor` gives a meaning in `MCQuery`; `Query` has what `Transaction` takes as one change |
| `Reading` | how a reader goes on or gives up | extended by the forms below |
| `NostText`, `NostGraph` | the parser and the formatter, and the validator with both conversions of a `.nost` document | each extends the one before; `Project` and `Apply` use what they promise |
| `Encoding` | the envelope of a database file, and the graph as its payloads | `Storage` uses that a torn file does not parse |
| `Values` | the smallest values, as text and read from it | |
| `Scan`, `Planning` | ignore rules and the walk of a tree; the plan of a scan and the packet of a unit | `Build` starts from a scan |
| `ChangeDocument` | a change set read from a document and judged | `Apply` applies what is accepted |
| `SourceLexer`, `RustItems` | the lexers of seven languages and the item parser of Rust | `Build` takes an analyzer as a function of the bytes |
| `StoredForms`, `WorkForms`, `SourceForms`, `MCForms` | the samples of the forms, what has to hold of each, and the machine that tries them | |
| `DatabaseProofs`, `FileTransactionProofs`, `TransactionProofs`, `ProjectProofs`, `ApplyProofs`, `FederationProofs`, `RefreshProofs`, `BuildProofs` | the theorems | `DatabaseProofs` extends `Storage` and `Query`, `RefreshProofs` extends `Provider` and `Links`, each other the module of its name |

### Storage

`db`, `staged` and `journal` are the three files. `pc[p]` is the line a process
has reached in `commit()` or `recover()`; `held[p]` is the container its
`Database` value holds and `next[p]` the one it is about to write. `out[p]` is the
inode that the handle from `File::create` reaches: a rename carries an open handle
along, so a slow writer can still write into a file that another process has
promoted. `StageCreate`, `StageWrite`, `JournalWrite`, `Promote`, `Forget` are the
calls of `commit()` in their order, `RecoverRead`, `RecoverPromote`,
`RecoverDiscard`, `RecoverForget` those of `recover()`. `Fail`, `RecoverFail` and
`Crash` may come at any of them. A container is its generation and a payload; the
bytes are abstracted to whole (`Container`) or not whole (`Torn`). `acked` and
`intent` are history variables.

### FileTransaction

One process, any number of transactions and destinations. `todo` and `at` are the
list being staged, applied, abandoned or discarded and the next element of it. A
torn journal is any prefix of its records without the Commit.

### Transaction

`handle`, `base`, `graph`, `writes` are the fields of the same name of each
process. A statement is the change it makes. `refused` marks a statement that
returned an error after it may have changed the copy: `run()` gives no such copy
back to its caller's database unless the caller commits in spite of the error.

A commit that has passed the check ends in one of three ways. `Commit` replaces the
file and says so. `CommitUntold` replaces it and returns an error: the journal could not
be removed after the rename (`storage.rs:236`). `CommitFails` returns an error and leaves
the file. The changes of the first kind are in `acked`, those of the second in `untold`,
both history: the file holds the two together and nothing else. The handle adopts the
container in `Commit` only, so whoever tries again after an untold commit meets
a conflict.

### Project

`db`, `nost`, `baseline` are the three files; the step machine of each command is
one action per file read or written. A digest stands for the bytes it was computed
from. A text has the facts it states and one of three forms: canonical, edited by
a person, or not readable. `fate` records which facts were stated by somebody and
which were removed on purpose; it is what `NoWorkLost` needs and no program
state.

### Apply

A record is its claims: the set of owners. Nodes and edges are identifiers, and an
edge has two endpoints. An owner is a producer with a unit, a query, or the user
(`contribution.rs`). `apply()` is stepped through operation by operation on a copy
of the graph, with the summary it counts; a refusal throws the copy away.

`EndpointsStay` says of each kind of job what it may do to the endpoints of edges. A
change set checks both ends of an edge it states (`apply.rs`), and a deletion of a node
takes its edges along. `CREATE` does not check: a variable bound earlier gives its
identifier unseen (`mutate.rs:247`), so `CreateEdge` takes nodes the query has deleted,
and an edge the query creates may be left without an endpoint. A text may name a node it
does not declare, and its adoption makes a Placeholder of that (`Undeclared`, `Adopted`).

### Federation

The world (which directory declares which locator, what each locator leads to, and
which files can be read) is a parameter that does not change during a walk. The
queue, the cursor in the current level, the opened set and the answers are the
variables. `Refuse`, `OpenRemote` and `OpenLocal` are one link with what `follow()`
answers; `LimitDepth` and `Cut` are the level that is only reported as cut. What the
walk has to find is said without a walk: `WalkIsComplete` compares it with the smallest
set of files that is closed under following links.

### Provider

The two pipes are sequences of requests and of items. An item is a line or a piece
of content, tagged with the request it was written for: the tag is a history the
client cannot see, and `AnswersItsRequest` compares it with the request the call
was made for. `Judge` is the chain of checks the client makes on a reply.

`finish()` is two actions: `Close` ends the provider's input, `Wait` returns once the
provider has exited, which nothing obliges it to. While `finish()` waits nobody reads
the provider's output, so a provider that wants room for content the client refused
never exits and `finish()` never returns. How much a pipe holds is not in the model,
and no property says that `finish()` returns.

### Build

`tree` and `present` are the disk, `version` the installed release (its
`GRAPH_SCHEMA_VERSION`), `cache` the project tier and `graph` the analyzer's
records in the committed graph. `Start` is the scan and the decision of
`every_file_unchanged()`; one of `RecordFile`, `CacheHit`, `ReadFile`, `ReadFails`
is one turn of pass one, which is where the disk can move under a build; `Commit`
is the two other passes (`Draft`), the withdrawals (`Withdrawn`), `apply()` and the
commit. A content stands for its digest, and `Parse` is any function from a
content, a language and a release to declarations with the names they refer to,
imports and routes. The value of a cache entry is the content it was parsed from,
so an entry under a digest that is not its own can be told apart. A minted
identifier is named after the build and the thing it was minted for.

`Draft` is the abstract specification as well: `GraphMatchesTree` compares what
the graph says (`SaysOfFiles`, which leaves identifiers out) with `Draft` of an
empty graph and the tree as it is, which is what a first build makes.
`settled` and `missed` are history variables: the comparison is made when nothing
was changed since the last build began, and no build has met a file that moved
between scan and read or could not be read. What happens in those builds is in
the hazards: a wrong entry of the cache, and a file recorded without declarations
that the next builds take for unchanged.

### Links

`disk`, `staged` and `journal` are the database's links, the settings document and
what stands beside them. `add_link` and `remove_link` read both, `Mirror` computes
the settings that match, `StageDatabase` to `Forget` are the journal's calls.
`refresh_links`, `Resolve`, `Resolved` and `record_snapshots` are the refresh that
reads the graph, waits for a provider and writes the settings; it and the journal
stage the settings under one name, and the model keeps that. A field of a settings
document is absent, null, wrong or a value, which is what `parse()` and `resolve()`
tell apart. `doing[p]` is the step a process has reached; a refresh carries the list of
the links of the graph it read and passes over those that are not remote. `author`,
`settled` and `edits` are history variables.

### Query

A query is given as the sequence of its spellings, so that the parser is part of
what is checked. `Cypher` reads it; `Executor` has values, their order and
equality, the evaluation in a row, patterns, aggregates and procedures; `Mutate` the writing clauses on a record of graph, summary and rows.
`Query` is the state machine: `stage` is the step of the running statement, one action
per kind of clause and one per row of a `MATCH`, which is where the code looks at
the cancellation flag (`stop`); `Query` also has what `apply_projection()` does with the
rows of a `WITH` or `RETURN`. A refusal leaves what was written before it in
`root`, and the transaction can only be rolled back then (`transaction.rs:167`).
`Mutate` and `Query` take what the recursive part computes as operator constants
(`Evaluate`, `MatchPattern`, `MatchedRows`, `AggregateRows`, `CompareValues`, ...), so that
they can be reasoned about for any evaluator; `Query.cfg` gives each the operator of
`Executor`, and `MCQuery` holds the properties that are about those operators. What a
writing clause does to a graph is in no parameter. `QueryAssumption` says what
`parse()` and `Database` hand over: queries of one part or more whose clauses list what
they write, and graphs in which no two nodes, and no two edges, have one identifier.

The properties compare a step with a definition made of other notions: the paths
of a pattern are sequences of hops (`Traces`), a page is a slice of the unpaged
answer, which is in the order of the first keys that differ and has each row as often as
it was found, the summary is the difference of two graphs.

### Forms

What has no state is modelled as operators, and `MCForms` tries them: each
behaviour takes one sample, lets the code work on it (`FormatText`, `ReadGraph`,
`StoreGraph`, `ScanTree`, ...) and rests. What has to hold never mentions the
operators it judges. So `CommentsKept` counts the comments of a document by its
lexemes; `TextIsGraph` compares two graphs record by record; `CoversGit` compares
the rules with a matcher that follows Git's description; `JudgedRightly` knows
which member of a sample was made wrong; `AnswersForTheRun` spends what a run
would spend on the files of the scan; `CutAsWritten` and `FoundAsWritten` compare
with the tokens and items a text was put together from.

A text is a sequence of lexemes or characters, and a word may stand as one of
them. A payload is a sequence of cells with the width of each kind, so offsets and
lengths are the program's own arithmetic (`LastOffset` is the largest u64). A
reader of a document or payload is a record that each step returns anew, with a
flag that a refusal clears.

## 3. The rules of the callers

Several properties the documentation promises hold only while callers keep a rule
that the code does not enforce. Each such rule is a named string in the constant
`Discipline` (`Rules` in `Links`) of its module, each is a guard on the callers' actions and never on
the code's own steps, and each theorem names the rules it assumes. Leaving a rule
out is how the disagreements in section 6 were found.

| module | rule | where the code does not enforce it |
|---|---|---|
| Storage | `recover_first`: a process runs `recover()` before it opens the file | `Database::open` does not look at the journal |
| Storage | `sole_writer`: nobody opens or recovers a file another has open | there is no lock file |
| Storage | `drop_after_error`: a handle whose commit failed is not used again | the handle keeps its old container |
| FileTransaction | `drop_after_error`, `clean_start`: no transaction begins after an error or beside a leftover journal | `begin` and `commit` do not look |
| Transaction | `commit_alone`: nobody is between check and rename while another is | `commit()` compares generations and renames later |
| Transaction | `rollback_refused`: a caller whose statement was refused does not commit | the copy keeps what the statement had done |
| Project | `one_command`, `editor_waits`, `mirror_waits`: who may write while a command runs | nothing is locked |
| Links | `one_writer`, `one_refresh`: one command at a time writes links and settings, one refresh waits | nothing is locked |
| Links | `editor_waits`: the settings are not edited while a command writes | nothing is locked |
| Links | `open_first`: after a crash nobody writes before the project was opened again | a refresh that waited through the crash writes settings that the replayed journal then replaces, or the other way round |
| Apply | `claims_stated`: a person who edits the `.nost` text gives every record an `@by` block | a text without it is adopted with records nobody claims |
| Apply | `ends_declared`: every edge of an adopted text names nodes the text declares | the adoption makes a Placeholder that nobody claims |
| Provider | `close_after_error`: a client whose call failed is not used again | nothing marks the stream as out of step |

## 4. The runs

| run | bounds | what it shows |
|---|---|---|
| `StorageCrash` | 2 processes, 2 payloads, 4 generations, all faults | whole generations in order; what was acknowledged survives; recovery is exact; implements `AtomicDatabase` |
| `FileTransactionCrash` | 4 destinations, 3 transactions of mixed replace/remove shapes, all faults | all files change together; implements `AtomicFiles` |
| `TransactionSerial` | 3 processes, 3 changes, 3 generations | commits are serial; the file holds what was acknowledged, the whole work of untold commits, and nothing of a refused statement |
| `ProjectAlone` | 1 process, every command, 3 facts, 4 generations | no work is lost, the baseline is an agreement, a conflict touches neither |
| `Apply` | 2 producers, a query and the user, 2 nodes, 1 edge, change sets of 3 operations, 4 generations | no change set and no adoption leaves an edge without an endpoint, a query only one it created; the claims of others stay, the summary is the net change |
| `Federation` | 4 files, 2 directories, 3 locators of which one is remote, all limits that matter | limits, one status per link, nearest first, completeness |
| `Provider` | 4 requests, content of up to 2 bytes, every defect but two | answers belong to their requests, every call returns |
| `Build` | 3 files in 2 directories, one in a language without analyzer, an image, 2 contents, 2 releases, 3 builds, 2 changes | a build leaves what a first build would; records describe the bytes they say; identities last |
| `Links` | 2 processes, a remote and a local source, 2 commits, 1 edit, crashes | the mirror follows the graph; what a person wrote stays |
| `Query` | 40 queries that use every clause, 2 graphs and a linked one, 1 commit, sequences of up to 3 queries that write | what is found is what is there, in the order and on the page that was asked for; what is written is what was asked, counted and owned; the claims of others stay |
| `Forms` | some 19000 samples: documents with a comment at every place, graphs, edited trees, files damaged in every cell, values, patterns and paths of up to 4 characters, trees of files with links, change documents with every member wrong or missing, plans, packets, sources | each form keeps its promise |
| `ApplyRestated` | as `Apply` | a disagreement with what the repository says, section 6 |

Why the bounds are enough. Two processes are what a race on one file needs, three
what one needs to see a loser's stale handle be used twice; four generations let a
crash hit the first commit, a later one and the last before the counter refuses
to wrap. Three facts let one be lost, one be kept and one be new. Three
transactions let a crash hit a transaction, its recovery and the transaction after
it. Four requests are the fewest in which content left over from one failed call
can be taken for a later reply. The four files of `Federation` form every small
shape: a chain, a diamond, a cycle, a self-link, two names of one file, a missing
and a damaged file. In `Build` two changes are a change and its reversal (an edit
and its undoing, a deletion and the file's return, an upgrade and a downgrade),
three builds are one before, one between and one after; of the two contents one
declares a name twice, refers to a name of the other and imports the other file
and the image, and the newer release reads a declaration the older passed over.
The first release finds a full tree without the image (`MCInit`).
In `Links` two commits of the remote source are one a refresh recorded and one that
came after it, and one edit is one thing to lose. In `Query` the root graph has two
nodes with parallel, opposite, looping and external edges, which makes every way of
walking a pattern twice possible; the queries combine each clause with each of what
can follow it, one sorts a list of every kind of value, and `MCLater` starts again those whose answer depends on what was
written before. The samples of `Forms` are made by rules and not by hand where the
form has one: a comment of each kind at every gap of a document that uses every
construct, every pair of edits of a tree, every cell of a file changed or cut, all
patterns of up to four of the characters that matter, each pair of pieces of a
language in turn.

`MaxGeneration`, `MaxTransaction`, `MaxOperations`, `MaxRequests`, `MaxBuilds`,
`MaxEdits`, `MaxCommit`, `MaxCommits`, `MaxWrites` and `MaxRows` (the rows a clause of a
query leaves) are the only bounds on counters; the generation bound is also the program's own (`u64::MAX`), whose refusal
is an action.

`Exchangeable` permutes the nodes and, separately, the edges, which
no operator tells apart, and `Processes` in `MCLinks` the two processes; no liveness
is checked under either. `CHECK_DEADLOCK FALSE` is said of `Provider` and `Links`: a
client that has closed its provider has nothing left to do, and neither has a
process that waits for a journal another would replay. A finished walk of `Federation` stutters in
`MCSpec` through an explicit action, and so does `Build` when its bounds are
reached.

Fairness is assumed in `Provider` only: a provider that has an unread request
answers or dies (`Respond`) while a client in a call reads what it writes, and such a
client keeps reading. The first is
what a call relies on, since `provider.rs` sets no timeout; the second is its read
loop. A provider that writes too little content and stays alive makes the call
wait for ever; that defect is left out and listed as a hazard. The commands of the
other modules are started by people and no property says that they finish.

Every property has a mutant in `PROJECT.json`: a change of one mapped definition,
such as a bug in that code would make, under which TLC finds the property
violated in the same run. The modules state a few properties beside those of the
runs: type invariants and steps towards the others, and `StaysReadable`,
`SnapshotsAdvance` and `RenderingIsStable` of `Links`, `CallGoesOn` of `Provider` 
`QueryKeepsClaims` and `RecordsAreClaimed` of `Apply`, `DraftAccepted` of `Build` and
`CommitTakesTheGraph` of `Query`, all of which section 5 proves.

`PROJECT.json` maps each definition to the lines it translates. Outside `Storage`,
`FileTransaction`, `Transaction`, `Project`, `Apply`, `Federation`, `Provider`, `Build`
and `Links` it names one definition for each stretch of the source: the helpers beside
it stand for lines of the same stretch.

## 5. The proofs

TLAPS proves, for every value of the constants that the named assumptions allow:

- `DatabaseProofs`: `TypeOK` under any faults and any callers, and under the three
  rules `DatabaseReadable`, `RecoveredIsIntent`, `OpenedIsIntent`, `AcknowledgedSurvives`,
  `PromisedFileIsWhole`, `GenerationAdvances`, and that `Storage` implements
  `AtomicDatabase`. The inductive invariant says for each step of the one active
  process which of the files hold the container it is committing. It needs what no
  property says: that every other process is closed, that a durable journal means
  either a complete staged file or a finished rename, and that the container in
  memory is the one in the file.
- `DatabaseProofs`, the queries of a transaction, for every evaluator and matcher, every
  graph and every query: `SummaryTellsTheChange`, `OthersKeepTheirClaims`,
  `DeletedNodesTakeTheirEdges` and `SetSeesTheClauseStart`; that graphs stay whole
  (`GraphsStayWhole`); and that the shortcut of `commit()`, which writes nothing when
  nothing was counted, drops nothing (`CommitTakesTheGraph`). The assumption is
  `QueryAssumption`. A clause is a fold over rows of a fold over writes, so the proofs go
  from one write to the next: a write that adds or alters moves the counts by what it
  does to the graph (`Moves`, `Tells`), takes nothing away (`Grows`) and marks what it
  touched as the user's (`NotedHolds`); a deletion only sheds, and takes the edges of the
  node along (`Sheds`). `WritesGo` carries what each write keeps to the whole clause,
  refused or not: if some write were the first to break it, the one before it would not
  have (`Least`). `SessionInv` then adds what holds between the clauses: that a
  query that waits to begin has counted nothing, that what has been counted so far is the
  difference so far, that the rows are a sequence. For `SET` the argument follows one
  property of one record: what is assigned is evaluated in the graph the clause found, and
  whether a write is the last about that property (`ItemLeaves`, `Passes`, `Alters`)
  decides what stands.
- `DatabaseProofs`, the page a `WITH` or `RETURN` answers with, for every evaluator, every
  projection and any rows: `PageIsSliceOfWhole`, in every behaviour in which
  `ValuesHaveOneOrder` holds (`PagesAreSlices`). That hypothesis is about the recursive
  comparison of values, and the run `Query` checks it; what is proved is that everything
  `apply_projection()` builds on it is right. An order of values decides between sequences
  at the first place where they differ, so rows have one order and so have sort keys with
  a direction each (`DecidedOrder`, `RowsAreOrdered`, `KeysAreOrdered`). Ties are decided
  by position, so each row has a place of its own (`EachHasAPlace`): sorting rearranges
  the rows and loses none (`SortingPermutes`), later keys never go before earlier ones
  (`PlacesAscend`, `KeysInOrder`), and `DISTINCT` leaves the first of those
  that are alike, one of each (`FirstOfEach`). `SKIP` and `LIMIT` cut a slice wherever
  they fall (`WindowIsSlice`).
- `FileTransactionProofs`: `TypeOK`, `CrashSafe`, `IdleAgrees` and the
  implementation of `AtomicFiles`. The invariant ties the cursor to the journal:
  destinations before it are done, those after it still have their staged file.
- `TransactionProofs`: `TypeOK` for every caller, `FileHoldsTheAcknowledged`
  and `CommitsAreSerial` under the two rules. The invariant: a
  process that has passed the check works on a copy that contains the file's graph,
  whether it will be told of its commit or not.
- `ProjectProofs`: `TypeOK` for any commands and users, and the safety properties of
  the run under `one_command` and one of `mirror_waits` and `editor_waits`: commands
  follow one another, and nobody edits the `.nost` file while a command mirrors the
  graph into it. It may be edited in the middle of every other command, and what the
  command has read is then out of date when it is used. The invariant says why nothing is
  lost by it. A fact the last agreement states is missing from one side only if somebody
  removed it (`RemovedOnPurpose`); what an edit has dropped from the file since a command
  read it is removed, and what it has added is still in the file (`Taken`); and what a
  file states has been stated by somebody (`Known`).
- `ApplyProofs`: `TypeOK` (which includes that no counter of a summary
  underflows), `EndpointsStay`, `RecordsAreClaimed` under the two rules,
  `AppliedOnWhatItSaw`, `RefreshKeepsOthers`, `QueryKeepsClaims`, `SummaryIsNet`. For
  `EndpointsStay` the invariant follows one job: an edge that dangles in the copy did so
  in the graph, or the query has created it (`Straight`). `SummaryIsNet` counts: creations less deletions are
  the difference of the sizes of the copy and of the graph (`Balanced`), and, while no
  withdrawal follows an upsert, what is retired is what the copy lacks (`Retiring`).
- `FederationProofs`: `TypeOK`, `WithinLimits`, `NearestFirst`, `EveryLinkAnswered` and
  `WalkIsComplete`, for every world and every pair of limits. `NearestFirst` needs what
  the walk has left behind (`Past`): a link that was followed and offers a source has
  opened its locator, or else the limit of databases was reached, after which nothing
  is opened. `EveryLinkAnswered` needs where the walk stands (`Progress`): the statuses of
  a visited source are one run, those of the source at hand end at its current link, and
  no other source has any. `WalkIsComplete` needs that each opened source is reached
  from the root and that, while no limit was hit, what a followed link leads to has
  been opened (`Found`).
- `RefreshProofs`, the conversation with a provider: `TypeOK` for every provider and
  every caller, and `AnswersItsRequest` under `close_after_error`, for a provider with
  every defect except `twice`. A reply does not name its request, so the invariant
  (`Conversation`) is about the stream: after a call that did not fail content may be
  left over but no line, and left-over content in front of a line makes the next call
  fail. A provider that answers a request twice does break the property, and nothing in
  the protocol could tell. `CallGoesOn` is the safety half of `CallReturns`, for every
  length of content: a provider that writes all the content it declares always leaves a
  waiting call something to read, or has its request still to answer (`Awaited`).
- `RefreshProofs`, links and settings, under `one_writer`, `editor_waits` and
  `open_first`: `LinksTypeOK`, `MirrorFollowsGraph`, `UserFieldsKept`, `StaysReadable`,
  `RenderingIsStable`, and with `one_refresh` also `SnapshotsAdvance`, for every number
  of processes, links, commits and edits. What a command has computed or staged belongs
  to the files there are (`LinksIInv`), which makes most steps leave what the next open
  would find as it is (`Quiet`): the exceptions are the journal of a link change and the
  rename of a refresh. `StaysReadable` needs that a refresh asks for each declared link
  once (`ReadInv`), `SnapshotsAdvance` that what a refresh has resolved is no older than
  what the settings record (`CommitsInv`). `RenderingIsStable` is about what `to_json()`
  writes, and assumes what `settings.rs` fixes: that the defaults are values, and that
  the global document is one that `open()` accepts.
- `BuildProofs`: `TypeOK`, `RecordsMatchDigest`, `IdentityKept` and `GraphMatchesTree`
  for every tree, analyzer and history. Identifiers are found by what they stand for, so
  the invariant (`Known`) says that each such lookup has at most one answer in a
  committed graph: then a rebuild withdraws or restates each record once, and what is
  found again is found under its old identifier. A draft is such a graph itself
  (`DraftKnown`), so it names no identifier twice and is not refused for it
  (`DraftAccepted`; when names are looked up without their occurrence, TLC finds the
  refusal that `build.rs:1417` tells of). What a draft
  says of the files is then a function of the units alone (`Meaning`), whatever
  identifiers the draft reuses or mints; `GInv` adds that, as long as no build met a
  file that moved, the cache, the scan and the units read so far tell of the tree as it
  is, so an incremental build and a first one say the same.

The type invariants and several of the invariants named above are theorems that no
run repeats: a proof for every value of the constants says more than a run would.

Only model-checked: the properties of `Query` about what is read and compared
(`MatchFindsThePaths`, `ValuesHaveOneOrder`, `GroupsPartTheRows`, and
`MergeCreatesOnce`, which is about what a pattern matches after it was written) and
everything of `Forms`. They speak of the parsers, the matcher, the evaluator and the
comparison, which are recursive as the code they translate is: what a recursive
definition computes for every input is out of the prover's reach, and a module that
declares one cannot be reasoned about. So is liveness (`CallReturns`), of which
`CallGoesOn` is the part that is proved; and the violation is a counterexample.

## 6. Disagreements with what the repository says

`ApplyRestated` is a run: a change set that withdraws a unit and states the same node
again deletes edges other owners drew to it, although `build.rs:14` says that every
edge pointing at a record survives a rebuild.

Three properties are stated in `Query` and `MCForms` as the repository promises them,
and in no run: named as an invariant in `Query.cfg` or `Forms.cfg`, each is violated.

- `EdgesKeepEndpoints`: `MATCH (n:L) DETACH DELETE n CREATE (n)-[:R]->(m:M)`
  makes an edge whose source is gone, since a bound variable gives its identifier
  unseen (`mutate.rs:247`), although `mutate.rs:13` says that every edge has two
  endpoints. `EndpointsStay` of `Apply` says that nothing else leaves such an edge.
- `FormattingSettles`: a block that is empty but for a comment after its brace is written as
  `{} // c` and read back with the comment on the next declaration
  (`nost/format.rs:330`), so formatting again changes the document, although
  `nost/format.rs:526` promises the same bytes. `FormattingKeeps` leaves these documents
  (`HoldsOneComment`) to this property, and no others.
- `NothingIsDropped`: names that are not UTF-8 and special files leave no trace in a scan
  (`scan.rs:518`, `scan.rs:572`), although `scan.rs:8` promises that nothing is dropped
  silently. `ScanFollowsTheRules` leaves these entries (`IsOverlooked`) to this
  property, and no others.

Three more were found by TLC in instances of the same modules and are easily found again:

- Without `commit_alone`, `FileHoldsTheAcknowledged` of `Transaction` is violated:
  `Transaction::commit` compares generations and renames later with nothing held in
  between (`transaction.rs:249`), although its doc comment promises a conflict.
- `CycleWasOpened` of `Federation`: a source is recognised by the text of its locator
  (`federation.rs:436`) although the text is resolved relative to the file that
  declares it.
- `AssetsMatchTree` of `Build`: `every_file_unchanged()` (`build.rs:973`) does not look
  at the files a scan skips. When an imported image appears or disappears, a build
  finds nothing to do and keeps a graph that a first build would not make.

The rules of section 3 mark further weak places. Without `one_command`, `adopt()`
commits over whatever generation it finds, not the one `sync_state()` compared; and
a crash between the commit of an adoption and its baseline leaves two identical
representations that every later `synchronize()` reports as a conflict.

What the modules of the forms translate says more in a few places than the comments
beside the code. The models follow the code. Where one of the properties would be
violated by such an input the samples keep away from it; the other inputs may be among
them, and no property is about what is said here:

- Documents. The comment behind a link without alias moves on as the one in
  empty braces does. An adopted `SET n.id` makes a graph whose export cannot be adopted
  (`nost/convert.rs:9`). Two edges that name one undeclared node make two
  placeholders. `validate()` passes documents that `to_graph()` refuses.
- Container. A commit drops reserved sections it does not know (`container.rs:83`);
  no checksum covers the section table. The flag of a range and a boolean value
  (`encoding.rs:782`, `encoding.rs:697`) read every byte but 0 as true, which the comment
  of `read_flag()` calls letting one set of bytes decode two ways; payloads with such
  bytes are among the samples, where `ReadIsSound` asks of what is read that it is valid.
- Change documents. Within one operation only the first error is told, although
  `change_document.rs` promises every problem; a document whose only operation is
  wrong is also told to be empty; a malformed revision or path of evidence is dropped.
- Ignore rules. `\!x` drops the `!` (`ignore.rs:59`); `**/b` matches `ab`; `[!x]` matches
  `/`; leading spaces are stripped. `ScanFollowsTheRules` asks for one direction: what Git
  excludes is excluded here.
- Scan. An entry the directory fails to hand over (`scan.rs:513`) leaves no
  trace either; the model has no such entry.
- Packets. The edges of a packet have no limit (`packet.rs:8`).
- Queries. Evidence of a linked record is looked up in the root graph by its
  identifier (`procedure.rs`); arithmetic has one level of precedence; `*0..n` finds no
  path of length zero.
- Lexers. A Go line that ends in a single `+` gets a semicolon though `go_lexer.rs:30` says
  `++`; a brace in a plain Python string leaves brackets open; `1'000}` of C reads the rest
  of the line as a character; `impl<F: Fn() -> u8> T for S<F>` loses its members.
- Values. A range may be written in several ways (a leading `+`, leading zeros); the first
  identifier of `sequential(0)` is the one a query's source unit has.

## 7. Not modelled, and what is left

`PROJECT.json` gives the status of every component. A process crash is modelled and
a loss of power is not: files keep what `write` returned for, in order.

- Item parsers of the six other languages, and the frameworks' routes. They have the
  shape of `RustItems`, over the lexers that are modelled.
- `Build`: nested declarations, labels, properties and evidence of a record, the
  coverage report, the identities of edges, two builds that share a cache.
- `apply()`: labels, property values, links and placeholder resolutions of a change
  set.
- How bytes become cells, characters spellings, and JSON text values; digests and
  checksums, which are right or not; the clock and the random source of identifiers.
- `Project` and `Links` in one module, where a link change also writes the `.nost` file
  and the baseline; `Storage` and `FileTransaction` over one staged path; a power-loss
  fault for `Storage`.
- Proofs about what a query reads and about the forms, whose definitions are recursive.
