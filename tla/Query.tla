-------------------------------- MODULE Query --------------------------------
(***************************************************************************)
(* src/execute.rs, src/mutate.rs, src/cancel.rs and src/result.rs: the     *)
(* queries of one transaction, clause by clause.  A query reads the root   *)
(* and the linked sources and writes the root alone.  It may be asked to   *)
(* stop between its steps, and a step may refuse.                          *)
(***************************************************************************)
EXTENDS Mutate

CONSTANTS
  MatchedRows(_, _, _, _, _),  \* run_match: the rows one row becomes
  AggregateRows(_, _, _),      \* aggregate_rows: the rows of the groups of some items
  ContainsAggregate(_),        \* contains_aggregate: whether an expression has groups
  ColumnNames(_),              \* the columns of some items
  CompareValues(_, _),         \* the order of two values
  CalledRows(_, _, _),         \* run_call: the rows of a CALL
  CalledColumns(_),            \* the names it binds
  LabelsAsked(_)               \* required_labels: the labels a query names

CONSTANTS
  Queries,      \* the queries, as parse() reads them
  Later,        \* bound: the queries that one which changed something is followed by
  Graphs,       \* the graphs a database may hold at first
  Linked,       \* the graphs of the linked sources, in order
  Locators,     \* their locators
  Parameters,   \* the parameters every query is given
  MaxCommits,   \* bound on the commits of a run
  MaxWrites,    \* bound on the commits and writing queries a query comes after
  MaxRows       \* bound on the rows a clause leaves

IsSequence(s) == Len(s) \in Nat /\ s = [i \in 1 .. Len(s) |-> s[i]]

\* What a write goes through one by one.
IsWritable(clause) ==
  /\ clause[1] \in {"create", "set", "remove"} => IsSequence(clause[2])
  /\ clause[1] = "set" => \A i \in DOMAIN clause[2] : clause[2][i][1] \in {"label", "property"}
  /\ clause[1] = "create" => \A i \in DOMAIN clause[2] : IsSequence(clause[2][i].steps)
  /\ clause[1] = "merge" => IsSequence(clause[2].steps)
  /\ clause[1] = "delete" => IsSequence(clause[3])

\* What a WITH or a RETURN asks for.
IsProjection(p) ==
  /\ p = [distinct |-> p.distinct, items |-> p.items, predicate |-> p.predicate,
          order_by |-> p.order_by, skip |-> p.skip, limit |-> p.limit]
  /\ p.distinct \in BOOLEAN /\ IsSequence(p.items) /\ IsSequence(p.order_by)

\* A query is parts of clauses, and there is one at least.
IsQuery(q) ==
  /\ IsSequence(q.parts) /\ Len(q.parts) > 0
  /\ \A i \in DOMAIN q.parts :
       /\ IsSequence(q.parts[i].clauses)
       /\ \A j \in DOMAIN q.parts[i].clauses :
            LET c == q.parts[i].clauses[j] IN IsWritable(c) /\ (c[1] = "with" => IsProjection(c[2]))
       /\ \A p \in ToSet(q.parts[i].result) : IsProjection(p)

NodeField == {"id", "labels", "properties", "contributions"}
EdgeField == {"id", "source", "target", "relation", "properties", "contributions"}

\* A local endpoint names a node of the graph itself, another one a source too.
IsEndpoint(end) == end[1] = "local" => end = <<"local", end[2]>>

AllDistinct(records) == \A i, j \in DOMAIN records : records[i].id = records[j].id => i = j

\* Records in two sequences, no two of one kind with the same identifier.
IsGraph(g) ==
  /\ g = [nodes |-> g.nodes, edges |-> g.edges, links |-> g.links]
  /\ IsSequence(g.nodes) /\ IsSequence(g.edges)
  /\ \A i \in DOMAIN g.nodes :
       DOMAIN g.nodes[i] = NodeField /\ IsSequence(g.nodes[i].contributions)
  /\ \A i \in DOMAIN g.edges :
       /\ DOMAIN g.edges[i] = EdgeField /\ IsSequence(g.edges[i].contributions)
       /\ IsEndpoint(g.edges[i].source) /\ IsEndpoint(g.edges[i].target)
  /\ AllDistinct(g.nodes) /\ AllDistinct(g.edges)

ASSUME QueryAssumption ==
  /\ \A q \in Queries : IsQuery(q)
  /\ \A g \in Graphs : IsGraph(g)
  /\ MaxCommits \in Nat /\ MaxWrites \in Nat /\ MaxRows \in Nat

VARIABLES
  base,      \* the graph the open transaction began with
  commits,   \* how many transactions have committed, the database's generation
  root,      \* the transaction's own graph, which the queries modify
  total,     \* what its completed queries changed
  minted,    \* the last identifier the minter gave
  query,     \* the running query
  stage,     \* the next step of it
  part,      \* the part it is in
  clause,    \* the clause of the part
  rows,      \* the rows of the part
  todo,      \* the rows a MATCH has not come to yet
  called,    \* the columns of a CALL that was the last clause, if it was
  result,    \* the columns and rows of the parts that are done, and the unknown labels
  writes,    \* the query's WriteSummary
  stop,      \* whether the query has been asked to stop
  count      \* how many of its queries changed something

session == <<base, commits, total, count>>
progress == <<query, stage, part, clause, rows, todo, called, result>>
queryVars == <<session, root, minted, progress, writes, stop>>

NoResult == [columns |-> << >>, rows |-> << >>, unknown |-> {}]

QueryInit ==
  /\ base \in Graphs
  /\ commits = 0
  /\ root = base
  /\ total = NoWrites
  /\ minted = 100
  /\ query = << >>
  /\ stage = "idle"
  /\ part = 0
  /\ clause = 0
  /\ rows = << >>
  /\ todo = << >>
  /\ called = << >>
  /\ result = NoResult
  /\ writes = NoWrites
  /\ stop = FALSE
  /\ count = 0

\* The reader of the graphs as they are now.
Reader(graph) ==
  [graphs |-> <<graph>> \o Linked,
   locators |-> <<<< >>>> \o [i \in DOMAIN Locators |-> <<Locators[i]>>],
   parameters |-> Parameters,
   context |-> [generation |-> commits, source |-> Text("root")]]

Part == query.parts[part]
Clause == Part.clauses[clause]

-----------------------------------------------------------------------------
(* The session: Transaction::begin, run, commit and rollback                *)

Running == stage \in {"part", "clause", "row", "result"}

Begin(next) ==
  /\ stage \in {"idle", "done"} /\ commits + count < MaxWrites
  /\ commits + count > 0 => next \in Later
  /\ query' = next
  /\ stage' = "part" /\ part' = 1 /\ clause' = 1
  /\ rows' = << >> /\ todo' = << >> /\ called' = << >>
  /\ result' = NoResult
  /\ writes' = NoWrites
  /\ stop' = FALSE
  /\ UNCHANGED <<session, root, minted>>

\* Flag::stop, or a Deadline that has passed.
AskToStop ==
  /\ Running /\ ~ stop
  /\ stop' = TRUE
  /\ UNCHANGED <<session, root, minted, progress, writes>>

Refusal ==
  /\ stage' = "refused"
  /\ query' = << >> /\ rows' = << >> /\ todo' = << >> /\ called' = << >>
  /\ result' = NoResult
  /\ stop' = FALSE
  /\ UNCHANGED <<session, part, clause>>

\* stop_if_asked(), before a part, a clause and a row of a MATCH.
Cancel ==
  /\ stage \in {"part", "clause", "row"}
  /\ stage = "row" => todo # << >>
  /\ stop
  /\ Refusal
  /\ UNCHANGED <<root, minted, writes>>

After(c) == IF c < Len(Part.clauses) THEN "clause" ELSE "result"

StartPart ==
  /\ stage = "part" /\ ~ stop
  /\ rows' = <<EmptyRow>>
  /\ called' = << >>
  /\ clause' = 1
  /\ stage' = After(0)
  /\ UNCHANGED <<session, root, minted, query, part, todo, result, writes, stop>>

\* A sequence of rows, within the bound on them.
Fit(some) == IsSequence(some) /\ Len(some) <= MaxRows

At(kind) == stage = "clause" /\ ~ stop /\ Clause[1] = kind

\* A clause that reads: the rows it leaves, or its refusal.
Read(found, columns) ==
  /\ \/ IsRefused(found) /\ Refusal
     \/ /\ ~ IsRefused(found)
        /\ rows' = found[2] /\ Fit(rows')
        /\ called' = columns
        /\ clause' = clause + 1
        /\ stage' = After(clause)
        /\ UNCHANGED <<session, query, part, todo, result, stop>>
  /\ UNCHANGED <<root, minted, writes>>

StartMatch ==
  /\ At("match")
  /\ todo' = rows
  /\ rows' = << >>
  /\ stage' = "row"
  /\ UNCHANGED <<session, root, minted, query, part, clause, called, result, writes, stop>>

Grow(found) ==
  \/ IsRefused(found) /\ Refusal
  \/ /\ ~ IsRefused(found)
     /\ rows' = rows \o found[2] /\ Fit(rows')
     /\ todo' = Tail(todo)
     /\ UNCHANGED <<session, query, stage, part, clause, called, result, stop>>

MatchRow ==
  /\ stage = "row" /\ todo # << >> /\ ~ stop
  /\ Grow(MatchedRows(Reader(root), Clause[2], Clause[3], Clause[4], Head(todo)))
  /\ UNCHANGED <<root, minted, writes>>

EndMatch ==
  /\ stage = "row" /\ todo = << >>
  /\ clause' = clause + 1
  /\ called' = << >>
  /\ stage' = After(clause)
  /\ UNCHANGED <<session, root, minted, query, part, rows, todo, result, writes, stop>>

\* A value that is no list gives no row.
Unwind ==
  /\ At("unwind")
  /\ Read(Collect(rows, LAMBDA row :
            Bind(Evaluate(Reader(root), Clause[2], row), LAMBDA list :
              Yes(IF list[1] # "list" THEN << >>
                  ELSE [i \in DOMAIN list[2] |-> Extended(row, <<Clause[3]>>, list[2][i])]))),
          << >>)

-----------------------------------------------------------------------------
(* What a projection gives                                                  *)

CompareRows(r, s) == CompareSeq(r, s, CompareValues)

\* What some expressions are worth in a scope.
ValuesIn(x, expressions, scope) == Each(expressions, LAMBDA e : Evaluate(x, e, scope))

ExpressionsOf(items) == [i \in DOMAIN items |-> items[i].expression]

\* Each projected row with the scope a predicate and a sort key see.
plain_rows(x, items, bindings) ==
  Each(bindings, LAMBDA row :
    Bind(ValuesIn(x, ExpressionsOf(items), row), LAMBDA values :
      Yes(<<values, Row(ColumnNames(items), values) @@ row>>)))

\* Mutant: every key in ascending order.
CompareKeysAscending(order_by, a, b) == CompareRows(a, b)

\* The order of two rows of sort keys, each key in its direction.
CompareKeys(order_by, a, b) ==
  CompareSeq([i \in DOMAIN a |-> <<order_by[i].descending, a[i]>>],
             [i \in DOMAIN b |-> <<order_by[i].descending, b[i]>>],
             LAMBDA k, l : IF k[1] THEN CompareValues(l[2], k[2]) ELSE CompareValues(k[2], l[2]))

SortKeys(x, order_by, projected) ==
  Each(projected, LAMBDA p : ValuesIn(x, ExpressionsOf(order_by), p[2]))

Ordered(x, order_by, projected) ==
  Bind(SortKeys(x, order_by, projected), LAMBDA keys :
    Yes(SortedBy(projected, keys, LAMBDA a, b : CompareKeys(order_by, a, b))))

\* A row count: of nothing, `absent`.
non_negative(x, amount, absent) ==
  IF amount = << >> THEN Yes(absent)
  ELSE Bind(Evaluate(x, amount[1], EmptyRow), LAMBDA v :
         IF v[1] = "integer" /\ v[2] \in Nat THEN Yes(v[2]) ELSE Refuse(Semantic))

Window(all, skip, limit) == SubSeq(all, skip + 1, Min({skip + limit, Len(all)}))

\* Mutant: the duplicates go after the limit, so that a row they hid is missing.
apply_projectionLimitsFirst(x, projection, bindings) ==
  Bind(plain_rows(x, projection.items, bindings), LAMBDA projected :
    Bind(non_negative(x, projection.skip, 0), LAMBDA skip :
      Bind(non_negative(x, projection.limit, Len(projected)), LAMBDA limit :
        LET window == Window([i \in DOMAIN projected |-> projected[i][1]], skip, limit) IN
        Yes(IF projection.distinct THEN Distinct(window, CompareRows) ELSE window))))

\* The projected rows, in the order of the rows or of the groups.
Projected(x, items, bindings) ==
  IF \E i \in DOMAIN items : ContainsAggregate(items[i].expression)
  THEN AggregateRows(x, items, bindings) ELSE plain_rows(x, items, bindings)

Accepted(x, predicate, projected) ==
  IF predicate = << >> THEN Yes(projected)
  ELSE KeptBy(projected, LAMBDA p :
         Bind(Evaluate(x, predicate[1], p[2]), LAMBDA v : Yes(is_truthy(v))))

\* The rows of a projection before they are rid of duplicates, with their scopes.
Selected(x, items, predicate, bindings) ==
  Bind(Projected(x, items, bindings), LAMBDA projected : Accepted(x, predicate, projected))

Deduplicated(distinct, projected) ==
  IF distinct THEN Distinct(projected, LAMBDA p, q : CompareRows(p[1], q[1])) ELSE projected

\* Project, filter, drop duplicates, sort, skip and limit, in this order.
apply_projection(x, projection, bindings) ==
  Bind(Selected(x, projection.items, projection.predicate, bindings), LAMBDA kept :
    Bind(Ordered(x, projection.order_by, Deduplicated(projection.distinct, kept)), LAMBDA sorted :
      Bind(non_negative(x, projection.skip, 0), LAMBDA skip :
        Bind(non_negative(x, projection.limit, Len(sorted)), LAMBDA limit :
          Yes(Window([i \in DOMAIN sorted |-> sorted[i][1]], skip, limit))))))

-----------------------------------------------------------------------------
(* The other clauses                                                        *)

With ==
  LET names == ColumnNames(Clause[2].items) IN
  /\ At("with")
  /\ Read(Bind(apply_projection(Reader(root), Clause[2], rows), LAMBDA projected :
            Yes([i \in DOMAIN projected |-> Row(names, projected[i])])), << >>)

\* A call that is the last clause of its part gives the part its columns.
Call ==
  /\ At("call")
  /\ Read(CalledRows(Reader(root), Clause, rows), <<CalledColumns(Clause)>>)

\* A clause that writes, from the writer it leaves.
Write(w) ==
  /\ root' = w.graph
  /\ writes' = w.summary
  /\ minted' = w.minted
  /\ \/ w.refused # << >> /\ Refusal
     \/ /\ w.refused = << >>
        /\ rows' = w.rows /\ Fit(rows')
        /\ called' = << >>
        /\ clause' = clause + 1
        /\ stage' = After(clause)
        /\ UNCHANGED <<session, query, part, todo, result, stop>>

Start == Writer(root, writes, minted)

Create == At("create") /\ Write(CreateClause(Start, Reader(root), Clause[2], rows))

Merge == At("merge") /\ Write(MergeClause(Start, Reader(root), Clause[2], rows))

Set == At("set") /\ Write(SetClause(Start, Reader(root), Clause[2], rows))

RemoveItems == At("remove") /\ Write(RemoveClause(Start, Reader(root), Clause[2], rows))

Delete == At("delete") /\ Write(DeleteClause(Start, Reader(root), Clause[2], Clause[3], rows))

\* What a part gives: its RETURN, the columns of a trailing CALL, or nothing.
PartRows ==
  IF Part.result # << >> THEN apply_projection(Reader(root), Part.result[1], rows)
  ELSE IF called # << >>
  THEN Yes([i \in DOMAIN rows |-> [j \in DOMAIN called[1] |-> rows[i][called[1][j]]]])
  ELSE Yes(<< >>)

PartColumns ==
  IF Part.result # << >> THEN ColumnNames(Part.result[1].items)
  ELSE IF called # << >> THEN called[1] ELSE << >>

\* A UNION without ALL drops the duplicates of the whole result.
Unioned(all) == IF FALSE \in ToSet(query.union_all) THEN Distinct(all, CompareRows) ELSE all

PresentLabels == UNION {ToSet(root.nodes[i].labels) : i \in DOMAIN root.nodes}

\* The columns of the first part are those of the result.
ResultColumns == IF part = 1 THEN PartColumns ELSE result.columns

\* Mutant: the transaction forgets the labels a query added.
accumulateUnlabelled(sum, more) ==
  [c \in Counter |-> IF c = "labels_added" THEN sum[c] ELSE sum[c] + more[c]]

\* What a transaction has changed, with what one more query did.
accumulate(sum, more) == [c \in Counter |-> sum[c] + more[c]]

\* The result and the change counts reach the caller with the last part.
Answer(found) ==
  \/ IsRefused(found) /\ Refusal
  \/ /\ ~ IsRefused(found) /\ part < Len(query.parts)
     /\ result' = [result EXCEPT !.columns = ResultColumns, !.rows = @ \o found[2]]
     /\ part' = part + 1 /\ stage' = "part"
     /\ rows' = << >> /\ called' = << >>
     /\ UNCHANGED <<session, query, clause, todo, stop>>
  \/ /\ ~ IsRefused(found) /\ part = Len(query.parts)
     /\ result' = [columns |-> ResultColumns, rows |-> Unioned(result.rows \o found[2]),
                   unknown |-> LabelsAsked(query) \ PresentLabels]
     /\ total' = accumulate(total, writes)
     /\ count' = IF writes = NoWrites THEN count ELSE count + 1
     /\ stage' = "done"
     /\ rows' = << >> /\ called' = << >> /\ query' = << >> /\ stop' = FALSE
     /\ UNCHANGED <<base, commits, part, clause, todo>>

Result == stage = "result" /\ Answer(PartRows) /\ UNCHANGED <<root, minted, writes>>

\* What the next transaction begins with.
Reset ==
  /\ total' = NoWrites /\ count' = 0
  /\ query' = << >> /\ stage' = "idle" /\ part' = 0 /\ clause' = 0
  /\ rows' = << >> /\ todo' = << >> /\ called' = << >>
  /\ result' = NoResult /\ writes' = NoWrites /\ stop' = FALSE

\* A transaction that changed nothing commits without a new generation.
Commit ==
  /\ stage = "done"
  /\ \/ total = NoWrites /\ UNCHANGED <<base, commits>> /\ root' = base
     \/ /\ total # NoWrites /\ commits < MaxCommits
        /\ base' = root /\ commits' = commits + 1
        /\ UNCHANGED root
  /\ UNCHANGED minted
  /\ Reset

\* An identifier of a transaction that is dropped may be minted again.
Rollback ==
  /\ stage \in {"done", "refused"}
  /\ root' = base
  /\ minted' = 100 + 100 * commits
  /\ UNCHANGED <<base, commits>>
  /\ Reset

QueryNext ==
  \/ \E next \in Queries : Begin(next)
  \/ AskToStop \/ Cancel \/ StartPart
  \/ StartMatch \/ MatchRow \/ EndMatch
  \/ Unwind \/ With \/ Call
  \/ Create \/ Merge \/ Set \/ RemoveItems \/ Delete
  \/ Result
  \/ Commit \/ Rollback

QuerySpec == QueryInit /\ [][QueryNext]_queryVars

-----------------------------------------------------------------------------
(* What a query may do to the graph                                         *)

\* What the open transaction's queries have changed so far.
Made(counter) == total[counter] + IF stage = "done" THEN 0 ELSE writes[counter]

\* The change counts a caller is given, and a commit decides by, tell what
\* happened: counts of zero mean an untouched graph, and the records that came
\* and went are as many as the counts say (mutate.rs WriteSummary, transaction.rs
\* commit).
SummaryTellsTheChange ==
  /\ (\A c \in Counter : Made(c) = 0) => root = base
  /\ Len(root.nodes) - Len(base.nodes) = Made("nodes_created") - Made("nodes_deleted")
  /\ Len(root.edges) - Len(base.edges) = Made("edges_created") - Made("edges_deleted")

\* A commit leaves in the database the graph of its transaction.  When nothing was
\* counted it writes nothing, which drops nothing (transaction.rs commit,
\* accumulate).
CommitTakesTheGraph == [][Commit => base' = root]_queryVars

Records(graph) ==
  {<<"node", graph.nodes[i]>> : i \in DOMAIN graph.nodes} \union
  {<<"edge", graph.edges[i]>> : i \in DOMAIN graph.edges}

ClaimsOn(record) == {record.contributions[i] : i \in DOMAIN record.contributions}

ClaimsOfOthers(record) == {c \in ClaimsOn(record) : c.owner # "user"}

ClaimedByUser(record) == \E c \in ClaimsOn(record) : c.owner = "user"

\* The records that are new or changed are the user's, and what the others claim
\* of them is what they claimed before.
KeepsClaims(after, before) ==
  \A now \in Records(after) \ Records(before) :
    /\ ClaimedByUser(now[2])
    /\ \A old \in Records(before) :
         old[1] = now[1] /\ old[2].id = now[2].id => ClaimsOfOthers(old[2]) = ClaimsOfOthers(now[2])

\* Whatever a query does to a record, the contributions the analyzers and the
\* agents made to it stay, and what it changed or made carries the user's own
\* (mutate.rs note_user_ownership); only a rollback takes that back.
OthersKeepTheirClaims == [][Rollback \/ KeepsClaims(root', root)]_queryVars

\* The local endpoints of a graph's edges.
Ends(graph) ==
  {r[2] : r \in {e \in {graph.edges[i].source : i \in DOMAIN graph.edges} \union
                       {graph.edges[i].target : i \in DOMAIN graph.edges} : e[1] = "local"}}

Ids(graph) == {graph.nodes[i].id : i \in DOMAIN graph.nodes}

\* NostDB requires every edge to have two endpoints (mutate.rs, the comment above
\* the writing clauses): the nodes a query left an edge between are there.
EdgesKeepEndpoints == Ends(root) \subseteq Ids(root)

\* A DELETE leaves no edge at a node it deleted, in whichever direction the edge
\* goes and in whatever order the targets come (mutate.rs delete).
DeletedNodesTakeTheirEdges ==
  [][stage = "clause" /\ Clause[1] = "delete" => (Ids(root) \ Ids(root')) \intersect Ends(root') = {}]_queryVars

\* The step that carried out the clause the part is at.
Did(kind) == At(kind) /\ clause' = clause + 1

New(before, after) ==
  {after[i] : i \in {j \in DOMAIN after : after[j].id \notin {before[k].id : k \in DOMAIN before}}}

\* No two records agree in everything but their identifiers.
AllDiffer(records) ==
  \A r, s \in records : r.id # s.id => [r EXCEPT !.id = 0] # [s EXCEPT !.id = 0]

\* MERGE creates what was missing, once: its rows make no two records alike, and
\* the same clause on what it left finds everything it asks for (execute.rs
\* run_merge, which matches each row on the graph the rows before it made).
MergeCreatesOnce ==
  [][Did("merge") =>
       /\ Len(Clause[2].steps) = 0 => AllDiffer(New(root.nodes, root'.nodes))
       /\ Len(Clause[2].steps) = 1 => AllDiffer(New(root.edges, root'.edges))
       /\ MergeClause(Writer(root', writes', minted'), Reader(root'), Clause[2], rows).summary = writes']_queryVars

\* The assignments of a SET clause to one property, as <<row, item>>.
Assignments(kind, id, key) ==
  {p \in (DOMAIN rows) \X (DOMAIN Clause[2]) :
     LET item == Clause[2][p[2]]
         bound == rows[p[1]][<<item[2]>>]
     IN  /\ item[1] = "property" /\ item[3] = key
         /\ bound[1] = kind /\ bound[2][1] = 0 /\ bound[2][2] = id}

LastOf(places) ==
  CHOOSE p \in places : \A q \in places : q[1] < p[1] \/ (q[1] = p[1] /\ q[2] <= p[2])

PropertyOf(record, key) == IF key \in DOMAIN record.properties THEN <<record.properties[key]>> ELSE << >>

\* What a SET clause leaves in one property, from the graph at its start.
Assigned(kind, record, key) ==
  LET places == Assignments(kind, record.id, key)
      at == LastOf(places)
      value == Evaluate(Reader(root), Clause[2][at[2]][4], rows[at[1]])
  IN  IF places = {} THEN PropertyOf(record, key) ELSE stored_value(value[2])[2]

Keys == {Clause[2][j][3] : j \in DOMAIN Clause[2]}

\* Every value of a SET clause is taken from the graph as the clause found it, so
\* that `SET a.k = b.k, b.k = a.k` swaps them, and the last assignment of the last
\* row stands (execute.rs run_set).
SetSeesTheClauseStart ==
  [][Did("set") =>
       /\ \A i \in DOMAIN root.nodes : \A key \in Keys :
            PropertyOf(root'.nodes[i], key) = Assigned("node", root.nodes[i], key)
       /\ \A i \in DOMAIN root.edges : \A key \in Keys :
            PropertyOf(root'.edges[i], key) = Assigned("relationship", root.edges[i], key)]_queryVars

\* The projections the next step applies to the rows.
Projecting ==
  IF stage = "clause" /\ Clause[1] = "with" THEN {Clause[2]}
  ELSE IF stage = "result" THEN ToSet(Part.result) ELSE {}

Applied(projection) == apply_projection(Reader(root), projection, rows)

\* The rows a projection keeps, with their scopes.
Chosen(p) == Selected(Reader(root), p.items, p.predicate, rows)[2]

\* The values of the rows a projection keeps, and of their sort keys.
ValuesMet(p, kept) ==
  (UNION {ToSet(kept[i][1]) : i \in DOMAIN kept}) \union
  {v[2] : v \in {w \in {Evaluate(Reader(root), p.order_by[k].expression, kept[i][2]) :
                          k \in DOMAIN p.order_by, i \in DOMAIN kept} : ~ IsRefused(w)}}

\* One order of all the values, in which every two have their places.
Ranks(values) ==
  /\ \A a, b \in values :
       /\ CompareValues(a, b) \in {-1, 0, 1}
       /\ CompareValues(a, b) + CompareValues(b, a) = 0
  /\ \A a, b, c \in values :
       CompareValues(a, b) <= 0 /\ CompareValues(b, c) <= 0 => CompareValues(a, c) <= 0

AreRows(kept) == IsSequence(kept) /\ \A i \in DOMAIN kept : IsSequence(kept[i][1])

\* The values a projection compares have one order, whatever their kinds: numbers
\* compare by what they mean, an integer with a float too, and all others by kind
\* first.  Duplicates, groups and pages rest on it (execute.rs SortKey).
ValuesHaveOneOrder ==
  \A p \in Projecting :
    ~ IsRefused(Selected(Reader(root), p.items, p.predicate, rows)) =>
      LET kept == Chosen(p) IN AreRows(kept) /\ Ranks(ValuesMet(p, kept))

Unpaged(p) == [p EXCEPT !.skip = << >>, !.limit = << >>]

Amount(e, absent) == non_negative(Reader(root), e, absent)[2]

IsSlice(page, whole, skip, limit) ==
  page = [i \in 1 .. Max({0, Min({limit, Len(whole) - skip})}) |-> whole[i + skip]]

\* Each row is there as often as it was found, or once for all that are alike.
HasEach(whole, plain) ==
  \A i \in DOMAIN plain :
    Cardinality({j \in DOMAIN whole : whole[j] = plain[i]})
      = Cardinality({j \in DOMAIN plain : plain[j] = plain[i]})

HasEachOnce(whole, plain) ==
  \A i \in DOMAIN plain :
    Cardinality({j \in DOMAIN whole : CompareRows(whole[j], plain[i]) = 0}) = 1

\* The first key in which two rows differ has the direction asked for.
InOrder(order_by, a, b) ==
  \A k \in DOMAIN order_by :
    (\A l \in 1 .. k - 1 : CompareValues(a[l], b[l]) = 0) =>
      CompareValues(a[k], b[k]) \in {0, IF order_by[k].descending THEN 1 ELSE -1}

\* The rows of the whole result, each with the scope its keys are taken from.
Arranged(p) == Ordered(Reader(root), p.order_by, Deduplicated(p.distinct, Chosen(p)))[2]

KeyRow(p, found) == ValuesIn(Reader(root), ExpressionsOf(p.order_by), found[2])[2]

IsInOrder(p, whole, arranged) ==
  /\ whole = [i \in DOMAIN arranged |-> arranged[i][1]]
  /\ ToSet(arranged) \subseteq ToSet(Chosen(p))
  /\ \A i, j \in DOMAIN arranged :
       i < j => InOrder(p.order_by, KeyRow(p, arranged[i]), KeyRow(p, arranged[j]))

IsPage(p, page, whole, plain) ==
  /\ IsSlice(page, whole, Amount(p.skip, 0), Amount(p.limit, Len(whole)))
  /\ IsInOrder(p, whole, Arranged(p))
  /\ ToSet(whole) \subseteq ToSet(plain)
  /\ IF p.distinct THEN HasEachOnce(whole, plain) ELSE HasEach(whole, plain)

\* A page is a slice of the whole result, and the whole result is what was found,
\* rid of its duplicates and in the order of its keys before any row is skipped: no
\* row is lost or told twice, none is hidden by one that is left out, and each is
\* sorted by the scope it was found with (execute.rs apply_projection).
PageIsSliceOfWhole ==
  \A p \in Projecting :
    ~ IsRefused(Applied(p)) =>
      IsPage(p, Applied(p)[2], Applied(Unpaged(p))[2],
             Applied([Unpaged(p) EXCEPT !.distinct = FALSE, !.order_by = << >>])[2])

=============================================================================
