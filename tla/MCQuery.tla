------------------------------- MODULE MCQuery -------------------------------
(***************************************************************************)
(* Query with the expressions and patterns of src/execute.rs, in Executor: *)
(* what its reading clauses give, by definition rather than by search, and *)
(* the queries, graphs and texts of Query.cfg.                             *)
(***************************************************************************)
EXTENDS Query, Executor

-----------------------------------------------------------------------------
(* What a query finds, by definition rather than by search                  *)

\* An edge as a step from one node to another: forwards or backwards.
Hops(x) ==
  UNION {LET e == EdgeAt(x, h)[1]
             s == endpoint(x, e.source, h[1])
             t == endpoint(x, e.target, h[1])
         IN  IF s = << >> \/ t = << >> THEN {}
             ELSE {[edge |-> h, way |-> "outgoing", from |-> s[1], to |-> t[1]],
                   [edge |-> h, way |-> "incoming", from |-> t[1], to |-> s[1]]} :
         h \in ToSet(Handles(x, EdgesOf))}

\* Whether a record has what an inline map asks for.
Has(x, record, map, row) ==
  \A i \in DOMAIN map :
    /\ map[i][1] \in DOMAIN record.properties
    /\ Same(from_property(record.properties[map[i][1]]), evaluate(x, map[i][2], row)[2])

\* The ways over one relationship pattern: sequences of hops that go on from each
\* other, and meet no node twice when the length is variable.
Journeys(x, pattern, row) ==
  LET hops == {h \in Hops(x) :
                 /\ pattern.direction \in {"either", h.way}
                 /\ pattern.types = << >> \/ EdgeAt(x, h.edge)[1].relation \in ToSet(pattern.types)
                 /\ Has(x, EdgeAt(x, h.edge)[1], pattern.properties, row)}
      simple(j) == Cardinality({j[1].from} \union {j[i].to : i \in DOMAIN j}) = Len(j) + 1
      connected(j) == \A i \in 1 .. Len(j) - 1 : j[i].to = j[i + 1].from
  IN  IF pattern.length = << >> THEN {<<h>> : h \in hops}
      ELSE {j \in UNION {[1 .. n -> hops] : n \in Max({1, pattern.length[1].minimum}) ..
                                                   pattern.length[1].maximum} :
              connected(j) /\ simple(j)}

Admits(x, pattern, h, row) ==
  /\ NodeAt(x, h) # << >>
  /\ ToSet(pattern.labels) \subseteq ToSet(NodeAt(x, h)[1].labels)
  /\ Has(x, NodeAt(x, h)[1], pattern.properties, row)

\* The traces of a pattern: the nodes at its places and the journeys between them.
Traces(x, pattern, row) ==
  LET RECURSIVE upTo(_)
      upTo(k) ==
        IF k = 0
        THEN {[nodes |-> <<h>>, journeys |-> << >>] :
                h \in {n \in ToSet(NodeHandles(x)) : Admits(x, pattern.start, n, row)}}
        ELSE LET step == pattern.steps[k] IN
             UNION {{[nodes |-> Append(t.nodes, Last(j).to), journeys |-> Append(t.journeys, j)] :
                       j \in {i \in Journeys(x, step.relationship, row) :
                                i[1].from = Last(t.nodes) /\ Admits(x, step.node, Last(i).to, row)}} :
                     t \in upTo(k - 1)}
  IN  upTo(Len(pattern.steps))

EdgesIn(journey) == [i \in DOMAIN journey |-> journey[i].edge]

NodeName(pattern, k) == IF k = 1 THEN pattern.start.variable ELSE pattern.steps[k - 1].node.variable

\* The names of nodes agree with each other and with what the row had bound.
Agrees(pattern, trace, row) ==
  \A k \in DOMAIN trace.nodes : NodeName(pattern, k) # << >> =>
    /\ NodeName(pattern, k) \in DOMAIN row => row[NodeName(pattern, k)] = <<"node", trace.nodes[k]>>
    /\ \A l \in DOMAIN trace.nodes :
         NodeName(pattern, l) = NodeName(pattern, k) => trace.nodes[l] = trace.nodes[k]

\* The row a trace gives.
Traced(pattern, trace, row) ==
  LET place(name) == CHOOSE k \in DOMAIN trace.nodes : NodeName(pattern, k) = name
      steps(name) == {k \in DOMAIN pattern.steps : pattern.steps[k].relationship.variable = name}
      edges(k) == [i \in DOMAIN trace.journeys[k] |-> <<"relationship", trace.journeys[k][i].edge>>]
      named == {NodeName(pattern, k) : k \in DOMAIN trace.nodes} \ {<< >>}
      related == {pattern.steps[k].relationship.variable : k \in DOMAIN pattern.steps} \ {<< >>}
      whole == FlattenSeq([k \in DOMAIN trace.journeys |-> EdgesIn(trace.journeys[k])])
  IN  [name \in {n \in {pattern.path_variable} : n # << >>} |-> <<"path", trace.nodes, whole>>]
      @@ [name \in related |->
            LET k == Max(steps(name)) IN
            IF pattern.steps[k].relationship.length = << >> THEN edges(k)[1] ELSE <<"list", edges(k)>>]
      @@ [name \in named |-> <<"node", trace.nodes[place(name)]>>]
      @@ row

\* The rows of several patterns, each with the traces it comes from.
Found(x, patterns, row) ==
  LET RECURSIVE upTo(_)
      upTo(k) ==
        IF k = 0 THEN {<<row, << >>>>}
        ELSE UNION {{<<Traced(patterns[k], t, f[1]), Append(f[2], t)>> :
                       t \in {u \in Traces(x, patterns[k], f[1]) : Agrees(patterns[k], u, f[1])}} :
                     f \in upTo(k - 1)}
  IN  upTo(Len(patterns))

\* What one row of a MATCH must become: its rows, each as often as it is traced.
Expected(x, found, optional, patterns, predicate, row) ==
  LET kept == {f \in found : predicate = << >> \/ is_truthy(evaluate(x, predicate[1], f[1])[2])}
      widened == row @@ [name \in pattern_variables(patterns) |-> Null]
  IN  IF kept = {} /\ optional THEN {<<widened, << >>>>} ELSE kept

\* A row of a MATCH becomes exactly the rows its patterns trace in the graphs, the
\* linked ones included, each as often as there are ways to trace it (execute.rs
\* match_pattern, walk and edges_from): none is lost or counted twice.
MatchFindsThePaths ==
  [][stage = "row" /\ Len(todo') < Len(todo) /\ stage' = "row" =>
       LET x == Reader(root)
           expected == Expected(x, Found(x, Clause[3], Head(todo)), Clause[2], Clause[3],
                                Clause[4], Head(todo))
           new == SubSeq(rows', Len(rows) + 1, Len(rows'))
       IN  /\ Len(new) = Cardinality(expected)
           /\ \A i \in DOMAIN new :
                Cardinality({j \in DOMAIN new : new[j] = new[i]})
                  = Cardinality({f \in expected : f[1] = new[i]})]_queryVars

-----------------------------------------------------------------------------
(* What a projection gives                                                  *)

\* An aggregation whose groups are all in the result.
Aggregates(p) ==
  /\ p.predicate = << >> /\ ~ p.distinct /\ p.skip = << >> /\ p.limit = << >>
  /\ \E i \in DOMAIN p.items : contains_aggregate(p.items[i].expression)

Added(groups, i, Size(_)) == FoldLeft(LAMBDA sum, g : sum + Size(g[i]), 0, groups)

\* How many rows have a value that is not null.
Present(e) == Len(SelectSeq(rows, LAMBDA row : evaluate(Reader(root), e, row)[2] # Null))

\* The argument of an aggregate is counted and collected wherever it is not null.
AddsUp(e, i, groups) ==
  /\ e = <<"call", "count", <<StarArgument>>>> => Added(groups, i, LAMBDA v : v[2]) = Len(rows)
  /\ e[1] = "call" /\ e[2] \in {"count", "collect"} /\ e[3] # <<StarArgument>> =>
       Added(groups, i, LAMBDA v : IF e[2] = "count" THEN v[2] ELSE Len(v[2])) = Present(e[3][1])

PartTheRows(items, keys, groups) ==
  /\ keys = {} => Len(groups) = 1
  /\ \A r, s \in DOMAIN groups : r # s => \E i \in keys : Compare(groups[r][i], groups[s][i]) # 0
  /\ \A i \in DOMAIN items : AddsUp(items[i].expression, i, groups)

\* The groups of an aggregation part the rows: there is one for each key, their
\* counts add up to the rows, and a null is counted and collected by none
\* (execute.rs aggregate_rows and fold_aggregate).
GroupsPartTheRows ==
  \A p \in Projecting :
    Aggregates(p) /\ ~ IsRefused(Applied(p)) =>
      PartTheRows(p.items,
                  {i \in DOMAIN p.items : ~ contains_aggregate(p.items[i].expression)},
                  Applied(p)[2])

-----------------------------------------------------------------------------
(* The queries, graphs and texts of a run                                   *)

MCLiteral ==
  ("0" :> Integer(0)) @@ ("1" :> Integer(1)) @@ ("2" :> Integer(2)) @@ ("3" :> Integer(3)) @@
  ("4" :> Integer(4)) @@ ("7" :> Integer(7)) @@ ("1.5" :> <<"float", 18>>) @@
  ("$p" :> <<"parameter", "p">>) @@ ("$q" :> <<"parameter", "q">>)

MCParameters == [p |-> Text("a")]

TheTexts == <<"A", "F", "L", "M", "N", "R", "S", "T", "a", "e1", "e2", "f", "far", "root">>
MCTexts == TheTexts

MCUpper == [t \in Range(TheTexts) |-> IF t = "a" THEN "A" ELSE t]

Claims(owner, evidence) == <<[owner |-> owner, evidence |-> evidence]>>

\* Two ways from node 1 to node 2 and one back, an edge from node 1 to itself, and
\* an edge to a node of the linked source, which has an identifier of the root's.
Root ==
  [nodes |->
     <<[id |-> 1, labels |-> <<"L">>, properties |-> [k |-> Integer(1)],
        contributions |-> Claims("rust", <<"e1">>)],
       [id |-> 2, labels |-> <<"M", "L">>, properties |-> [k |-> <<"float", 18>>],
        contributions |-> Claims("rust", <<"e1", "e2">>) \o Claims("user", << >>)]>>,
   edges |->
     <<[id |-> 1, source |-> <<"local", 1>>, target |-> <<"local", 2>>, relation |-> "R",
        properties |-> EmptyRow, contributions |-> Claims("rust", << >>)],
       [id |-> 2, source |-> <<"local", 2>>, target |-> <<"local", 1>>, relation |-> "S",
        properties |-> [k |-> Integer(1)], contributions |-> Claims("rust", << >>)],
       [id |-> 3, source |-> <<"local", 1>>, target |-> <<"local", 1>>, relation |-> "R",
        properties |-> EmptyRow, contributions |-> Claims("user", << >>)],
       [id |-> 4, source |-> <<"local", 2>>, target |-> <<"external", "far", 1>>, relation |-> "R",
        properties |-> EmptyRow, contributions |-> Claims("ai", << >>)]>>,
   links |-> <<[source |-> "far", alias |-> <<"f">>, remote |-> TRUE]>>]

Empty == [nodes |-> << >>, edges |-> << >>, links |-> << >>]

MCGraphs == {Root, Empty}

MCLinked ==
  <<[nodes |-> <<[id |-> 1, labels |-> <<"F", "M">>, properties |-> [k |-> Integer(2)],
                  contributions |-> Claims("user", <<"e2">>)]>>,
     edges |-> << >>, links |-> << >>]>>

MCLocators == <<"far">>

\* Queries that read, some of which are refused.
Reads ==
  {<<"UNWIND", "[", "2", ",", "$p", ",", "1.5", ",", "TRUE", ",", "NULL", ",", "[", "1", ",", "1.5",
     "]", ",", "1", ",", "[", "1", "]", ",", "2", "]", "AS", "v", "RETURN", "DISTINCT", "v", "AS",
     "w", "ORDER", "BY", "w", "DESC", "SKIP", "1", "LIMIT", "4">>,
   <<"MATCH", "(", "n", ":", "L", ")", "RETURN", "n", ",", "n", ".", "k", "ORDER", "BY", "n",
     ".", "k", "DESC", "SKIP", "1", "LIMIT", "1">>,
   <<"MATCH", "p", "=", "(", "a", ")", "-", "[", "r", ":", "R", "|", "S", "*", "1", "..", "2",
     "]", "->", "(", "b", ":", "M", ")", "RETURN", "p", ",", "b">>,
   <<"MATCH", "(", "a", ")", "-", "[", "r", ":", "R", "]", "-", "(", "b", ")", "RETURN",
     "DISTINCT", "labels", "(", "b", ")", "AS", "l", "ORDER", "BY", "l", "LIMIT", "2">>,
   <<"MATCH", "(", "a", ")", "-", "[", "r", "*", "0", "..", "3", "]", "-", "(", "b", ":", "F",
     ")", "RETURN", "r">>,
   <<"OPTIONAL", "MATCH", "(", "a", ":", "L", ")", "<-", "[", "r", ":", "S", "{", "k", ":", "1",
     "}", "]", "-", "(", "b", ")", "WHERE", "a", ".", "k", ">=", "1", "RETURN", "a", ",", "b",
     ",", "type", "(", "r", ")", ",", "r", ".", "k">>,
   <<"MATCH", "(", "a", ":", "L", ")", ",", "(", "b", ":", "M", ")", "WHERE", "a", ".", "k",
     "<", "b", ".", "k", "OR", "NOT", "b", ".", "k", "IN", "[", "1", ",", "2", "]", "RETURN",
     "a", ",", "b">>,
   <<"MATCH", "(", "n", ":", "M", ")", "RETURN", "labels", "(", "n", ")", "AS", "l", ",",
     "count", "(", "*", ")", "AS", "c", ",", "count", "(", "n", ".", "k", ")", "AS", "d", ",",
     "collect", "(", "n", ".", "k", ")", "AS", "e">>,
   <<"MATCH", "(", "n", ")", "RETURN", "sum", "(", "n", ".", "k", ")", ",", "avg", "(", "n",
     ".", "k", ")", ",", "min", "(", "n", ".", "k", ")", ",", "max", "(", "n", ".", "k", ")",
     ",", "count", "(", "*", ")">>,
   <<"MATCH", "(", "n", ")", "WITH", "n", ".", "k", "AS", "k", "WHERE", "k", "<>", "1",
     "UNWIND", "[", "k", ",", "1", "/", "0", ",", "4", "+", "k", ",", "7", "%", "4", "]", "AS",
     "v", "RETURN", "v", "-", "1", ",", "v", "=", "1.5">>,
   <<"MATCH", "(", "a", ":", "L", ")", "RETURN", "a", ".", "k", "AS", "x", "UNION", "MATCH",
     "(", "b", ":", "L", ")", "RETURN", "b", ".", "k", "AS", "x">>,
   <<"MATCH", "(", "a", ":", "L", ")", "RETURN", "a", ".", "k", "AS", "x", "UNION", "ALL",
     "MATCH", "(", "b", ":", "L", ")", "RETURN", "b", ".", "k", "AS", "x">>,
   <<"CALL", "nostdb", ".", "links", "(", ")", "YIELD", "source", ",", "alias", "AS", "a">>,
   <<"CALL", "nostdb", ".", "build_status", "(", ")", "YIELD", "nodes", "RETURN", "nodes">>,
   <<"MATCH", "(", "n", ":", "M", ")", "CALL", "nostdb", ".", "evidence", "(", "n", ")",
     "YIELD", "path", "RETURN", "path", ",", "count", "(", "*", ")", "AS", "c">>,
   <<"MATCH", "(", "n", ")", "RETURN", "nostdb", ".", "source", "(", "n", ")", ",", "nostdb",
     ".", "source_location", "(", "n", ")", ",", "nostdb", ".", "link_alias", "(", "n", ")",
     ",", "nostdb", ".", "is_available", "(", "n", ")", ",", "size", "(", "[", "1", ",", "n",
     ".", "k", "]", ")", ",", "coalesce", "(", "NULL", ",", "n", ".", "k", ")", ",", "toupper",
     "(", "$p", ")">>,
   <<"MATCH", "(", "n", ":", "Z", ")", "RETURN", "n">>,
   <<"CALL", "nostdb", ".", "refresh_links", "(", ")">>,
   <<"MATCH", "(", "n", ":", "L", ")", "RETURN", "m">>,
   <<"MATCH", "(", "n", ":", "L", "{", "k", ":", "NULL", "}", ")", "RETURN", "n">>,
   <<"UNWIND", "1", "AS", "i", "CALL", "nostdb", ".", "evidence", "(", "i", ")", "RETURN", "i">>,
   <<"MATCH", "(", "n", ":", "L", ")", "WITH", "n", "LIMIT", "$q", "RETURN", "n">>}

\* Queries that write, some of which are refused at a later record.
WritingQueries ==
  {<<"UNWIND", "[", "1", ",", "1.5", ",", "1", ",", "2", "]", "AS", "i", "MERGE", "(", "n", ":",
     "N", "{", "k", ":", "i", "}", ")">>,
   <<"MATCH", "(", "a", ":", "L", ")", ",", "(", "b", ":", "M", ")", "WHERE", "b", ".", "k",
     "=", "1.5", "OR", "a", ".", "k", "=", "1", "MERGE", "(", "a", ")", "-", "[", "r", ":", "R",
     "{", "k", ":", "1", "}", "]", "->", "(", "c", ":", "N", ")">>,
   <<"MATCH", "(", "a", ":", "L", ")", "-", "[", ":", "R", "]", "->", "(", "b", ":", "L", ")",
     "MERGE", "(", "a", ")", "<-", "[", ":", "T", "]", "-", "(", "b", ")">>,
   <<"MATCH", "(", "a", ":", "L", ")", "-", "[", ":", "R", "]", "->", "(", "b", ":", "L", ")",
     "SET", "a", ".", "k", "=", "b", ".", "k", ",", "b", ".", "k", "=", "a", ".", "k", ",", "a",
     ":", "N">>,
   <<"MATCH", "(", "a", ":", "L", ")", "-", "[", "r", ":", "S", "]", "->", "(", "b", ")", "SET",
     "r", ".", "k", "=", "NULL", ",", "a", ".", "k", "=", "NULL">>,
   <<"OPTIONAL", "MATCH", "(", "z", ":", "Z", ")", "SET", "z", ".", "k", "=", "1", ",", "z",
     ":", "L", "REMOVE", "z", ".", "k">>,
   <<"MATCH", "(", "n", ":", "L", ")", "-", "[", "r", ":", "S", "]", "-", "(", "m", ")",
     "REMOVE", "n", ".", "k", ",", "r", ".", "k", ",", "n", ":", "M">>,
   <<"MATCH", "(", "n", ":", "L", ")", "WHERE", "n", ".", "k", "=", "1", "DETACH", "DELETE",
     "n", ",", "n">>,
   <<"MATCH", "(", "n", ":", "L", ")", "WHERE", "n", ".", "k", "=", "1", "DETACH", "DELETE",
     "n", "CREATE", "(", "n", ")", "-", "[", ":", "R", "]", "->", "(", "m", ":", "N", ")">>,
   <<"MATCH", "(", "a", ")", "-", "[", "r", ":", "R", "]", "-", "(", "b", ")", "WHERE", "b",
     ".", "k", "=", "1.5", "DELETE", "r", ",", "r">>,
   <<"CREATE", "(", "a", ":", "N", "{", "k", ":", "2", "}", ")", "-", "[", ":", "R", "]", "->",
     "(", "b", ":", "N", ":", "N", ")", "<-", "[", "r", ":", "S", "{", "k", ":", "$p", "}", "]",
     "-", "(", "c", ":", "N", ")">>,
   <<"MATCH", "(", "n", ":", "L", ")", "WITH", "n", "ORDER", "BY", "n", ".", "k", "DESC",
     "CREATE", "(", "n", ")", "-", "[", ":", "R", "]", "->", "(", "m", ":", "N", "{", "k", ":",
     "n", ".", "k", "}", ")", "RETURN", "m", ".", "k">>,
   <<"CREATE", "(", "n", ")">>,
   <<"MATCH", "(", "m", ":", "M", ")", "SET", "m", ".", "k", "=", "1">>,
   <<"MATCH", "(", "n", ":", "L", ")", "REMOVE", "n", ":", "L">>,
   <<"MATCH", "(", "n", ":", "L", ")", "DELETE", "n">>,
   <<"MATCH", "(", "a", ")", "-", "[", "r", ":", "S", "]", "->", "(", "b", ")", "SET", "r", ":",
     "N">>,
   <<"MATCH", "(", "n", ":", "L", ")", "SET", "n", ".", "k", "=", "[", "n", "]">>,
   <<"MATCH", "(", "n", ":", "L", ")", "DELETE", "n", ".", "k">>}

\* What the texts are read as; a text the parser refuses starts nothing.
Parsed(texts) == {parse(text)[2] : text \in {t \in texts : parse(t)[1] = "ok"}}

TheQueries == Parsed(Reads \union WritingQueries)

\* Queries that go on from the graph another one left.
TheLater ==
  Parsed({<<"MATCH", "(", "a", ")", "-", "[", "r", ":", "R", "]", "-", "(", "b", ")", "RETURN",
     "DISTINCT", "labels", "(", "b", ")", "AS", "l", "ORDER", "BY", "l", "LIMIT", "2">>,
   <<"MATCH", "(", "n", ":", "M", ")", "RETURN", "labels", "(", "n", ")", "AS", "l", ",",
     "count", "(", "*", ")", "AS", "c", ",", "count", "(", "n", ".", "k", ")", "AS", "d", ",",
     "collect", "(", "n", ".", "k", ")", "AS", "e">>,
   <<"UNWIND", "[", "1", ",", "1.5", ",", "1", ",", "2", "]", "AS", "i", "MERGE", "(", "n", ":",
     "N", "{", "k", ":", "i", "}", ")">>,
   <<"MATCH", "(", "a", ":", "L", ")", "-", "[", ":", "R", "]", "->", "(", "b", ":", "L", ")",
     "MERGE", "(", "a", ")", "<-", "[", ":", "T", "]", "-", "(", "b", ")">>,
   <<"MATCH", "(", "a", ":", "L", ")", "-", "[", ":", "R", "]", "->", "(", "b", ":", "L", ")",
     "SET", "a", ".", "k", "=", "b", ".", "k", ",", "b", ".", "k", "=", "a", ".", "k", ",", "a",
     ":", "N">>,
   <<"MATCH", "(", "a", ")", "-", "[", "r", ":", "R", "]", "-", "(", "b", ")", "WHERE", "b",
     ".", "k", "=", "1.5", "DELETE", "r", ",", "r">>})

\* TLC evaluates these definitions once, and what a constant is given at every use.
MCQueries == TheQueries
MCLater == TheLater

=============================================================================
