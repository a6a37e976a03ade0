------------------------------ MODULE Executor ------------------------------
(***************************************************************************)
(* The values of src/execute.rs: their order, their equality, arithmetic,  *)
(* and the stored forms of src/property.rs they come from and turn into.   *)
(* A value is a tuple that begins with its kind.  A float <<"float", n>>   *)
(* is n / Scale, and the integers are those from -MaxInteger - 1 to        *)
(* MaxInteger, the width of an i64.  A text is compared by its place in    *)
(* Texts.                                                                  *)
(*                                                                         *)
(* src/execute.rs: the graphs a query sees and the value of an expression  *)
(* in a row.  An executor is a record of the graphs, the root first, with  *)
(* their locators, its parameters and its context.  A graph has sequences  *)
(* of nodes, edges and links; a record is named inside a query by its      *)
(* handle <<source, id>>, and the root is source 0.  A row binds names,    *)
(* which are sequences of spellings, as a column may be named by an        *)
(* expression.                                                             *)
(*                                                                         *)
(* src/execute.rs and src/procedure.rs: what a clause reads.               *)
(***************************************************************************)
EXTENDS Cypher

CONSTANTS
  MaxInteger,  \* the largest integer
  Texts        \* every text of an instance, in the order of their bytes

Scale == 12

-----------------------------------------------------------------------------
(* Order and equality                                                       *)

IsNumber(v) == v[1] \in {"integer", "float"}
Scaled(v) == IF v[1] = "integer" THEN v[2] * Scale ELSE v[2]

\* Mutant: a float is compared to an integer as the integer is to it.
CompareNumberOneWay(a, b) ==
  IF a[1] = "float" /\ b[1] = "integer" THEN Sign(Scaled(b) - Scaled(a))
  ELSE Sign(Scaled(a) - Scaled(b))

\* An integer and a float compare by what they mean.
CompareNumber(a, b) == Sign(Scaled(a) - Scaled(b))

KindRank(v) ==
  CASE v[1] = "null" -> 0 [] v[1] = "boolean" -> 1 [] IsNumber(v) -> 2 [] v[1] = "text" -> 3
    [] v[1] = "list" -> 4 [] v[1] = "node" -> 5 [] v[1] = "relationship" -> 6
    [] v[1] = "path" -> 7 [] v[1] = "object" -> 8

CompareHandle(a, b) == IF a[1] # b[1] THEN Sign(a[1] - b[1]) ELSE Sign(a[2] - b[2])

CompareText(s, t) ==
  LET rank(u) == CHOOSE i \in DOMAIN Texts : Texts[i] = u IN Sign(rank(s) - rank(t))

\* The total order of the sort keys.  A path is compared by its nodes alone.
RECURSIVE Compare(_, _)
Compare(a, b) ==
  IF KindRank(a) # KindRank(b) THEN Sign(KindRank(a) - KindRank(b))
  ELSE CASE a[1] = "null" -> 0
         [] a[1] = "boolean" -> Sign((IF a[2] THEN 1 ELSE 0) - (IF b[2] THEN 1 ELSE 0))
         [] IsNumber(a) -> CompareNumber(a, b)
         [] a[1] = "text" -> CompareText(a[2], b[2])
         [] a[1] = "list" -> CompareSeq(a[2], b[2], Compare)
         [] a[1] \in {"node", "relationship"} -> CompareHandle(a[2], b[2])
         [] a[1] = "path" -> CompareSeq(a[2], b[2], CompareHandle)
         [] a[1] = "object" ->
              CompareSeq(a[2], b[2], LAMBDA e, f :
                IF e[1] # f[1] THEN CompareText(e[1], f[1]) ELSE Compare(e[2], f[2]))

CompareRow(r, s) == CompareSeq(r, s, Compare)

\* `=`: an object equals nothing, and a path is its nodes and its relationships.
RECURSIVE Same(_, _)
Same(a, b) ==
  \/ IsNumber(a) /\ IsNumber(b) /\ CompareNumber(a, b) = 0
  \/ /\ a[1] = b[1]
     /\ a[1] \in {"null", "boolean", "text", "node", "relationship", "path"}
     /\ a = b
  \/ /\ a[1] = "list" /\ b[1] = "list" /\ Len(a[2]) = Len(b[2])
     /\ \A i \in DOMAIN a[2] : Same(a[2][i], b[2][i])

-----------------------------------------------------------------------------
(* Arithmetic                                                               *)

InRange(n) == -(MaxInteger + 1) <= n /\ n <= MaxInteger

\* Division rounds to zero.
Quotient(a, b) == Sign(a) * Sign(b) * ((Sign(a) * a) \div (Sign(b) * b))

\* The exact result, of a division when it is defined.
Exact(operator, a, b) ==
  CASE operator = "+" -> a + b
    [] operator = "-" -> a - b
    [] operator = "*" -> a * b
    [] operator = "/" -> Quotient(a, b)
    [] operator = "%" -> a - b * Quotient(a, b)

arithmetic(operator, left, right) ==
  IF operator = "+" /\ left[1] = "text" /\ right[1] = "text" THEN Text(left[2] \o right[2])
  ELSE IF \/ left[1] # "integer" \/ right[1] # "integer"
          \/ operator \in {"/", "%"} /\ right[2] = 0
          \/ operator \in {"/", "%"} /\ ~ InRange(Quotient(left[2], right[2]))
  THEN Null
  ELSE LET n == Exact(operator, left[2], right[2]) IN IF InRange(n) THEN Integer(n) ELSE Null

-----------------------------------------------------------------------------
(* Stored values                                                            *)

RECURSIVE from_property(_)
from_property(p) ==
  CASE p[1] \in {"bytes", "datetime"} -> Text(p[2])
    [] p[1] = "list" -> <<"list", [i \in DOMAIN p[2] |-> from_property(p[2][i])]>>
    [] p[1] = "object" -> <<"object", [i \in DOMAIN p[2] |-> <<p[2][i][1], from_property(p[2][i][2])>>]>>
    [] OTHER -> p

-----------------------------------------------------------------------------
CONSTANT Upper    \* the upper case of each text

Handles(x, Records(_)) ==
  Joined([s \in DOMAIN x.graphs |->
    [i \in DOMAIN Records(x.graphs[s]) |-> <<s - 1, Records(x.graphs[s])[i].id>>]])

NodesOf(graph) == graph.nodes
EdgesOf(graph) == graph.edges

\* The index of nodes is ordered by source and identifier.
NodeHandles(x) == Ranked(ToSet(Handles(x, NodesOf)), LAMBDA a, b : CompareHandle(a, b) < 0)

\* The record of an identifier, as a sequence of at most one.
RecordAt(records, id) ==
  IF \E i \in DOMAIN records : records[i].id = id
  THEN <<records[CHOOSE i \in DOMAIN records : records[i].id = id]>> ELSE << >>

NodeAt(x, h) == RecordAt(x.graphs[h[1] + 1].nodes, h[2])
EdgeAt(x, h) == RecordAt(x.graphs[h[1] + 1].edges, h[2])

\* An endpoint is local to the source of its edge, or names another by locator.
endpoint(x, reference, source) ==
  IF reference[1] = "local" THEN <<<<source, reference[2]>>>>
  ELSE LET held == {i \in DOMAIN x.locators : x.locators[i] = <<reference[2]>>} IN
       IF held = {} THEN << >> ELSE <<<<Min(held) - 1, reference[3]>>>>

\* The edges with the node at one end.
EdgesWith(x, end, node) ==
  SelectSeq(Handles(x, EdgesOf), LAMBDA h : endpoint(x, EdgeAt(x, h)[1][end], h[1]) = <<node>>)

outgoing(x, from) == EdgesWith(x, "source", from)
incoming(x, to) == EdgesWith(x, "target", to)

-----------------------------------------------------------------------------
(* Expressions                                                              *)

Stored(record, key) ==
  IF record # << >> /\ key \in DOMAIN record[1].properties
  THEN from_property(record[1].properties[key]) ELSE Null

property_of(x, bound, key) ==
  CASE bound[1] = "node" -> Stored(NodeAt(x, bound[2]), key)
    [] bound[1] = "relationship" -> Stored(EdgeAt(x, bound[2]), key)
    [] OTHER -> Null

IsRecordOrNull(v) == v[1] \in {"node", "relationship", "null"}

\* Where a record came from; << >> when the value is no record.
source_function(x, name, values) ==
  LET bound == IF values = << >> THEN Null ELSE values[1]
      locator == x.locators[bound[2][1] + 1]
      aliases == SelectSeq(x.graphs[1].links, LAMBDA l : l.source = locator[1])
  IN  IF ~ IsRecordOrNull(bound) THEN << >>
      ELSE IF bound = Null THEN <<Null>>
      ELSE IF name = "nostdb.link_alias"
           THEN IF locator = << >> \/ aliases = << >> \/ aliases[1].alias = << >> THEN <<Null>>
                ELSE <<Text(aliases[1].alias[1])>>
      ELSE IF locator # << >> THEN <<Text(locator[1])>>
      ELSE <<x.context.source>>

\* The record whose evidence a procedure or a function reports: it is looked for
\* by its identifier in the root, whatever its source.
RecordOf(x, bound) ==
  IF bound[1] = "null" THEN << >>
  ELSE RecordAt(IF bound[1] = "node" THEN x.graphs[1].nodes ELSE x.graphs[1].edges, bound[2][2])

EvidenceOf(record) ==
  IF record = << >> THEN << >>
  ELSE Joined([i \in DOMAIN record[1].contributions |-> record[1].contributions[i].evidence])

\* What the functions read of a record: the first evidence of its first contribution.
FirstOf(evidence) == IF evidence = << >> THEN Null ELSE Text(evidence[1])

FirstEvidence(record) ==
  IF record = << >> \/ record[1].contributions = << >> THEN Null
  ELSE FirstOf(record[1].contributions[1].evidence)

Namespaced == {"nostdb.source", "nostdb.source_location", "nostdb.source_revision",
               "nostdb.link_alias", "nostdb.is_available"}

function(x, name, values) ==
  IF name \notin Namespaced \/ Len(values) # 1 \/ ~ IsRecordOrNull(values[1]) THEN Refuse(Semantic)
  ELSE IF name = "nostdb.is_available" THEN Yes(Boolean(TRUE))
  ELSE Yes(FirstEvidence(RecordOf(x, values[1])))

LabelsOf(node) ==
  IF node = << >> THEN Null
  ELSE <<"list", [i \in DOMAIN node[1].labels |-> Text(node[1].labels[i])]>>

TypeOf(edge) == IF edge = << >> THEN Null ELSE Text(edge[1].relation)

FirstPresent(values) ==
  IF \E i \in DOMAIN values : values[i] # Null
  THEN values[Min({i \in DOMAIN values : values[i] # Null})] ELSE Null

scalar_function(x, name, values) ==
  LET first == IF values = << >> THEN Null ELSE values[1] IN
  CASE name = "toupper" -> IF first[1] = "text" THEN Text(Upper[first[2]]) ELSE Null
    [] name = "size" -> IF first[1] = "list" THEN Integer(Len(first[2])) ELSE Null
    [] name = "labels" -> IF first[1] = "node" THEN LabelsOf(NodeAt(x, first[2])) ELSE Null
    [] name = "type" -> IF first[1] = "relationship" THEN TypeOf(EdgeAt(x, first[2])) ELSE Null
    [] name = "coalesce" -> FirstPresent(values)

call(x, name, values) ==
  IF name \in Aggregate THEN Refuse(Semantic)
  ELSE IF name \in Namespaced
  THEN LET answer == IF name \in {"nostdb.source", "nostdb.link_alias"}
                     THEN source_function(x, name, values) ELSE << >>
       IN  IF answer # << >> THEN Yes(answer[1]) ELSE function(x, name, values)
  ELSE IF name \notin {"toupper", "size", "labels", "type", "coalesce"} THEN Refuse(Semantic)
  ELSE Yes(scalar_function(x, name, values))

\* The operators that hold between two values in this order.
Holding(order) ==
  IF order < 0 THEN {"<", "<="} ELSE IF order > 0 THEN {">", ">="} ELSE {"<=", ">="}

Compared(operator, left, right) ==
  IF left = Null \/ right = Null THEN Null
  ELSE Boolean(operator \in Holding(Compare(left, right)))

Operated(operator, left, right) ==
  CASE operator = "=" -> Boolean(Same(left, right))
    [] operator = "<>" -> Boolean(~ Same(left, right))
    [] operator \in {"<", "<=", ">", ">="} -> Compared(operator, left, right)
    [] operator = "IN" ->
         IF right[1] # "list" THEN Null
         ELSE Boolean(\E i \in DOMAIN right[2] : Same(right[2][i], left))
    [] OTHER -> arithmetic(operator, left, right)

RECURSIVE evaluate(_, _, _)

\* AND and OR look at the right side only when the left one leaves it open.
ShortCircuit(x, operator, left, right, row) ==
  Bind(evaluate(x, left, row), LAMBDA l :
    IF is_truthy(l) = (operator = "OR") THEN Yes(Boolean(operator = "OR"))
    ELSE Bind(evaluate(x, right, row), LAMBDA r : Yes(Boolean(is_truthy(r)))))

evaluate(x, e, row) ==
  LET kind == e[1] IN
  CASE kind \in {"integer", "float", "text", "boolean", "null"} -> Yes(e)
    [] kind = "parameter" -> Bound(x.parameters, e[2])
    [] kind = "variable" -> Bound(row, <<e[2]>>)
    [] kind = "placeholder" -> Yes(row[e])
    [] kind = "property" ->
         Bind(Bound(row, <<e[2]>>), LAMBDA bound : Yes(property_of(x, bound, e[3])))
    [] kind = "list" ->
         Bind(Each(e[2], LAMBDA item : evaluate(x, item, row)), LAMBDA items : Yes(<<"list", items>>))
    [] kind = "not" ->
         Bind(evaluate(x, e[2], row), LAMBDA inner : Yes(Boolean(~ is_truthy(inner))))
    [] kind = "call" ->
         Bind(Each(e[3], LAMBDA item : evaluate(x, item, row)), LAMBDA values : call(x, e[2], values))
    [] kind = "binary" /\ e[2] \in {"AND", "OR"} -> ShortCircuit(x, e[2], e[3], e[4], row)
    [] kind = "binary" ->
         Bind(evaluate(x, e[3], row), LAMBDA left :
           Bind(evaluate(x, e[4], row), LAMBDA right : Yes(Operated(e[2], left, right))))

-----------------------------------------------------------------------------
(* What a clause reads                                                      *)

CONSTANT EvidenceRowLimit  \* procedure.rs EVIDENCE_ROW_LIMIT

-----------------------------------------------------------------------------
(* Matching                                                                 *)

\* Whether one stored property is what a map's entry asks for; nothing stored
\* equals null.
entry_matches(x, stored, entry, row) ==
  Bind(evaluate(x, entry[2], row), LAMBDA expected :
    IF expected = Null THEN Refuse(Semantic)
    ELSE Yes(/\ entry[1] \in DOMAIN stored
             /\ Same(from_property(stored[entry[1]]), expected)))

\* The first entry that does not match, or is refused, decides.
properties_match(x, stored, wanted, row) ==
  FoldLeft(LAMBDA sofar, entry :
             IF sofar # Yes(TRUE) THEN sofar ELSE entry_matches(x, stored, entry, row),
           Yes(TRUE), wanted)

node_matches(x, node, pattern, row) ==
  IF ~ ToSet(pattern.labels) \subseteq ToSet(node.labels) THEN Yes(FALSE)
  ELSE properties_match(x, node.properties, pattern.properties, row)

edge_matches(x, edge, pattern, row) ==
  IF pattern.types # << >> /\ edge.relation \notin ToSet(pattern.types) THEN Yes(FALSE)
  ELSE properties_match(x, edge.properties, pattern.properties, row)

Tagged(handles, end) == [i \in DOMAIN handles |-> <<handles[i], end>>]

\* Mutant: a relationship in either direction is only followed forwards.
IncidentForward(x, from, direction) ==
  IF direction = "incoming" THEN Tagged(incoming(x, from), "source")
  ELSE Tagged(outgoing(x, from), "target")

\* The edges at a node with the end they lead to, those that leave it first.
IncidentEdges(x, from, direction) ==
  (IF direction = "incoming" THEN << >> ELSE Tagged(outgoing(x, from), "target"))
    \o (IF direction = "outgoing" THEN << >> ELSE Tagged(incoming(x, from), "source"))

\* Where an edge leads, as a sequence of at most one <<edge, node>>.
Reaching(x, h, end) ==
  LET reached == endpoint(x, EdgeAt(x, h)[1][end], h[1]) IN
  IF reached = << >> THEN << >> ELSE <<<<h, reached[1]>>>>

\* Every edge the pattern admits at `from`, with the node it reaches.
edges_from(x, from, pattern, row) ==
  Collect(IncidentEdges(x, from, pattern.direction), LAMBDA at :
    Bind(edge_matches(x, EdgeAt(x, at[1])[1], pattern, row), LAMBDA matches :
      Yes(IF matches THEN Reaching(x, at[1], at[2]) ELSE << >>)))

\* The paths of a frontier that go on by one edge, to a node they have not visited.
Deepened(x, frontier, pattern, row) ==
  Collect(frontier, LAMBDA path :
    Bind(edges_from(x, path.at, pattern, row), LAMBDA found :
      Yes(Joined([i \in DOMAIN found |->
            IF found[i][2] \in path.visited THEN << >>
            ELSE <<[edges |-> Append(path.edges, found[i][1]), at |-> found[i][2],
                    visited |-> path.visited \union {found[i][2]}]>>]))))

\* The paths of at least the minimum length.
Reported(frontier, depth, range) ==
  IF depth < range.minimum THEN << >>
  ELSE [i \in DOMAIN frontier |-> <<frontier[i].edges, frontier[i].at>>]

RECURSIVE deeper(_, _, _, _, _)
deeper(x, depth, frontier, pattern, row) ==
  IF depth > pattern.length[1].maximum \/ frontier = << >> THEN Yes(<< >>)
  ELSE Bind(Deepened(x, frontier, pattern, row), LAMBDA next :
         Bind(deeper(x, depth + 1, next, pattern, row), LAMBDA rest :
           Yes(Reported(next, depth, pattern.length[1]) \o rest)))

\* The paths of a variable-length pattern, which visit no node twice.
walk(x, from, pattern, row) ==
  deeper(x, 1, <<[edges |-> << >>, at |-> from, visited |-> {from}]>>, pattern, row)

\* The row with a node variable bound, unless it is bound to another node.
WithNode(row, variable, h) ==
  IF variable = << >> THEN <<row>>
  ELSE IF variable \notin DOMAIN row THEN <<Extended(row, variable, <<"node", h>>)>>
  ELSE IF row[variable] = <<"node", h>> THEN <<row>>
  ELSE << >>

\* A relationship variable takes its new value, whatever it was bound to.
WithRelationship(row, pattern, edges) ==
  IF pattern.variable = << >> THEN row
  ELSE Extended(row, pattern.variable,
                IF pattern.length = << >> THEN <<"relationship", edges[1]>>
                ELSE <<"list", [i \in DOMAIN edges |-> <<"relationship", edges[i]>>]>>)

\* The rows, none or one, of a row at a node a pattern admits.
AtNode(x, h, pattern, row) ==
  IF NodeAt(x, h) = << >> THEN Yes(<< >>)
  ELSE Bind(node_matches(x, NodeAt(x, h)[1], pattern, row), LAMBDA matches :
         Yes(IF matches THEN WithNode(row, pattern.variable, h) ELSE << >>))

Started(x, pattern, base) ==
  Collect(NodeHandles(x), LAMBDA h :
    Bind(AtNode(x, h, pattern.start, base), LAMBDA rows :
      Yes([i \in DOMAIN rows |-> [row |-> rows[i], at |-> h, nodes |-> <<h>>, edges |-> << >>]])))

\* The edges taken by one relationship pattern, with the node they reach.
Reached(x, from, pattern, row) ==
  IF pattern.length # << >> THEN walk(x, from, pattern, row)
  ELSE Bind(edges_from(x, from, pattern, row), LAMBDA found :
         Yes([i \in DOMAIN found |-> <<<<found[i][1]>>, found[i][2]>>]))

\* The ways one partial match goes on over one step.
Stepped(x, step, partial) ==
  Bind(Reached(x, partial.at, step.relationship, partial.row), LAMBDA found :
    Collect(found, LAMBDA f :
      Bind(AtNode(x, f[2], step.node, partial.row), LAMBDA rows :
        Yes([i \in DOMAIN rows |->
               [row |-> WithRelationship(rows[i], step.relationship, f[1]), at |-> f[2],
                nodes |-> Append(partial.nodes, f[2]), edges |-> partial.edges \o f[1]]]))))

RECURSIVE match_steps(_, _, _, _)
match_steps(x, pattern, i, partial) ==
  IF i > Len(pattern.steps) THEN Yes(partial)
  ELSE Bind(Collect(partial, LAMBDA p : Stepped(x, pattern.steps[i], p)),
            LAMBDA extended : match_steps(x, pattern, i + 1, extended))

WithPath(pattern, p) ==
  IF pattern.path_variable = << >> THEN p.row
  ELSE Extended(p.row, pattern.path_variable, <<"path", p.nodes, p.edges>>)

match_pattern(x, pattern, base) ==
  Bind(Started(x, pattern, base), LAMBDA starts :
    Bind(match_steps(x, pattern, 1, starts), LAMBDA found :
      Yes([i \in DOMAIN found |-> WithPath(pattern, found[i])])))

pattern_variables(patterns) ==
  UNION {{p.path_variable, p.start.variable} \union
         UNION {{p.steps[i].relationship.variable, p.steps[i].node.variable} : i \in DOMAIN p.steps} :
         p \in ToSet(patterns)} \ {<< >>}

Filtered(x, predicate, rows) ==
  IF predicate = << >> THEN Yes(rows)
  ELSE KeptBy(rows, LAMBDA row : Bind(evaluate(x, predicate[1], row), LAMBDA v : Yes(is_truthy(v))))

RECURSIVE match_patterns(_, _, _, _)
match_patterns(x, patterns, i, rows) ==
  IF i > Len(patterns) THEN Yes(rows)
  ELSE Bind(Collect(rows, LAMBDA r : match_pattern(x, patterns[i], r)),
            LAMBDA grown : match_patterns(x, patterns, i + 1, grown))

\* The rows one row becomes.
match_row(x, optional, patterns, predicate, row) ==
  Bind(match_patterns(x, patterns, 1, <<row>>), LAMBDA grown :
    Bind(Filtered(x, predicate, grown), LAMBDA found :
      Yes(IF found = << >> /\ optional
          THEN <<row @@ [name \in pattern_variables(patterns) |-> Null]>> ELSE found)))

-----------------------------------------------------------------------------
(* Projections                                                              *)

RECURSIVE lift_aggregates(_)
\* The aggregates of an expression stand for themselves, as names no text spells.
lift_aggregates(e) ==
  CASE e[1] = "call" /\ e[2] \in Aggregate -> <<"placeholder", e[2], e[3]>>
    [] e[1] = "call" -> <<"call", e[2], [i \in DOMAIN e[3] |-> lift_aggregates(e[3][i])]>>
    [] e[1] = "list" -> <<"list", [i \in DOMAIN e[2] |-> lift_aggregates(e[2][i])]>>
    [] e[1] = "not" -> <<"not", lift_aggregates(e[2])>>
    [] e[1] = "binary" -> <<"binary", e[2], lift_aggregates(e[3]), lift_aggregates(e[4])>>
    [] OTHER -> e

RECURSIVE Placeholders(_)
Placeholders(e) ==
  CASE e[1] = "placeholder" -> {e}
    [] e[1] = "call" -> UNION {Placeholders(e[3][i]) : i \in DOMAIN e[3]}
    [] e[1] = "list" -> UNION {Placeholders(e[2][i]) : i \in DOMAIN e[2]}
    [] e[1] = "not" -> Placeholders(e[2])
    [] e[1] = "binary" -> Placeholders(e[3]) \union Placeholders(e[4])
    [] OTHER -> {}

\* An exact total, when it is an integer and one fits; otherwise a float.
numeric_total(values) ==
  LET total == FoldLeft(LAMBDA sum, v : sum + Scaled(v), 0, values) IN
  IF values = << >> THEN Integer(0)
  ELSE IF (\A i \in DOMAIN values : values[i][1] = "integer") /\ InRange(total \div Scale)
  THEN Integer(total \div Scale)
  ELSE <<"float", total>>

Mean(values) ==
  IF values = << >> THEN Null
  ELSE <<"float", FoldLeft(LAMBDA sum, v : sum + Scaled(v), 0, values) \div Len(values)>>

\* Mutant: an aggregate counts a null as a value.
fold_aggregateKeepsNull(x, name, arguments, group) ==
  IF arguments = <<StarArgument>> THEN Yes(Integer(Len(group)))
  ELSE Bind(Each(group, LAMBDA row : evaluate(x, arguments[1], row)), LAMBDA values :
         Yes(IF name = "count" THEN Integer(Len(values)) ELSE <<"list", values>>))

Extremum(values, Extreme(_)) == IF values = << >> THEN Null ELSE Extreme(SortedBy(values, values, Compare))

\* What an aggregate makes of the values that are not null.
Folded(name, values) ==
  CASE name = "count" -> Yes(Integer(Len(values)))
    [] name = "collect" -> Yes(<<"list", values>>)
    [] name = "min" -> Yes(Extremum(values, Head))
    [] name = "max" -> Yes(Extremum(values, Last))
    [] ~ \A i \in DOMAIN values : IsNumber(values[i]) -> Refuse(Semantic)
    [] name = "sum" -> Yes(numeric_total(values))
    [] name = "avg" -> Yes(Mean(values))

fold_aggregate(x, name, arguments, group) ==
  IF arguments = <<StarArgument>>
  THEN IF name = "count" THEN Yes(Integer(Len(group))) ELSE Refuse(Semantic)
  ELSE IF Len(arguments) # 1 THEN Refuse(Semantic)
  ELSE Bind(Each(group, LAMBDA row : evaluate(x, arguments[1], row)), LAMBDA values :
         Folded(name, SelectSeq(values, LAMBDA v : v # Null)))

\* The values of a projection's items in a scope.
Values(x, expressions, scope) == Each(expressions, LAMBDA e : evaluate(x, e, scope))

Grouping(items) ==
  SelectSeq([i \in DOMAIN items |-> items[i].expression], LAMBDA e : ~ contains_aggregate(e))

\* The rows with a key.
GroupOf(rows, keys, k) ==
  Joined([i \in DOMAIN rows |-> IF CompareRow(keys[i], k) = 0 THEN <<rows[i]>> ELSE << >>])

\* What the aggregates of a projection stand for in one group.
FoldedScope(x, calls, group) ==
  Bind(Each(calls, LAMBDA c : fold_aggregate(x, c[2], c[3], group)), LAMBDA folded :
    Yes([c \in ToSet(calls) |-> folded[CHOOSE i \in DOMAIN calls : calls[i] = c]]
          @@ (IF group = << >> THEN EmptyRow ELSE group[1])))

\* The row one group becomes.
GroupRow(x, columns, lifted, group) ==
  Bind(FoldedScope(x, SetToSeq(UNION {Placeholders(lifted[i]) : i \in DOMAIN lifted}), group),
       LAMBDA scope :
    Bind(Values(x, lifted, scope), LAMBDA values : Yes(<<values, Row(columns, values)>>)))

\* The groups of some keys in the order of the keys; without a key there is one.
Groups(rows, keys, found) == [i \in DOMAIN found |-> GroupOf(rows, keys, found[i])]

OrAll(groups, grouping) == IF groups = << >> /\ grouping = << >> THEN << << >> >> ELSE groups

Sorted(values) == SortedBy(values, values, CompareRow)

\* One row of each group, in the order of the groups' keys.
aggregate_rows(x, items, rows) ==
  Bind(Each(rows, LAMBDA row : Values(x, Grouping(items), row)), LAMBDA keys :
    Each(OrAll(Groups(rows, keys, Sorted(Distinct(keys, CompareRow))), Grouping(items)),
         LAMBDA group :
           GroupRow(x, column_names(items),
                    [i \in DOMAIN items |-> lift_aggregates(items[i].expression)], group)))

-----------------------------------------------------------------------------
(* Procedures                                                               *)

Columns ==
  [links |-> <<"source", "alias", "remote">>,
   build_status |-> <<"database_generation", "nodes", "edges", "links">>,
   evidence |-> <<"source", "path", "digest">>,
   refresh_links |-> <<"source", "refreshed", "revision">>]

Procedure == ("nostdb.links" :> "links") @@ ("nostdb.build_status" :> "build_status") @@
             ("nostdb.evidence" :> "evidence") @@ ("nostdb.refresh_links" :> "refresh_links")

\* Of the thirteen columns of an evidence row, three stand for all.
EvidenceRows(found) ==
  [i \in 1 .. Min({Len(found), EvidenceRowLimit}) |->
     <<Text(found[i]), Text(found[i]), Text(found[i])>>]

evidence_rows(x, bound) ==
  IF ~ IsRecordOrNull(bound) THEN Refuse(Semantic)
  ELSE Yes(EvidenceRows(EvidenceOf(RecordOf(x, bound))))

run_procedure(x, procedure, arguments) ==
  LET root == x.graphs[1] IN
  IF procedure = "refresh_links" THEN Refuse(Unsupported)
  ELSE IF Len(arguments) # (IF procedure = "evidence" THEN 1 ELSE 0) THEN Refuse(Semantic)
  ELSE CASE procedure = "links" ->
              Yes([i \in DOMAIN root.links |->
                     LET link == root.links[i] IN
                     <<Text(link.source), IF link.alias = << >> THEN Null ELSE Text(link.alias[1]),
                       Boolean(link.remote)>>])
         [] procedure = "build_status" ->
              Yes(<< <<Integer(x.context.generation), Integer(Len(root.nodes)),
                       Integer(Len(root.edges)), Integer(Len(root.links))>> >>)
         [] procedure = "evidence" -> evidence_rows(x, arguments[1])

\* The names a call binds and the column each takes its value from.
Yielded(columns, yields) ==
  IF yields = << >> THEN Yes([i \in DOMAIN columns |-> <<i, <<columns[i]>>>>])
  ELSE Each(yields, LAMBDA item :
         IF item.column \notin ToSet(columns) THEN Refuse(Semantic)
         ELSE Yes(<<CHOOSE i \in DOMAIN columns : columns[i] = item.column,
                    IF item.alias = << >> THEN <<item.column>> ELSE item.alias>>))

KeptColumns(clause) ==
  IF clause[2] \notin DOMAIN Procedure THEN Refuse(Semantic)
  ELSE Yielded(Columns[Procedure[clause[2]]], clause[4])

\* The names of a call that is not refused.
CallNames(clause) ==
  [i \in DOMAIN KeptColumns(clause)[2] |-> KeptColumns(clause)[2][i][2]]

\* The rows the call makes of each row.
run_call(x, clause, rows) ==
  Bind(KeptColumns(clause), LAMBDA kept :
    Collect(rows, LAMBDA row :
      Bind(Values(x, clause[3], row), LAMBDA arguments :
        Bind(run_procedure(x, Procedure[clause[2]], arguments), LAMBDA produced :
          Yes([i \in DOMAIN produced |->
                 FoldLeft(LAMBDA r, k : Extended(r, k[2], produced[i][k[1]]), row, kept)])))))

=============================================================================
