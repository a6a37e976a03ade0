------------------------------- MODULE Mutate -------------------------------
(***************************************************************************)
(* src/mutate.rs: what a writing clause does to the root graph.  A write   *)
(* goes on from the writer record the one before it left; a refusal keeps  *)
(* what was written before it.  What an expression is worth and what a     *)
(* pattern matches are parameters: src/execute.rs, in Executor, says it.   *)
(***************************************************************************)
EXTENDS Outcome

CONSTANTS
  Evaluate(_, _, _),     \* Executor::evaluate: the value of an expression in a row
  MatchPattern(_, _, _)  \* Executor::match_pattern: the rows a pattern makes of a row

Counter == {"nodes_created", "nodes_deleted", "edges_created", "edges_deleted", "properties_set",
            "properties_removed", "labels_added", "labels_removed"}

NoWrites == [c \in Counter |-> 0]

\* What a clause has written so far: the graph, the summary, the last minted
\* identifier, the row it is at, the rows a MERGE found in its place, the rows the
\* clause is done with, the identifier of the last node, and the refusal that ended
\* it, if one did.
Writer(graph, summary, minted) ==
  [graph |-> graph, summary |-> summary, minted |-> minted, row |-> EmptyRow, found |-> << >>,
   rows |-> << >>, id |-> 0, refused |-> << >>]

Refusing(w, code) == [w EXCEPT !.refused = <<code>>]

\* The rest of a write that a refusal ends.
Unless(w, Rest(_)) == IF w.refused # << >> THEN w ELSE Rest(w)

Counted(w, counter, n) == [w EXCEPT !.summary[counter] = @ + n]

UserContribution == [owner |-> "user", evidence |-> << >>]

\* Mutant: the contributions of the others make room for the user's.
note_user_ownershipAlone(contributions) == <<UserContribution>>

note_user_ownership(contributions) ==
  IF \E i \in DOMAIN contributions : contributions[i].owner = "user" THEN contributions
  ELSE Append(contributions, UserContribution)

\* The next minted identifier that no record of the sequence has.
Fresh(w, records) ==
  LET used == {records[i].id : i \in DOMAIN records} IN
  Min({n \in w.minted + 1 .. w.minted + 1 + Cardinality(used) : n \notin used})

\* The properties of an evaluated map, which may not hold null.
stored_properties(map) ==
  Bind(Each(map, LAMBDA entry :
         Bind(stored_value(entry[2]), LAMBDA stored :
           IF stored = << >> THEN Refuse(Semantic) ELSE Yes(<<entry[1], stored[1]>>))),
       LAMBDA entries :
         Yes([key \in {entries[i][1] : i \in DOMAIN entries} |->
                entries[CHOOSE i \in DOMAIN entries : entries[i][1] = key][2]]))

writable(h) == IF h[1] = 0 THEN Yes(h[2]) ELSE Refuse("LINKED_DATABASE_READ_ONLY")

Proceed(w, r, Rest(_)) == IF IsRefused(r) THEN Refusing(w, r[2]) ELSE Rest(r[2])

\* The node a variable already names.
BoundNode(w, pattern, map) ==
  LET existing == w.row[pattern.variable] IN
  IF pattern.labels # << >> \/ map # << >> THEN Refuse(Semantic)
  ELSE IF existing[1] # "node" THEN Refuse(Semantic)
  ELSE writable(existing[2])

NewNode(w, pattern, map) ==
  LET id == Fresh(w, w.graph.nodes) IN
  IF pattern.labels = << >> THEN Refusing(w, Semantic)
  ELSE Proceed(w, stored_properties(map), LAMBDA properties :
         Counted(
           [w EXCEPT !.minted = id, !.id = id,
              !.row = IF pattern.variable = << >> THEN @
                      ELSE Extended(@, pattern.variable, <<"node", <<0, id>>>>),
              !.graph.nodes = Append(@, [id |-> id,
                                         labels |-> Distinct(pattern.labels, LAMBDA l, m : IF l = m THEN 0 ELSE 1),
                                         properties |-> properties,
                                         contributions |-> <<UserContribution>>])],
           "nodes_created", 1))

\* Leaves the identifier of the node it found or made in `id`.
create_node(w, pattern, map) ==
  IF pattern.variable # << >> /\ pattern.variable \in DOMAIN w.row
  THEN Proceed(w, BoundNode(w, pattern, map), LAMBDA id : [w EXCEPT !.id = id])
  ELSE NewNode(w, pattern, map)

create_edge(w, pattern, from, to, map) ==
  LET id == Fresh(w, w.graph.edges) IN
  IF Len(pattern.types) # 1 THEN Refusing(w, Semantic)
  ELSE Proceed(w, stored_properties(map), LAMBDA properties :
    Counted(
      [w EXCEPT !.minted = id,
         !.row = IF pattern.variable = << >> THEN @
                 ELSE Extended(@, pattern.variable, <<"relationship", <<0, id>>>>),
         !.graph.edges = Append(@, [id |-> id, source |-> <<"local", from>>,
                                    target |-> <<"local", to>>, relation |-> pattern.types[1],
                                    properties |-> properties,
                                    contributions |-> <<UserContribution>>])],
      "edges_created", 1))

map_values(x, map, row) ==
  Each(map, LAMBDA entry : Bind(Evaluate(x, entry[2], row), LAMBDA v : Yes(<<entry[1], v>>)))

\* The evaluated maps of a pattern: its start's, then each step's two.
pattern_values(x, pattern, row) ==
  Bind(map_values(x, pattern.start.properties, row), LAMBDA start :
    Bind(Each(pattern.steps, LAMBDA step :
           Bind(map_values(x, step.relationship.properties, row), LAMBDA r :
             Bind(map_values(x, step.node.properties, row), LAMBDA n : Yes(<<r, n>>)))),
         LAMBDA steps : Yes([start |-> start, steps |-> steps])))

\* The edge of a step to the node it leads to, which is left in `id`.
create_step(w, step, values) ==
  Unless(create_node(w, step.node, values[2]), LAMBDA after :
    CASE step.relationship.direction = "outgoing" ->
           create_edge(after, step.relationship, w.id, after.id, values[1])
      [] step.relationship.direction = "incoming" ->
           create_edge(after, step.relationship, after.id, w.id, values[1])
      [] OTHER -> Refusing(after, Semantic))

\* Every record of the pattern that the row has not bound, step by step.
create(w, pattern, values) ==
  LET made[i \in 0 .. Len(pattern.steps)] ==
        IF i = 0 THEN create_node(w, pattern.start, values.start)
        ELSE Unless(made[i - 1], LAMBDA before : create_step(before, pattern.steps[i], values.steps[i]))
  IN  made[Len(pattern.steps)]

\* The places of the record a handle names, in `nodes` or in `edges`.
Place(records, id) == {i \in DOMAIN records : records[i].id = id}

Field(bound) == IF bound[1] = "node" THEN "nodes" ELSE "edges"

\* Changes the record `bound` names; Change is given the record and says what it
\* becomes and which counter that moves, << >> when nothing changed.
Modified(w, bound, Change(_)) ==
  IF bound[1] \notin {"node", "relationship"} THEN Refusing(w, Semantic)
  ELSE
    Proceed(w, writable(bound[2]), LAMBDA id :
      LET records == w.graph[Field(bound)]
          places == Place(records, id)
          change == Change(records[Min(places)])
      IN  IF places = {} THEN Refusing(w, Semantic)
          ELSE Proceed(w, change, LAMBDA c :
                 IF c.counter = << >> THEN w
                 ELSE Counted(
                        [w EXCEPT !.graph[Field(bound)][Min(places)] =
                           [c.record EXCEPT !.contributions = note_user_ownership(@)]],
                        c.counter[1], 1)))

Unaltered(record) == Yes([record |-> record, counter |-> << >>])

WithoutProperty(record, key) ==
  IF key \notin DOMAIN record.properties THEN Unaltered(record)
  ELSE Yes([record |-> [record EXCEPT !.properties = [k \in DOMAIN @ \ {key} |-> @[k]]],
            counter |-> <<"properties_removed">>])

WithProperty(record, key, value) ==
  Yes([record |-> [record EXCEPT !.properties =
                     [k \in {key} \union DOMAIN @ |-> IF k = key THEN value ELSE @[k]]],
       counter |-> <<"properties_set">>])

\* A label is added to a node that lacks it, and an edge has none.
WithLabel(record, label) ==
  IF "labels" \notin DOMAIN record THEN Refuse(Semantic)
  ELSE IF label \in ToSet(record.labels) THEN Unaltered(record)
  ELSE Yes([record |-> [record EXCEPT !.labels = Append(@, label)], counter |-> <<"labels_added">>])

WithoutLabel(record, label) ==
  IF "labels" \notin DOMAIN record THEN Refuse(Semantic)
  ELSE IF record.labels = <<label>> THEN Refuse(Semantic)
  ELSE IF label \notin ToSet(record.labels) THEN Unaltered(record)
  ELSE Yes([record |-> [record EXCEPT !.labels = SelectSeq(@, LAMBDA l : l # label)],
            counter |-> <<"labels_removed">>])

\* One SET item; null in the place of a record leaves everything as it is.
set(w, item, bound, value) ==
  IF bound = Null THEN w
  ELSE IF item[1] = "label" THEN Modified(w, bound, LAMBDA r : WithLabel(r, item[3]))
  ELSE Proceed(w, stored_value(value), LAMBDA stored :
         Modified(w, bound, LAMBDA r :
           IF stored = << >> THEN WithoutProperty(r, item[3])
           ELSE WithProperty(r, item[3], stored[1])))

remove(w, item, bound) ==
  IF bound = Null THEN w
  ELSE Modified(w, bound, LAMBDA r :
         IF item[1] = "label" THEN WithoutLabel(r, item[3]) ELSE WithoutProperty(r, item[3]))

\* The records that are none of some identifiers, in order.
Retained(records, dropped) ==
  LET left[i \in 0 .. Len(records)] ==
        IF i = 0 THEN << >>
        ELSE IF records[i].id \in dropped THEN left[i - 1] ELSE Append(left[i - 1], records[i])
  IN  left[Len(records)]

\* Mutant: the identifiers asked for are counted, and not the edges there were.
delete_edgesCountsIds(w, ids) ==
  Counted([w EXCEPT !.graph.edges = Retained(@, ids)], "edges_deleted", Cardinality(ids))

\* Drops the edges of a set of identifiers, counting those there were.
delete_edges(w, ids) ==
  LET left == Retained(w.graph.edges, ids) IN
  Counted([w EXCEPT !.graph.edges = left], "edges_deleted", Len(w.graph.edges) - Len(left))

\* Mutant: only the edges that leave a node are looked for.
IncidentLeaving(graph, id) ==
  {graph.edges[i].id : i \in {j \in DOMAIN graph.edges : graph.edges[j].source = <<"local", id>>}}

Incident(graph, id) ==
  {graph.edges[i].id : i \in {j \in DOMAIN graph.edges :
     <<"local", id>> \in {graph.edges[j].source, graph.edges[j].target}}}

delete_node(w, id, detach) ==
  LET left == Retained(w.graph.nodes, {id}) IN
  IF Incident(w.graph, id) # {} /\ ~ detach THEN Refusing(w, Semantic)
  ELSE Counted([delete_edges(w, Incident(w.graph, id)) EXCEPT !.graph.nodes = left],
               "nodes_deleted", Len(w.graph.nodes) - Len(left))

delete(w, bound, detach) ==
  CASE bound[1] = "node" -> Proceed(w, writable(bound[2]), LAMBDA id : delete_node(w, id, detach))
    [] bound[1] = "relationship" -> Proceed(w, writable(bound[2]), LAMBDA id : delete_edges(w, {id}))
    [] bound = Null -> w
    [] OTHER -> Refusing(w, Semantic)

-----------------------------------------------------------------------------
(* Clauses                                                                  *)

\* Mutant: the graph as the clause found it.
MatchedOnStart(x, w) == x

\* The executor a row of MERGE is matched on: the graph is the one the rows before
\* it left.
MatchedOn(x, w) == [x EXCEPT !.graphs[1] = w.graph]

\* A row of MERGE creates the pattern when nothing matches.
merge(w, x, pattern) ==
  Proceed(w, MatchPattern(MatchedOn(x, w), pattern, w.row), LAMBDA found :
    IF found # << >> THEN [w EXCEPT !.found = found]
    ELSE Proceed(w, pattern_values(MatchedOn(x, w), pattern, w.row), LAMBDA values :
           create(w, pattern, values)))

\* What the row binds the variable of an item to.
OnBound(w, item, Do(_)) == Proceed(w, Bound(w.row, <<item[2]>>), Do)

\* One write of a row.
Performed(w, x, write) ==
  CASE write[1] = "create" -> create(w, write[2], write[3])
    [] write[1] = "merge" -> merge(w, x, write[2])
    [] write[1] = "set" -> OnBound(w, write[2], LAMBDA bound : set(w, write[2], bound, write[3]))
    [] write[1] = "remove" -> OnBound(w, write[2], LAMBDA bound : remove(w, write[2], bound))
    [] write[1] = "delete" -> delete(w, write[2], write[3])

\* The writes of a row, one after another, and the row it leaves.
RowWritten(w, x, row, writes) ==
  LET done[j \in 0 .. Len(writes)] ==
        IF j = 0 THEN [w EXCEPT !.row = row, !.found = << >>]
        ELSE Unless(done[j - 1], LAMBDA before : Performed(before, x, writes[j]))
  IN  Unless(done[Len(writes)], LAMBDA after :
        [after EXCEPT !.rows = @ \o IF after.found = << >> THEN <<after.row>> ELSE after.found])

\* The rows of a clause, each from what the last one left.
ClauseWritten(w, x, rows, writes) ==
  LET done[i \in 0 .. Len(rows)] ==
        IF i = 0 THEN w
        ELSE Unless(done[i - 1], LAMBDA before : RowWritten(before, x, rows[i], writes[i]))
  IN  done[Len(rows)]

\* The writes of each row, from its place.
Rowwise(rows, Of(_)) == [i \in 1 .. Len(rows) |-> Of(i)]

\* Every map is evaluated on the graph as the clause found it.
CreateClause(w, x, patterns, rows) ==
  Proceed(w,
    Each(rows, LAMBDA row : Each(patterns, LAMBDA pattern : pattern_values(x, pattern, row))),
    LAMBDA values :
      ClauseWritten(w, x, rows, Rowwise(rows, LAMBDA i :
        [j \in DOMAIN patterns |-> <<"create", patterns[j], values[i][j]>>])))

MergeClause(w, x, pattern, rows) ==
  ClauseWritten(w, x, rows, Rowwise(rows, LAMBDA i : <<<<"merge", pattern>>>>))

\* The value of a SET item; a label has none.
set_value(x, item, row) == IF item[1] = "label" THEN Yes(Null) ELSE Evaluate(x, item[4], row)

\* Mutant: each item is evaluated on the graph that the one before it left.
SetClauseReadsOn(w, x, items, rows) ==
  LET one(v, row, item) ==
        Proceed(v, set_value(MatchedOn(x, v), item, row), LAMBDA value :
          Proceed(v, Bound(row, <<item[2]>>), LAMBDA bound : set(v, item, bound, value)))
      all(before, row) ==
        FoldLeft(LAMBDA v, item : Unless(v, LAMBDA u : one(u, row, item)), before, items)
  IN  FoldLeft(all, [w EXCEPT !.rows = rows], rows)

\* Every value is taken from the graph as the clause found it.
SetClause(w, x, items, rows) ==
  Proceed(w, Each(rows, LAMBDA row : Each(items, LAMBDA item : set_value(x, item, row))),
    LAMBDA values :
      ClauseWritten(w, x, rows, Rowwise(rows, LAMBDA i :
        [j \in DOMAIN items |-> <<"set", items[j], values[i][j]>>])))

RemoveClause(w, x, items, rows) ==
  ClauseWritten(w, x, rows, Rowwise(rows, LAMBDA i : [j \in DOMAIN items |-> <<"remove", items[j]>>]))

DeleteClause(w, x, detach, targets, rows) ==
  Proceed(w, Each(rows, LAMBDA row : Each(targets, LAMBDA target : Evaluate(x, target, row))),
    LAMBDA values :
      ClauseWritten(w, x, rows, Rowwise(rows, LAMBDA i :
        [j \in DOMAIN targets |-> <<"delete", values[i][j], detach>>])))

=============================================================================
