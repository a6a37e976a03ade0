--------------------------------- MODULE Apply ---------------------------------
(***************************************************************************)
(* src/apply.rs, src/mutate.rs and src/contribution.rs: who claims the     *)
(* records of one graph, and what a change set, the write clauses of a     *)
(* query and an adopted .nost text do to the claims of the others.         *)
(*                                                                         *)
(* One job works on a copy of the graph, one action per operation, and the *)
(* copy replaces the graph when the job commits.  Jobs of several          *)
(* processes are the subject of Transaction and Project.  A record is told *)
(* apart by its claims and, if it is an edge, its endpoints.               *)
(***************************************************************************)
EXTENDS Integers, FiniteSets, TLC

CONSTANTS
  Producer,       \* the analyzers and AI contracts that propose change sets
  User,           \* Owner::user()
  Unit,           \* the source units
  Query,          \* SourceUnitId::QUERY
  NodeId, EdgeId, \* the identifiers records have
  MaxGeneration,  \* bound on the generations
  MaxOperations,  \* bound on the operations of one job
  Discipline,     \* which rules the authors of .nost texts keep, see Rule
  Absent          \* a record that is not there

\* "claims_stated": every record a person writes into project.nost has an @by block.
\* "ends_declared": no edge of a text that is adopted names a node it does not declare.
Rule == {"claims_stated", "ends_declared"}

Owner == Producer \union {User}

\* What an owner claims a record for: a source unit, or a user's query.
UnitOf(o) == IF o = User THEN {Query} ELSE Unit

Claim == {c \in [owner : Owner, unit : Unit \union {Query}] : c.unit \in UnitOf(c.owner)}

Node == [claims : SUBSET Claim]
Edge == [source : NodeId, target : NodeId, claims : SUBSET Claim]

Graph == [node : [NodeId -> Node \union {Absent}], edge : [EdgeId -> Edge \union {Absent}]]

ASSUME ApplyAssumption ==
  /\ User \notin Producer
  /\ Query \notin Unit
  /\ IsFiniteSet(NodeId) /\ IsFiniteSet(EdgeId)
  /\ MaxGeneration \in Nat \ {0}
  /\ MaxOperations \in Nat
  /\ Discipline \subseteq Rule
  /\ Absent \notin Node
  /\ Absent \notin Edge

\* The nodes of a graph may be exchanged for one another, and so may its edges.
Exchangeable == Permutations(NodeId) \union Permutations(EdgeId)

VARIABLES
  graph,     \* the committed graph
  gen,       \* its generation
  proposal,  \* the change set each producer has computed, or Absent
  job,       \* "idle", or the job at work: "apply", "query" or "adopt"
  owner,     \* GraphChangeSet::owner of the change set being applied
  working,   \* the copy the job modifies
  done,      \* how many operations the job has carried out
  drafted,   \* the identifiers the change set has stated, or the query has minted
  retired,   \* Retired
  summary,   \* the counters of ApplySummary or WriteSummary
  tidy       \* history: no withdrawal of this job came after an upsert

vars == <<graph, gen, proposal, job, owner, working, done, drafted, retired, summary, tidy>>

Nodes(g) == {n \in NodeId : g.node[n] # Absent}
Edges(g) == {e \in EdgeId : g.edge[e] # Absent}
Ends(g, e) == {g.edge[e].source, g.edge[e].target}
\* The edges an endpoint of which is not there.
Dangling(g) == {e \in Edges(g) : ~ Ends(g, e) \subseteq Nodes(g)}
Touching(g, ns) == {e \in Edges(g) : Ends(g, e) \intersect ns # {}}

Blank == [nodes |-> {}, edges |-> {}]
Zero == [nodesCreated |-> 0, nodesDeleted |-> 0, edgesCreated |-> 0, edgesDeleted |-> 0]

Init ==
  /\ graph = [node |-> [n \in NodeId |-> Absent], edge |-> [e \in EdgeId |-> Absent]]
  /\ gen = 1
  /\ proposal = [o \in Producer |-> Absent]
  /\ job = "idle"
  /\ owner = User
  /\ working = graph
  /\ done = 0
  /\ drafted = Blank
  /\ retired = Blank
  /\ summary = Zero
  /\ tidy = TRUE

-----------------------------------------------------------------------------
(* A job *)

\* Between jobs the copy is the graph, and everything a job counts is blank.
Begin(kind, o) ==
  /\ job = "idle"
  /\ job' = kind
  /\ owner' = o
  /\ UNCHANGED <<graph, gen, proposal, working, done, drafted, retired, summary, tidy>>

End ==
  /\ job' = "idle"
  /\ owner' = User
  /\ done' = 0
  /\ drafted' = Blank
  /\ retired' = Blank
  /\ summary' = Zero
  /\ tidy' = TRUE

\* An operation of a job: `to` is the copy it leaves.
Operate(kind, to) ==
  /\ job = kind
  /\ done < MaxOperations
  /\ done' = done + 1
  /\ working' = to
  /\ UNCHANGED <<graph, gen, proposal, job, owner>>

\* An error drops the copy; the caller's graph is as it was.
Refuse ==
  /\ job # "idle"
  /\ working' = graph
  /\ proposal' = IF job = "apply" THEN [proposal EXCEPT ![owner] = Absent] ELSE proposal
  /\ End
  /\ UNCHANGED <<graph, gen>>

\* Transaction::commit() leaves the generation alone when nothing was written.
Commits == job # "query" \/ summary # Zero \/ working # graph

\* history: whether a proposal was computed from the graph as it is.
Outdated(changed) ==
  [o \in Producer |-> IF proposal[o] = Absent \/ ~changed THEN proposal[o]
                   ELSE [proposal[o] EXCEPT !.current = FALSE]]

\* The ends of the edges of a text whose names it does not declare.
Undeclared(g) ==
  {end \in Edges(g) \X {"source", "target"} : g.edge[end[1]][end[2]] \notin Nodes(g)}

\* to_graph(): each of them becomes a Placeholder of its own, which nobody claims.
Resolved(g, minted) ==
  LET Named(e, at) == IF <<e, at>> \in Undeclared(g) THEN minted[<<e, at>>] ELSE g.edge[e][at]
  IN [node |-> [n \in NodeId |-> IF \E end \in Undeclared(g) : minted[end] = n
                                THEN [claims |-> {}] ELSE g.node[n]],
      edge |-> [e \in EdgeId |-> IF e \in Edges(g)
                                THEN [g.edge[e] EXCEPT !.source = Named(e, "source"),
                                                       !.target = Named(e, "target")]
                                ELSE Absent]]

\* Mutant: an edge keeps a name nothing declares.
AdoptedUnresolved(g) == {g}

Adopted(g) ==
  LET New == {minted \in [Undeclared(g) -> NodeId \ Nodes(g)] :
                \A a, b \in Undeclared(g) : minted[a] = minted[b] => a = b}
  IN {Resolved(g, minted) : minted \in
        IF "ends_declared" \in Discipline /\ Undeclared(g) # {} THEN {} ELSE New}

\* What the job makes of its copy when it commits.
Outcomes == IF job = "adopt" THEN Adopted(working) ELSE {working}

Finish ==
  /\ job # "idle"
  /\ done > 0
  /\ IF Commits
     THEN gen < MaxGeneration /\ gen' = gen + 1
     ELSE UNCHANGED gen
  /\ graph' \in Outcomes
  /\ working' = graph'
  /\ proposal' = LET rest == Outdated(graph' # graph)
                 IN IF job = "apply" THEN [rest EXCEPT ![owner] = Absent] ELSE rest
  /\ End

-----------------------------------------------------------------------------
(* apply() *)

\* A producer computes a change set from the graph it reads.
Propose(o) ==
  /\ proposal[o] = Absent
  /\ proposal' = [proposal EXCEPT ![o] = [base |-> gen, current |-> TRUE]]
  /\ UNCHANGED <<graph, gen, job, owner, working, done, drafted, retired, summary, tidy>>

\* Mutant: the generation a change set was computed against is not compared.
ApplyStale(o) ==
  /\ proposal[o] # Absent
  /\ Begin("apply", o)

Apply(o) ==
  /\ proposal[o] # Absent
  /\ proposal[o].base = gen
  /\ Begin("apply", o)

StaleBaseline(o) ==
  /\ proposal[o] # Absent
  /\ job = "idle"
  /\ proposal[o].base # gen
  /\ proposal' = [proposal EXCEPT ![o] = Absent]
  /\ UNCHANGED <<graph, gen, job, owner, working, done, drafted, retired, summary, tidy>>

Mine(u) == [owner |-> owner, unit |-> u]

\* The copy once the change set claims node n, creating it if it is not there.
Claiming(n, u) ==
  [working EXCEPT !.node[n] =
     [claims |-> {Mine(u)} \union IF n \in Nodes(working) THEN @.claims ELSE {}]]

\* Mutant: a node that comes back is counted as new.
UpsertNodeForgetsRetired(n, u) ==
  /\ n \notin drafted.nodes
  /\ Operate("apply", Claiming(n, u))
  /\ summary' = IF n \in Nodes(working) THEN summary
                ELSE [summary EXCEPT !.nodesCreated = @ + 1]
  /\ UNCHANGED retired
  /\ drafted' = [drafted EXCEPT !.nodes = @ \union {n}]
  /\ UNCHANGED tidy

\* A node that comes back in the set that withdrew it counts as updated.
UpsertNode(n, u) ==
  /\ n \notin drafted.nodes
  /\ Operate("apply", Claiming(n, u))
  /\ summary' = IF n \in Nodes(working) THEN summary
                ELSE IF n \in retired.nodes THEN [summary EXCEPT !.nodesDeleted = @ - 1]
                ELSE [summary EXCEPT !.nodesCreated = @ + 1]
  /\ retired' = [retired EXCEPT !.nodes = @ \ {n}]
  /\ drafted' = [drafted EXCEPT !.nodes = @ \union {n}]
  /\ UNCHANGED tidy

\* An edge that is there keeps its endpoints, whatever the draft says.
ClaimingEdge(e, s, t, u) ==
  IF e \in Edges(working)
  THEN [working EXCEPT !.edge[e].claims = @ \union {Mine(u)}]
  ELSE [working EXCEPT !.edge[e] = [source |-> s, target |-> t, claims |-> {Mine(u)}]]

UpsertEdge(e, s, t, u) ==
  /\ e \notin drafted.edges
  /\ {s, t} \subseteq Nodes(working)
  /\ Operate("apply", ClaimingEdge(e, s, t, u))
  /\ summary' = IF e \in Edges(working) THEN summary
                ELSE IF e \in retired.edges THEN [summary EXCEPT !.edgesDeleted = @ - 1]
                ELSE [summary EXCEPT !.edgesCreated = @ + 1]
  /\ retired' = [retired EXCEPT !.edges = @ \ {e}]
  /\ drafted' = [drafted EXCEPT !.edges = @ \union {e}]
  /\ UNCHANGED tidy

\* Mutant: the claims of every owner for the unit are dropped.
matchesUnit(c, u) == c.unit = u

\* The claims a withdrawal of this change set for unit u drops.
matches(c, u) == c = Mine(u)

Left(claims, u) == {c \in claims : ~matches(c, u)}

\* Mutant: a node nothing claims any more stays.
OrphanedNodesStay(u) == {}

\* The nodes and edges a withdrawal deletes: what nothing claims any more, and
\* the edges of a node that goes.
OrphanedNodes(u) == {n \in Nodes(working) : Left(working.node[n].claims, u) = {}}

\* Mutant: the edges of a deleted node stay.
OrphanedEdgesUnclaimed(u) == {e \in Edges(working) : Left(working.edge[e].claims, u) = {}}

OrphanedEdges(u) ==
  {e \in Edges(working) : Left(working.edge[e].claims, u) = {}}
    \union Touching(working, OrphanedNodes(u))

Withdrawn(u) ==
  [node |-> [n \in NodeId |-> IF n \in Nodes(working) \ OrphanedNodes(u)
                              THEN [claims |-> Left(working.node[n].claims, u)] ELSE Absent],
   edge |-> [e \in EdgeId |-> IF e \in Edges(working) \ OrphanedEdges(u)
                              THEN [working.edge[e] EXCEPT !.claims = Left(@, u)] ELSE Absent]]

\* Mutant: the nodes a withdrawal deletes are not counted.
RemoveContributionUncounted(u) ==
  /\ Operate("apply", Withdrawn(u))
  /\ retired' = [nodes |-> retired.nodes \union OrphanedNodes(u),
                 edges |-> retired.edges \union OrphanedEdges(u)]
  /\ tidy' = (tidy /\ drafted = Blank)
  /\ UNCHANGED <<drafted, summary>>

RemoveContribution(u) ==
  /\ Operate("apply", Withdrawn(u))
  /\ retired' = [nodes |-> retired.nodes \union OrphanedNodes(u),
                 edges |-> retired.edges \union OrphanedEdges(u)]
  /\ summary' = [summary EXCEPT !.nodesDeleted = @ + Cardinality(OrphanedNodes(u)),
                                !.edgesDeleted = @ + Cardinality(OrphanedEdges(u))]
  /\ tidy' = (tidy /\ drafted = Blank)
  /\ UNCHANGED drafted

-----------------------------------------------------------------------------
(* The write clauses of a query *)

user_contribution == [owner |-> User, unit |-> Query]

\* Mutant: the user's claim replaces the claims of the others.
note_user_ownership_alone(claims) == {user_contribution}

note_user_ownership(claims) ==
  IF \E c \in claims : c.owner = User THEN claims ELSE claims \union {user_contribution}

Write == Begin("query", User)

\* A minted identifier is one no record ever had.
CreateNode(n) ==
  /\ n \notin Nodes(working) \union Nodes(graph) \union drafted.nodes
  /\ Operate("query", [working EXCEPT !.node[n] = [claims |-> {user_contribution}]])
  /\ summary' = [summary EXCEPT !.nodesCreated = @ + 1]
  /\ drafted' = [drafted EXCEPT !.nodes = @ \union {n}]
  /\ UNCHANGED <<retired, tidy>>

\* The ends are what the variables of the statement name: a node that is there, or
\* one that was there and that the job has deleted, as create_node() does not look.
CreateEdge(e, s, t) ==
  /\ e \notin Edges(working) \union Edges(graph)
  /\ {s, t} \subseteq Nodes(working) \union Nodes(graph) \union drafted.nodes
  /\ Operate("query", [working EXCEPT !.edge[e] =
                         [source |-> s, target |-> t, claims |-> {user_contribution}]])
  /\ summary' = [summary EXCEPT !.edgesCreated = @ + 1]
  /\ UNCHANGED <<drafted, retired, tidy>>

\* SET and REMOVE, when they change something.
SetNode(n) ==
  /\ n \in Nodes(working)
  /\ Operate("query", [working EXCEPT !.node[n].claims = note_user_ownership(@)])
  /\ UNCHANGED <<drafted, retired, summary, tidy>>

SetEdge(e) ==
  /\ e \in Edges(working)
  /\ Operate("query", [working EXCEPT !.edge[e].claims = note_user_ownership(@)])
  /\ UNCHANGED <<drafted, retired, summary, tidy>>

\* DELETE is refused while the node has a relationship.
Delete(n) ==
  /\ n \in Nodes(working)
  /\ Touching(working, {n}) = {}
  /\ Operate("query", [working EXCEPT !.node[n] = Absent])
  /\ summary' = [summary EXCEPT !.nodesDeleted = @ + 1]
  /\ UNCHANGED <<drafted, retired, tidy>>

DetachDelete(n) ==
  LET incident == Touching(working, {n})
  IN /\ n \in Nodes(working)
     /\ Operate("query",
          [node |-> [working.node EXCEPT ![n] = Absent],
           edge |-> [e \in EdgeId |-> IF e \in incident THEN Absent ELSE working.edge[e]]])
     /\ summary' = [summary EXCEPT !.nodesDeleted = @ + 1,
                                   !.edgesDeleted = @ + Cardinality(incident)]
     /\ UNCHANGED <<drafted, retired, tidy>>

DeleteEdge(e) ==
  /\ e \in Edges(working)
  /\ Operate("query", [working EXCEPT !.edge[e] = Absent])
  /\ summary' = [summary EXCEPT !.edgesDeleted = @ + 1]
  /\ UNCHANGED <<drafted, retired, tidy>>

-----------------------------------------------------------------------------
(* adopt(): a person changes records of project.nost.  A name nothing       *)
(* declares is a warning of validate(), and becomes a Placeholder.          *)

Adopt == Begin("adopt", User)

\* The claims a person may have written for a record: the @by blocks.
Stated == {{}, {user_contribution}} \ (IF "claims_stated" \in Discipline THEN {{}} ELSE {})

WriteNode(n) ==
  /\ n \notin Nodes(working)
  /\ \E claims \in Stated : Operate("adopt", [working EXCEPT !.node[n] = [claims |-> claims]])
  /\ UNCHANGED <<drafted, retired, summary, tidy>>

WriteEdge(e, s, t) ==
  /\ e \notin Edges(working)
  /\ \E claims \in Stated :
       Operate("adopt", [working EXCEPT !.edge[e] = [source |-> s, target |-> t, claims |-> claims]])
  /\ UNCHANGED <<drafted, retired, summary, tidy>>

Erase ==
  /\ \/ \E n \in Nodes(working) : Operate("adopt", [working EXCEPT !.node[n] = Absent])
     \/ \E e \in Edges(working) : Operate("adopt", [working EXCEPT !.edge[e] = Absent])
  /\ UNCHANGED <<drafted, retired, summary, tidy>>

-----------------------------------------------------------------------------

Operation ==
  \/ \E n \in NodeId : \/ \E u \in UnitOf(owner) : UpsertNode(n, u)
                       \/ CreateNode(n) \/ SetNode(n) \/ Delete(n) \/ DetachDelete(n)
                       \/ WriteNode(n)
  \/ \E e \in EdgeId : \/ SetEdge(e) \/ DeleteEdge(e)
                       \/ \E s, t \in NodeId : \/ CreateEdge(e, s, t) \/ WriteEdge(e, s, t)
                                               \/ \E u \in UnitOf(owner) : UpsertEdge(e, s, t, u)
  \/ \E u \in UnitOf(owner) : RemoveContribution(u)
  \/ Erase

Next ==
  \/ \E o \in Producer : Propose(o) \/ Apply(o) \/ StaleBaseline(o)
  \/ Write \/ Adopt
  \/ Operation
  \/ Refuse \/ Finish

Spec == Init /\ [][Next]_vars

-----------------------------------------------------------------------------
(* Properties *)

Proposal == [base : 1 .. MaxGeneration, current : BOOLEAN]
Ids == [nodes : SUBSET NodeId, edges : SUBSET EdgeId]

\* Every variable keeps its kind; the counters of a summary never go below zero,
\* which the u64 subtraction of upsert_node() and upsert_edge() relies on.
TypeOK ==
  /\ graph \in Graph /\ working \in Graph
  /\ gen \in 1 .. MaxGeneration
  /\ proposal \in [Producer -> Proposal \union {Absent}]
  /\ job \in {"idle", "apply", "query", "adopt"}
  /\ owner \in Owner
  /\ done \in 0 .. MaxOperations
  /\ drafted \in Ids /\ retired \in Ids
  /\ summary \in [nodesCreated : Nat, nodesDeleted : Nat, edgesCreated : Nat, edgesDeleted : Nat]
  /\ tidy \in BOOLEAN

\* "An Edge always has two non-null endpoints" (apply.rs): a change set leaves no
\* edge without an endpoint that was not so before, and an adopted text none at all.
\* A query does so only to an edge it creates: to a node it has deleted.
EndpointsStay ==
  [][Finish => Dangling(graph') \subseteq
       CASE job = "apply" -> Dangling(graph)
         [] job = "query" -> Dangling(graph) \union (Edges(graph') \ Edges(graph))
         [] job = "adopt" -> {}]_vars

\* A record nobody claims is one the next withdrawal of anybody deletes: while every
\* written record states who claims it, and no text leaves a Placeholder, no
\* committed record is unclaimed.
Claimed(g) == /\ \A n \in Nodes(g) : g.node[n].claims # {}
              /\ \A e \in Edges(g) : g.edge[e].claims # {}

RecordsAreClaimed == Rule \subseteq Discipline => Claimed(graph)

\* What a change set of owner o may do to the others: their claims on a node stay,
\* and so do their claims on an edge unless nobody but o claimed an endpoint of it.
OthersOf(claims, o) == {c \in claims : c.owner # o}

ClaimedByOthers(g, o) == {n \in Nodes(g) : OthersOf(g.node[n].claims, o) # {}}

OthersKept(g, h, o) ==
  /\ \A n \in Nodes(g) :
       LET others == OthersOf(g.node[n].claims, o)
       IN others # {} => n \in Nodes(h) /\ OthersOf(h.node[n].claims, o) = others
  /\ \A e \in Edges(g) :
       LET others == OthersOf(g.edge[e].claims, o)
       IN others # {} /\ Ends(g, e) \subseteq ClaimedByOthers(g, o)
            => e \in Edges(h) /\ OthersOf(h.edge[e].claims, o) = others

\* "An analyzer refresh replaces only its own contributions for its own source
\* units" (apply.rs), for whole change sets in any order of operations.
RefreshKeepsOthers == [][Finish /\ job = "apply" => OthersKept(graph, graph', owner)]_vars

\* "leaves every other contribution in place" (mutate.rs): what a query does not
\* delete, it leaves with all the claims of the others.
QueryKeepsClaims ==
  [][Finish /\ job = "query" =>
       /\ \A n \in Nodes(graph) \intersect Nodes(graph') : graph.node[n].claims \subseteq graph'.node[n].claims
       /\ \A e \in Edges(graph) \intersect Edges(graph') :
            graph.edge[e].claims \subseteq graph'.edge[e].claims]_vars

\* The summary accounts for the difference between the graph and the copy, and when
\* a change set withdraws before it restates, as build() does, it is the net effect:
\* what comes back is neither a deletion nor a creation.
Fresh(before, after) == Cardinality(after \ before)

SummaryIsNet ==
  LET n == Nodes(graph)  e == Edges(graph)
  IN job \in {"apply", "query"} =>
       /\ summary.nodesCreated - summary.nodesDeleted = Cardinality(Nodes(working)) - Cardinality(n)
       /\ summary.edgesCreated - summary.edgesDeleted = Cardinality(Edges(working)) - Cardinality(e)
       /\ job = "apply" /\ tidy =>
            /\ summary.nodesCreated = Fresh(n, Nodes(working))
            /\ summary.nodesDeleted = Fresh(Nodes(working), n)
            /\ summary.edgesCreated = Fresh(e, Edges(working))
            /\ summary.edgesDeleted = Fresh(Edges(working), e)

\* A change set is applied to the graph its references were resolved against.
AppliedOnWhatItSaw == job = "apply" => proposal[owner].current

\* "every edge pointing at a record survives a rebuild that did not change its
\* name" (build.rs): an edge others claim is there after a change set that left
\* both its endpoints in the graph.
EdgesOfRestatedNodesSurvive ==
  [][Finish /\ job = "apply" =>
       \A e \in Edges(graph) :
         /\ OthersOf(graph.edge[e].claims, owner) # {}
         /\ Ends(graph, e) \subseteq Nodes(graph) \intersect Nodes(graph')
         => e \in Edges(graph')]_vars
=============================================================================
