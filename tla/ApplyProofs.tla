------------------------------ MODULE ApplyProofs ------------------------------
(***************************************************************************)
(* Ownership and endpoints, for every set of producers, units and records. *)
(*                                                                         *)
(* A job changes its copy in six ways only: it puts a node or an edge,     *)
(* drops one, drops a node with its edges, or withdraws a claim.  The      *)
(* lemmas say once what each of them keeps; the steps cite them.           *)
(***************************************************************************)
EXTENDS Apply, FiniteSetTheorems, TLAPS

\* A record put in place of another, and one dropped.
PutNode(g, n, r) == [g EXCEPT !.node[n] = r]
PutEdge(g, e, r) == [g EXCEPT !.edge[e] = r]

\* A node put takes no edge's endpoint away.
LEMMA PutNodeKeeps ==
  ASSUME NEW g \in Graph, NEW n \in NodeId, NEW r \in Node
  PROVE  LET h == PutNode(g, n, r)
         IN /\ h \in Graph
            /\ Nodes(h) = Nodes(g) \union {n}
            /\ Edges(h) = Edges(g)
            /\ Dangling(h) \subseteq Dangling(g)
            /\ Claimed(g) /\ r.claims # {} => Claimed(h)
<1> DEFINE h == PutNode(g, n, r)
<1>1. /\ h \in Graph
      /\ h.node[n] = r
      /\ \A m \in NodeId \ {n} : h.node[m] = g.node[m]
      /\ h.edge = g.edge
  BY DEF PutNode, Graph
<1>2. r # Absent
  BY ApplyAssumption
<1> HIDE DEF h
<1>3. Nodes(h) = Nodes(g) \union {n}
  BY <1>1, <1>2 DEF Nodes
<1>4. Edges(h) = Edges(g) /\ \A e \in Edges(g) : Ends(h, e) = Ends(g, e)
  BY <1>1 DEF Edges, Ends
<1>5. Dangling(h) \subseteq Dangling(g)
  BY <1>3, <1>4 DEF Dangling
<1>6. Claimed(g) /\ r.claims # {} => Claimed(h)
  <2>1. Claimed(g) /\ r.claims # {} => \A m \in Nodes(h) : h.node[m].claims # {}
    BY <1>1, <1>3 DEF Claimed, Nodes
  <2>2. Claimed(g) => \A e \in Edges(h) : h.edge[e].claims # {}
    BY <1>1, <1>4 DEF Claimed
  <2>3. QED BY <2>1, <2>2 DEF Claimed
<1>7. QED BY <1>1, <1>3, <1>4, <1>5, <1>6 DEF h

\* An edge put dangles only if it names a node that is not there; restating one that
\* is there, with its ends, changes nothing.
LEMMA PutEdgeKeeps ==
  ASSUME NEW g \in Graph, NEW e \in EdgeId, NEW r \in Edge
  PROVE  LET h == PutEdge(g, e, r)
         IN /\ h \in Graph
            /\ Nodes(h) = Nodes(g)
            /\ Edges(h) = Edges(g) \union {e}
            /\ Dangling(h) \subseteq Dangling(g) \union {e}
            /\ \/ {r.source, r.target} \subseteq Nodes(g)
               \/ e \in Edges(g) /\ Ends(g, e) = {r.source, r.target}
               => Dangling(h) \subseteq Dangling(g)
            /\ Claimed(g) /\ r.claims # {} => Claimed(h)
<1> DEFINE h == PutEdge(g, e, r)
<1>1. /\ h \in Graph
      /\ h.edge[e] = r
      /\ \A f \in EdgeId \ {e} : h.edge[f] = g.edge[f]
      /\ h.node = g.node
  BY DEF PutEdge, Graph
<1>2. r # Absent
  BY ApplyAssumption
<1> HIDE DEF h
<1>3. Nodes(h) = Nodes(g)
  BY <1>1 DEF Nodes
<1>4. Edges(h) = Edges(g) \union {e}
  BY <1>1, <1>2 DEF Edges
<1>5. Dangling(h) \subseteq Dangling(g) \union {e}
  BY <1>1, <1>3, <1>4 DEF Dangling, Ends, Edges
<1>6. Ends(h, e) = {r.source, r.target}
  BY <1>1 DEF Ends
<1>7. ASSUME \/ {r.source, r.target} \subseteq Nodes(g)
             \/ e \in Edges(g) /\ Ends(g, e) = {r.source, r.target}
      PROVE  Dangling(h) \subseteq Dangling(g)
  <2>1. e \in Dangling(h) => e \in Dangling(g)
    BY <1>3, <1>6, <1>7 DEF Dangling
  <2>2. QED BY <1>5, <2>1
<1>8. Claimed(g) /\ r.claims # {} => Claimed(h)
  BY <1>1, <1>3, <1>4 DEF Claimed, Edges
<1>9. QED BY <1>1, <1>3, <1>4, <1>5, <1>7, <1>8 DEF h

\* A node may go, and no edge misses it if none touches it.
LEMMA DropNodeKeeps ==
  ASSUME NEW g \in Graph, NEW n \in NodeId
  PROVE  LET h == PutNode(g, n, Absent)
         IN /\ h \in Graph
            /\ Touching(g, {n}) = {} => Dangling(h) \subseteq Dangling(g)
            /\ Claimed(g) => Claimed(h)
<1> DEFINE h == PutNode(g, n, Absent)
<1>1. /\ h \in Graph
      /\ h.node[n] = Absent
      /\ \A m \in NodeId \ {n} : h.node[m] = g.node[m]
      /\ h.edge = g.edge
  BY DEF PutNode, Graph
<1> HIDE DEF h
<1>2. Nodes(h) = Nodes(g) \ {n}
  BY <1>1 DEF Nodes
<1>3. Edges(h) = Edges(g) /\ \A e \in Edges(g) : Ends(h, e) = Ends(g, e)
  BY <1>1 DEF Edges, Ends
<1>4. Touching(g, {n}) = {} => \A e \in Edges(g) : n \notin Ends(g, e)
  BY DEF Touching
<1>5. Touching(g, {n}) = {} => Dangling(h) \subseteq Dangling(g)
  BY <1>2, <1>3, <1>4 DEF Dangling
<1>6. Claimed(g) => Claimed(h)
  BY <1>1, <1>2, <1>3 DEF Claimed, Nodes
<1>7. QED BY <1>1, <1>5, <1>6 DEF h

\* An edge may always go.
LEMMA DropEdgeKeeps ==
  ASSUME NEW g \in Graph, NEW e \in EdgeId
  PROVE  LET h == PutEdge(g, e, Absent)
         IN /\ h \in Graph
            /\ Dangling(h) \subseteq Dangling(g)
            /\ Claimed(g) => Claimed(h)
<1> DEFINE h == PutEdge(g, e, Absent)
<1>1. /\ h \in Graph
      /\ h.edge[e] = Absent
      /\ \A f \in EdgeId \ {e} : h.edge[f] = g.edge[f]
      /\ h.node = g.node
  BY DEF PutEdge, Graph
<1> HIDE DEF h
<1>2. Nodes(h) = Nodes(g)
  BY <1>1 DEF Nodes
<1>3. Edges(h) = Edges(g) \ {e} /\ \A f \in Edges(h) : h.edge[f] = g.edge[f]
  BY <1>1 DEF Edges
<1>4. Dangling(h) \subseteq Dangling(g)
  BY <1>2, <1>3 DEF Dangling, Ends
<1>5. Claimed(g) => Claimed(h)
  BY <1>1, <1>2, <1>3 DEF Claimed
<1>6. QED BY <1>1, <1>4, <1>5 DEF h

\* The copy without node n and without the edges that touch it.
Detached(g, n) ==
  [node |-> [g.node EXCEPT ![n] = Absent],
   edge |-> [e \in EdgeId |-> IF e \in Touching(g, {n}) THEN Absent ELSE g.edge[e]]]

\* A node may go together with the edges that touch it.
LEMMA DetachKeeps ==
  ASSUME NEW g \in Graph, NEW n \in NodeId
  PROVE  /\ Detached(g, n) \in Graph
         /\ Dangling(Detached(g, n)) \subseteq Dangling(g)
         /\ Claimed(g) => Claimed(Detached(g, n))
<1> DEFINE h == Detached(g, n)
<1>1. /\ h \in Graph
      /\ h.node[n] = Absent
      /\ \A m \in NodeId \ {n} : h.node[m] = g.node[m]
      /\ \A e \in EdgeId : h.edge[e] = IF e \in Touching(g, {n}) THEN Absent ELSE g.edge[e]
  BY DEF Detached, Graph
<1> HIDE DEF h
<1>2. Nodes(h) = Nodes(g) \ {n}
  BY <1>1 DEF Nodes
<1>3. /\ Edges(h) = Edges(g) \ Touching(g, {n})
      /\ \A f \in Edges(h) : h.edge[f] = g.edge[f]
  BY <1>1 DEF Edges
<1>4. \A f \in Edges(h) : n \notin Ends(g, f)
  BY <1>3 DEF Touching
<1>5. Dangling(h) \subseteq Dangling(g)
  BY <1>2, <1>3, <1>4 DEF Dangling, Ends
<1>6. Claimed(g) => Claimed(h)
  BY <1>1, <1>2, <1>3 DEF Claimed, Nodes
<1>7. QED BY <1>1, <1>5, <1>6 DEF h

-----------------------------------------------------------------------------
(* The inductive invariant *)

\* Every variable but the counters.
Shape ==
  /\ graph \in Graph /\ working \in Graph
  /\ gen \in 1 .. MaxGeneration
  /\ proposal \in [Producer -> Proposal \union {Absent}]
  /\ job \in {"idle", "apply", "query", "adopt"}
  /\ owner \in Owner
  /\ done \in 0 .. MaxOperations
  /\ drafted \in Ids /\ retired \in Ids
  /\ tidy \in BOOLEAN

\* What both the graph and the copy are.
Sound(g) == Rule \subseteq Discipline => Claimed(g)

\* A job's copy has no edge without an endpoint but those of the graph, and those a
\* query has made.  What a person writes is put right when it is adopted.
Straight(g) ==
  job # "adopt" => Dangling(g) \subseteq
    Dangling(graph) \union IF job = "query" THEN Edges(g) \ Edges(graph) ELSE {}

\* A change set computed at the generation of the graph saw the graph as it is.
Seen ==
  /\ \A o \in Producer : proposal[o] # Absent =>
       /\ proposal[o].base <= gen
       /\ proposal[o].base = gen => proposal[o].current
  /\ job = "apply" => owner \in Producer /\ proposal[owner] # Absent /\ proposal[owner].base = gen

Inv ==
  /\ Shape
  /\ Sound(graph) /\ Sound(working) /\ Straight(working)
  /\ Seen
  /\ job = "idle" => working = graph

\* A withdrawal takes the edges of the nodes it deletes, and leaves no record
\* without a claim.
LEMMA WithdrawnKeeps ==
  ASSUME Shape, NEW u
  PROVE  /\ Withdrawn(u) \in Graph
         /\ Nodes(Withdrawn(u)) = Nodes(working) \ OrphanedNodes(u)
         /\ Edges(Withdrawn(u)) = Edges(working) \ OrphanedEdges(u)
         /\ Dangling(Withdrawn(u)) \subseteq Dangling(working)
         /\ Claimed(Withdrawn(u))
<1> DEFINE h == Withdrawn(u)
<1> USE DEF Shape
<1>1. /\ \A n \in Nodes(working) : working.node[n] \in Node
      /\ \A e \in Edges(working) : working.edge[e] \in Edge
      /\ Nodes(working) \subseteq NodeId /\ Edges(working) \subseteq EdgeId
  BY DEF Nodes, Edges, Graph
<1>2. \A claims \in SUBSET Claim : Left(claims, u) \in SUBSET Claim
  BY DEF Left
<1>3. /\ \A n \in Nodes(working) : [claims |-> Left(working.node[n].claims, u)] \in Node
      /\ \A e \in Edges(working) :
           [working.edge[e] EXCEPT !.claims = Left(@, u)] \in Edge
  BY <1>1, <1>2 DEF Node, Edge
<1>4. /\ h.node = [n \in NodeId |-> IF n \in Nodes(working) \ OrphanedNodes(u)
                              THEN [claims |-> Left(working.node[n].claims, u)] ELSE Absent]
      /\ h.edge = [e \in EdgeId |-> IF e \in Edges(working) \ OrphanedEdges(u)
                              THEN [working.edge[e] EXCEPT !.claims = Left(@, u)] ELSE Absent]
      /\ h = [node |-> h.node, edge |-> h.edge]
  BY DEF Withdrawn
<1> HIDE DEF h
<1>5. h.node \in [NodeId -> Node \union {Absent}] /\ h.edge \in [EdgeId -> Edge \union {Absent}]
  BY <1>3, <1>4
<1>6. h \in Graph
  BY <1>4, <1>5 DEF Graph
<1>7. Absent \notin Node /\ Absent \notin Edge
  BY ApplyAssumption
<1>8. Nodes(h) = Nodes(working) \ OrphanedNodes(u)
  BY <1>1, <1>3, <1>4, <1>7 DEF Nodes
<1>9. Edges(h) = Edges(working) \ OrphanedEdges(u)
  BY <1>1, <1>3, <1>4, <1>7 DEF Edges
<1>10. \A e \in Edges(h) : Ends(h, e) = Ends(working, e)
  BY <1>1, <1>4, <1>9 DEF Ends, Edge
<1>11. \A e \in Edges(h) : Ends(working, e) \intersect OrphanedNodes(u) = {}
  BY <1>9 DEF OrphanedEdges, Touching
<1>12. Dangling(h) \subseteq Dangling(working)
  BY <1>8, <1>9, <1>10, <1>11 DEF Dangling
<1>13. Claimed(h)
  <2>1. \A n \in Nodes(h) : h.node[n].claims # {}
    BY <1>1, <1>4, <1>8 DEF OrphanedNodes
  <2>2. \A e \in Edges(h) : h.edge[e].claims # {}
    BY <1>1, <1>4, <1>9 DEF OrphanedEdges, Edge
  <2>3. QED BY <2>1, <2>2 DEF Claimed
<1>14. QED BY <1>6, <1>8, <1>9, <1>12, <1>13 DEF h

\* The claim of a change set, and the claim of a query.
LEMMA ClaimType ==
  ASSUME Shape
  PROVE  /\ user_contribution \in Claim
         /\ \A u \in UnitOf(owner) : Mine(u) \in Claim
BY DEF Shape, user_contribution, Mine, Claim, UnitOf, Owner

LEMMA NoteType ==
  ASSUME Shape, NEW claims \in SUBSET Claim
  PROVE  note_user_ownership(claims) \in SUBSET Claim /\ note_user_ownership(claims) # {}
BY ClaimType DEF note_user_ownership

-----------------------------------------------------------------------------
(* One operation of a job *)

\* The kinds of what an operation changes besides the copy and the counters.
Counts == drafted \in Ids /\ retired \in Ids /\ tidy \in BOOLEAN

\* What dangles less is no less straight, and so is what a new edge of a query adds.
LEMMA StraightKept ==
  ASSUME NEW g, NEW h, Straight(g),
         \/ Dangling(h) \subseteq Dangling(g)
         \/ /\ job = "query"
            /\ \E e \in EdgeId \ Edges(graph) : Dangling(h) \subseteq Dangling(g) \union {e}
  PROVE  Straight(h)
BY DEF Straight, Dangling

\* Every operation leaves a copy whose edges have their endpoints, but for what a
\* query makes, and of which no record is unclaimed.
LEMMA OperationKeeps ==
  ASSUME Shape, Sound(working), Straight(working), Operation
  PROVE  /\ working' \in Graph
         /\ Sound(working') /\ Straight(working)'
         /\ Counts'
         /\ UNCHANGED <<graph, gen, proposal, job, owner>>
         /\ job # "idle"
         /\ done' \in 0 .. MaxOperations
<1> USE DEF Shape, Counts
<1> DEFINE Good(g) == g \in Graph /\ Sound(g) /\ Straight(g)
           Rest == /\ Counts'
                   /\ UNCHANGED <<graph, gen, proposal, job, owner>>
                   /\ job # "idle"
                   /\ done' \in 0 .. MaxOperations
<1>0. /\ \A n \in Nodes(working) : n \in NodeId /\ working.node[n] \in Node
      /\ \A e \in Edges(working) : e \in EdgeId /\ working.edge[e] \in Edge
      /\ \A e \in EdgeId : working.edge[e] \in Edge => e \in Edges(working)
  BY ApplyAssumption DEF Nodes, Edges, Graph
<1>a. ASSUME NEW n \in NodeId, NEW r \in Node, r.claims # {} \/ "claims_stated" \notin Discipline
      PROVE  Good([working EXCEPT !.node[n] = r])
  BY <1>a, PutNodeKeeps, StraightKept DEF Sound, Rule, PutNode
<1>b. ASSUME NEW e \in EdgeId, NEW r \in Edge,
             \/ {r.source, r.target} \subseteq Nodes(working)
             \/ e \in Edges(working) /\ Ends(working, e) = {r.source, r.target}
             \/ job = "query" /\ e \notin Edges(graph)
             \/ job = "adopt",
             r.claims # {} \/ "claims_stated" \notin Discipline
      PROVE  Good([working EXCEPT !.edge[e] = r])
  <2> DEFINE h == PutEdge(working, e, r)
  <2>1. h \in Graph /\ Sound(h)
    BY <1>b, PutEdgeKeeps DEF Sound, Rule
  <2>2. Straight(h)
    <3>1. CASE job = "adopt"
      BY <3>1 DEF Straight
    <3>2. CASE job # "adopt"
      BY <1>b, <3>2, PutEdgeKeeps, StraightKept
    <3>3. QED BY <3>1, <3>2
  <2>3. QED BY <2>1, <2>2 DEF PutEdge
<1>c. ASSUME NEW e \in EdgeId
      PROVE  Good([working EXCEPT !.edge[e] = Absent])
  BY DropEdgeKeeps, StraightKept DEF Sound, PutEdge
<1>d. ASSUME NEW n \in NodeId, Touching(working, {n}) = {} \/ job = "adopt"
      PROVE  Good([working EXCEPT !.node[n] = Absent])
  <2> DEFINE h == PutNode(working, n, Absent)
  <2>1. h \in Graph /\ Sound(h)
    BY DropNodeKeeps DEF Sound
  <2>2. Straight(h)
    BY <1>d, DropNodeKeeps, StraightKept DEF Straight
  <2>3. QED BY <2>1, <2>2 DEF PutNode
<1>e. ASSUME NEW kind \in {"apply", "query", "adopt"}, NEW to, Operate(kind, to)
      PROVE  /\ working' = to
             /\ UNCHANGED <<graph, gen, proposal, job, owner>>
             /\ job = kind
             /\ done' \in 0 .. MaxOperations
  BY <1>e, ApplyAssumption DEF Operate
<1>f. Rest /\ Straight(working') => Straight(working)'
  BY DEF Straight, Dangling, Edges, Nodes, Ends
<1> SUFFICES Good(working') /\ Rest
  BY <1>f
<1> HIDE DEF Good
<1>1. ASSUME NEW n \in NodeId, NEW u \in UnitOf(owner), UpsertNode(n, u)
      PROVE  Good(working') /\ Rest
  <2>1. Mine(u) \in Claim
    BY ClaimType
  <2> DEFINE r == [claims |-> {Mine(u)} \union IF n \in Nodes(working)
                                               THEN working.node[n].claims ELSE {}]
  <2>2. r \in Node /\ r.claims # {}
    BY <1>0, <2>1 DEF Node
  <2>3. Claiming(n, u) = [working EXCEPT !.node[n] = r]
    BY DEF Claiming
  <2>4. Good(Claiming(n, u))
    BY <1>a, <2>2, <2>3
  <2>5. Operate("apply", Claiming(n, u)) /\ Counts'
    BY <1>1 DEF UpsertNode, Ids
  <2>6. QED BY <1>e, <2>4, <2>5
<1>2. ASSUME NEW e \in EdgeId, NEW s \in NodeId, NEW t \in NodeId, NEW u \in UnitOf(owner),
             UpsertEdge(e, s, t, u)
      PROVE  Good(working') /\ Rest
  <2>1. Mine(u) \in Claim
    BY ClaimType
  <2> DEFINE r == IF e \in Edges(working)
                  THEN [working.edge[e] EXCEPT !.claims = @ \union {Mine(u)}]
                  ELSE [source |-> s, target |-> t, claims |-> {Mine(u)}]
  <2>2. /\ r \in Edge /\ r.claims # {}
        /\ \/ {r.source, r.target} \subseteq Nodes(working)
           \/ e \in Edges(working) /\ Ends(working, e) = {r.source, r.target}
    <3>1. CASE e \in Edges(working)
      <4>1. working.edge[e] \in Edge
        BY <1>0, <3>1
      <4>2. QED BY <2>1, <3>1, <4>1 DEF Edge, Ends
    <3>2. CASE e \notin Edges(working)
      BY <1>2, <2>1, <3>2 DEF UpsertEdge, Edge
    <3>3. QED BY <3>1, <3>2
  <2>3. ClaimingEdge(e, s, t, u) = [working EXCEPT !.edge[e] = r]
    <3>1. CASE e \in Edges(working)
      BY <3>1 DEF ClaimingEdge
    <3>2. CASE e \notin Edges(working)
      BY <3>2 DEF ClaimingEdge
    <3>3. QED BY <3>1, <3>2
  <2> HIDE DEF r
  <2>4. Good(ClaimingEdge(e, s, t, u))
    BY <1>b, <2>2, <2>3
  <2>5. Operate("apply", ClaimingEdge(e, s, t, u)) /\ Counts'
    BY <1>2 DEF UpsertEdge, Ids
  <2>6. QED BY <1>e, <2>4, <2>5
<1>3. ASSUME NEW u \in UnitOf(owner), RemoveContribution(u)
      PROVE  Good(working') /\ Rest
  <2>1. Good(Withdrawn(u))
    BY WithdrawnKeeps, StraightKept DEF Sound, Good
  <2>2. OrphanedNodes(u) \subseteq NodeId /\ OrphanedEdges(u) \subseteq EdgeId
    BY DEF OrphanedNodes, OrphanedEdges, Touching, Nodes, Edges
  <2>3. Operate("apply", Withdrawn(u)) /\ Counts'
    BY <1>3, <2>2 DEF RemoveContribution, Ids
  <2>4. QED BY <1>e, <2>1, <2>3
<1>4. ASSUME NEW n \in NodeId, CreateNode(n)
      PROVE  Good(working') /\ Rest
  <2> DEFINE r == [claims |-> {user_contribution}]
  <2>1. r \in Node /\ r.claims # {}
    BY ClaimType DEF Node
  <2>2. Operate("query", [working EXCEPT !.node[n] = r]) /\ Counts'
    BY <1>4 DEF CreateNode, Ids
  <2>3. QED BY <1>a, <1>e, <2>1, <2>2
<1>5. ASSUME NEW e \in EdgeId, NEW s \in NodeId, NEW t \in NodeId, CreateEdge(e, s, t)
      PROVE  Good(working') /\ Rest
  <2> DEFINE r == [source |-> s, target |-> t, claims |-> {user_contribution}]
  <2>1. r \in Edge /\ r.claims # {}
    BY ClaimType DEF Edge
  <2>2. Operate("query", [working EXCEPT !.edge[e] = r]) /\ Counts' /\ e \notin Edges(graph)
    BY <1>5 DEF CreateEdge
  <2>3. QED BY <1>b, <1>e, <2>1, <2>2
<1>6. ASSUME NEW n \in NodeId, SetNode(n)
      PROVE  Good(working') /\ Rest
  <2> DEFINE r == [working.node[n] EXCEPT !.claims = note_user_ownership(@)]
  <2>1. r \in Node /\ r.claims # {}
    BY <1>0, <1>6, NoteType DEF SetNode, Node
  <2>2. Operate("query", [working EXCEPT !.node[n] = r]) /\ Counts'
    BY <1>6 DEF SetNode
  <2> HIDE DEF r
  <2>3. QED BY <1>a, <1>e, <2>1, <2>2
<1>7. ASSUME NEW e \in EdgeId, SetEdge(e)
      PROVE  Good(working') /\ Rest
  <2> DEFINE r == [working.edge[e] EXCEPT !.claims = note_user_ownership(@)]
  <2>1. working.edge[e] \in Edge /\ e \in Edges(working)
    BY <1>0, <1>7 DEF SetEdge
  <2>2. r \in Edge /\ r.claims # {} /\ Ends(working, e) = {r.source, r.target}
    BY <2>1, NoteType DEF Edge, Ends
  <2>3. Operate("query", [working EXCEPT !.edge[e] = r]) /\ Counts'
    BY <1>7 DEF SetEdge
  <2> HIDE DEF r
  <2>4. QED BY <1>b, <1>e, <2>1, <2>2, <2>3
<1>8. ASSUME NEW n \in NodeId, Delete(n)
      PROVE  Good(working') /\ Rest
  <2>1. /\ Operate("query", [working EXCEPT !.node[n] = Absent])
        /\ Counts'
        /\ Touching(working, {n}) = {}
    BY <1>8 DEF Delete
  <2>2. QED BY <1>d, <1>e, <2>1
<1>9. ASSUME NEW n \in NodeId, DetachDelete(n)
      PROVE  Good(working') /\ Rest
  <2>1. Operate("query", Detached(working, n)) /\ Counts'
    BY <1>9 DEF DetachDelete, Detached
  <2>2. Good(Detached(working, n))
    BY DetachKeeps, StraightKept DEF Good, Sound
  <2>3. QED BY <1>e, <2>1, <2>2
<1>10. ASSUME NEW e \in EdgeId, DeleteEdge(e)
       PROVE  Good(working') /\ Rest
  <2>1. Operate("query", [working EXCEPT !.edge[e] = Absent]) /\ Counts'
    BY <1>10 DEF DeleteEdge
  <2>2. QED BY <1>c, <1>e, <2>1
<1>11. \A claims \in Stated : /\ claims \in SUBSET Claim
                              /\ claims # {} \/ "claims_stated" \notin Discipline
  BY ClaimType DEF Stated
<1>12. ASSUME NEW n \in NodeId, WriteNode(n)
       PROVE  Good(working') /\ Rest
  <2>1. PICK claims \in Stated : Operate("adopt", [working EXCEPT !.node[n] = [claims |-> claims]])
    BY <1>12 DEF WriteNode
  <2> DEFINE r == [claims |-> claims]
  <2>2. r \in Node /\ (r.claims # {} \/ "claims_stated" \notin Discipline)
    BY <1>11 DEF Node
  <2>3. Counts'
    BY <1>12 DEF WriteNode
  <2>4. QED BY <1>a, <1>e, <2>1, <2>2, <2>3
<1>13. ASSUME NEW e \in EdgeId, NEW s \in NodeId, NEW t \in NodeId, WriteEdge(e, s, t)
       PROVE  Good(working') /\ Rest
  <2>1. PICK claims \in Stated :
          Operate("adopt", [working EXCEPT !.edge[e] =
                              [source |-> s, target |-> t, claims |-> claims]])
    BY <1>13 DEF WriteEdge
  <2> DEFINE r == [source |-> s, target |-> t, claims |-> claims]
  <2>2. r \in Edge /\ (r.claims # {} \/ "claims_stated" \notin Discipline)
    BY <1>11 DEF Edge
  <2>3. Counts'
    BY <1>13 DEF WriteEdge
  <2>4. QED BY <1>b, <1>e, <2>1, <2>2, <2>3
<1>14. ASSUME Erase PROVE Good(working') /\ Rest
  <2>1. Counts'
    BY <1>14 DEF Erase
  <2>2. CASE \E n \in Nodes(working) :
               Operate("adopt", [working EXCEPT !.node[n] = Absent])
    BY <1>0, <1>d, <1>e, <2>1, <2>2
  <2>3. CASE \E e \in Edges(working) : Operate("adopt", [working EXCEPT !.edge[e] = Absent])
    BY <1>0, <1>c, <1>e, <2>1, <2>3
  <2>4. QED BY <1>14, <2>2, <2>3 DEF Erase
<1>15. QED
  BY <1>1, <1>2, <1>3, <1>4, <1>5, <1>6, <1>7, <1>8, <1>9, <1>10, <1>12, <1>13, <1>14
     DEF Operation

-----------------------------------------------------------------------------
(* Every step *)

LEMMA InitInv == Init => Inv
<1> SUFFICES ASSUME Init PROVE Inv
  OBVIOUS
<1> USE ApplyAssumption DEF Init
<1>1. graph \in Graph /\ Nodes(graph) = {} /\ Edges(graph) = {}
  BY DEF Graph, Nodes, Edges
<1>2. Shape
  BY <1>1 DEF Shape, Ids, Blank, Owner
<1>3. Sound(graph)
  BY <1>1 DEF Sound, Claimed
<1>4. QED BY <1>2, <1>3 DEF Inv, Seen, Straight

\* The variables a job starts and ends with.
LEMMA EndType ==
  ASSUME End
  PROVE  job' = "idle" /\ owner' \in Owner /\ done' \in 0 .. MaxOperations
         /\ drafted' \in Ids /\ retired' \in Ids /\ tidy' \in BOOLEAN
BY ApplyAssumption DEF End, Owner, Ids, Blank

\* An adopted text has every edge between nodes, and an unclaimed record only if it
\* wrote one or named what it does not declare.
LEMMA AdoptedKeeps ==
  ASSUME NEW g \in Graph, NEW h \in Adopted(g)
  PROVE  /\ h \in Graph
         /\ Dangling(h) = {}
         /\ Rule \subseteq Discipline /\ Claimed(g) => Claimed(h)
<1>1. PICK minted \in [Undeclared(g) -> NodeId \ Nodes(g)] :
        /\ h = Resolved(g, minted)
        /\ "ends_declared" \in Discipline => Undeclared(g) = {}
  BY DEF Adopted
<1> DEFINE Ghost(n) == \E end \in Undeclared(g) : minted[end] = n
           Named(e, at) == IF <<e, at>> \in Undeclared(g) THEN minted[<<e, at>>] ELSE g.edge[e][at]
<1>2. /\ \A n \in Nodes(g) : g.node[n] \in Node
      /\ \A e \in Edges(g) : g.edge[e] \in Edge
      /\ Nodes(g) \subseteq NodeId /\ Edges(g) \subseteq EdgeId
      /\ Absent \notin Node /\ Absent \notin Edge
  BY ApplyAssumption DEF Nodes, Edges, Graph
<1>3. \A e \in Edges(g) : \A at \in {"source", "target"} :
        /\ Named(e, at) \in NodeId
        /\ Named(e, at) \in Nodes(g) \/ Ghost(Named(e, at))
  <2>1. TAKE e \in Edges(g)
  <2>2. TAKE at \in {"source", "target"}
  <2>3. CASE <<e, at>> \in Undeclared(g)
    BY <2>3
  <2>4. CASE <<e, at>> \notin Undeclared(g)
    <3>1. g.edge[e][at] \in Nodes(g)
      BY <2>4 DEF Undeclared
    <3>2. QED BY <1>2, <2>4, <3>1
  <2>5. QED BY <2>3, <2>4
<1>4. /\ h.node = [n \in NodeId |-> IF Ghost(n) THEN [claims |-> {}] ELSE g.node[n]]
      /\ h.edge = [e \in EdgeId |-> IF e \in Edges(g)
                                   THEN [g.edge[e] EXCEPT !.source = Named(e, "source"),
                                                          !.target = Named(e, "target")]
                                   ELSE Absent]
      /\ h = [node |-> h.node, edge |-> h.edge]
  BY <1>1 DEF Resolved
<1>5. [claims |-> {}] \in Node
  BY DEF Node
<1>6. \A e \in Edges(g) :
        /\ h.edge[e] \in Edge
        /\ h.edge[e].source = Named(e, "source") /\ h.edge[e].target = Named(e, "target")
        /\ h.edge[e].claims = g.edge[e].claims
  <2>1. TAKE e \in Edges(g)
  <2>2. Named(e, "source") \in NodeId /\ Named(e, "target") \in NodeId
    BY <1>3
  <2> DEFINE s == Named(e, "source")
             t == Named(e, "target")
  <2>3. h.edge[e] = [g.edge[e] EXCEPT !.source = s, !.target = t]
    BY <1>2, <1>4
  <2> HIDE DEF s, t
  <2>4. QED BY <1>2, <2>2, <2>3 DEF Edge, s, t
<1>7. /\ \A e \in EdgeId \ Edges(g) : h.edge[e] = Absent
      /\ h.edge = [e \in EdgeId |-> h.edge[e]]
  <2> DEFINE r(e) == IF e \in Edges(g)
                     THEN [g.edge[e] EXCEPT !.source = Named(e, "source"),
                                            !.target = Named(e, "target")]
                     ELSE Absent
  <2>1. h.edge = [e \in EdgeId |-> r(e)]
    BY <1>4
  <2>2. \A e \in EdgeId \ Edges(g) : r(e) = Absent
    OBVIOUS
  <2> HIDE DEF r
  <2>3. QED BY <2>1, <2>2
<1> HIDE DEF Named
<1>8. h \in Graph
  <2>1. h.node \in [NodeId -> Node \union {Absent}]
    <3>1. g.node \in [NodeId -> Node \union {Absent}]
      BY DEF Graph
    <3> HIDE DEF Ghost
    <3>2. QED BY <1>4, <1>5, <3>1
  <2>2. h.edge \in [EdgeId -> Edge \union {Absent}]
    <3>1. h.edge = [e \in EdgeId |-> h.edge[e]]
      BY <1>7
    <3>2. \A e \in EdgeId : h.edge[e] \in Edge \union {Absent}
      BY <1>6, <1>7
    <3> DEFINE at(e) == h.edge[e]
    <3> HIDE DEF at
    <3>3. [e \in EdgeId |-> at(e)] \in [EdgeId -> Edge \union {Absent}]
      BY <3>2 DEF at
    <3>4. QED BY <3>1, <3>3 DEF at
  <2>3. QED BY <1>4, <2>1, <2>2 DEF Graph
<1>9. Edges(h) = Edges(g)
  BY <1>2, <1>6, <1>7 DEF Edges
<1>10. \A n \in NodeId : n \in Nodes(g) \/ Ghost(n) => n \in Nodes(h)
  <2> HIDE DEF Ghost
  <2>1. QED BY <1>2, <1>4, <1>5 DEF Nodes
<1>11. Dangling(h) = {}
  BY <1>3, <1>6, <1>9, <1>10 DEF Dangling, Ends
<1>12. ASSUME Rule \subseteq Discipline, Claimed(g) PROVE Claimed(h)
  <2>1. Undeclared(g) = {}
    BY <1>1, <1>12 DEF Rule
  <2>2. \A n \in NodeId : h.node[n] = g.node[n]
    BY <1>4, <2>1
  <2>3. \A n \in Nodes(h) : h.node[n].claims # {}
    BY <1>12, <2>2 DEF Claimed, Nodes
  <2>4. \A e \in Edges(h) : h.edge[e].claims # {}
    BY <1>6, <1>9, <1>12 DEF Claimed
  <2>5. QED BY <2>3, <2>4 DEF Claimed
<1>13. QED BY <1>8, <1>11, <1>12

\* What a job commits.
LEMMA FinishKeeps ==
  ASSUME Shape, Sound(working), Straight(working), Finish
  PROVE  /\ graph' \in Graph /\ Sound(graph')
         /\ graph' # graph => Commits
         /\ job = "adopt" => Dangling(graph') = {}
         /\ job # "adopt" => graph' = working
<1>1. CASE job = "adopt"
  <2>1. graph' \in Adopted(working) /\ Commits
    BY <1>1 DEF Finish, Outcomes, Commits
  <2>2. QED BY <1>1, <2>1, AdoptedKeeps DEF Shape, Sound
<1>2. CASE job # "adopt"
  <2>1. graph' = working
    BY <1>2 DEF Finish, Outcomes
  <2>2. QED BY <1>2, <2>1 DEF Shape, Commits
<1>3. QED BY <1>1, <1>2

LEMMA InvStep == Inv /\ [Next]_vars => Inv'
<1> SUFFICES ASSUME Inv, [Next]_vars
             PROVE  Inv'
  OBVIOUS
<1> USE ApplyAssumption
<1>1. CASE UNCHANGED vars
  BY <1>1 DEF vars, Inv, Shape, Sound, Straight, Dangling, Claimed, Nodes, Edges, Ends, Seen
<1>2. ASSUME NEW o \in Producer, Propose(o) PROVE Inv'
  <2>1. proposal' \in [Producer -> Proposal \union {Absent}]
    BY <1>2 DEF Propose, Inv, Shape, Proposal
  <2>2. Seen'
    BY <1>2 DEF Propose, Inv, Shape, Seen
  <2>3. QED BY <1>2, <2>1, <2>2 DEF Propose, Inv, Shape, Sound, Straight, Dangling, Claimed, Nodes, Edges, Ends
<1>3. ASSUME NEW o \in Producer, Apply(o) PROVE Inv'
  <2>1. Seen'
    BY <1>3 DEF Apply, Begin, Inv, Seen
  <2>2. QED
    BY <1>3, <2>1 DEF Apply, Begin, Owner, Inv, Shape, Sound, Straight, Dangling, Claimed, Nodes, Edges, Ends
<1>4. ASSUME NEW o \in Producer, StaleBaseline(o) PROVE Inv'
  <2>1. Seen' /\ proposal' \in [Producer -> Proposal \union {Absent}]
    BY <1>4 DEF StaleBaseline, Inv, Shape, Seen
  <2>2. QED
    BY <1>4, <2>1 DEF StaleBaseline, Inv, Shape, Sound, Straight, Dangling, Claimed, Nodes, Edges, Ends
<1>5. CASE Write \/ Adopt
  <2>1. Seen'
    BY <1>5 DEF Write, Adopt, Begin, Inv, Seen
  <2>2. QED
    BY <1>5, <2>1 DEF Write, Adopt, Begin, Owner, Inv, Shape, Sound, Straight, Dangling, Claimed, Nodes, Edges, Ends
<1>6. CASE Operation
  <2>1. /\ working' \in Graph /\ Sound(working') /\ Straight(working)' /\ Counts'
        /\ UNCHANGED <<graph, gen, proposal, job, owner>>
        /\ job # "idle"
        /\ done' \in 0 .. MaxOperations
    BY <1>6, OperationKeeps DEF Inv
  <2>2. QED BY <2>1 DEF Inv, Shape, Counts, Seen, Sound, Claimed, Nodes, Edges
<1>7. CASE Refuse
  <2>1. proposal' \in [Producer -> Proposal \union {Absent}]
    BY <1>7 DEF Refuse, Inv, Shape
  <2>2. Seen'
    BY <1>7, EndType DEF Refuse, Inv, Shape, Seen
  <2>3. Sound(graph)' /\ Sound(working)' /\ Straight(working)'
    BY <1>7 DEF Refuse, End, Inv, Sound, Straight, Dangling, Claimed, Nodes, Edges, Ends
  <2>4. QED BY <1>7, <2>1, <2>2, <2>3, EndType DEF Refuse, Inv, Shape
<1>8. CASE Finish
  <2>0. /\ graph' \in Graph /\ Sound(graph')
        /\ graph' # graph => Commits
    BY <1>8, FinishKeeps DEF Inv
  <2>1. gen' \in 1 .. MaxGeneration /\ gen <= gen' /\ (graph' # graph => gen' = gen + 1)
    BY <1>8, <2>0 DEF Finish, Inv, Shape
  <2>2. \A o \in Producer : proposal[o] \in Proposal \union {Absent}
    BY DEF Inv, Shape
  <2>3. \A o \in Producer :
          proposal'[o] # Absent => /\ proposal[o] # Absent
                                   /\ proposal'[o] = Outdated(graph' # graph)[o]
    BY <1>8 DEF Finish, Outdated
  <2>4. Outdated(graph' # graph) \in [Producer -> Proposal \union {Absent}]
    BY <2>2 DEF Outdated, Proposal
  <2>5. proposal' \in [Producer -> Proposal \union {Absent}]
    BY <1>8, <2>4 DEF Finish
  <2>6. ASSUME NEW o \in Producer, proposal'[o] # Absent
        PROVE  /\ proposal'[o].base <= gen'
               /\ proposal'[o].base = gen' => proposal'[o].current
    <3>1. /\ proposal[o] \in Proposal
          /\ proposal[o].base <= gen
          /\ proposal[o].base = gen => proposal[o].current
      BY <2>2, <2>3, <2>6 DEF Inv, Seen
    <3>2. CASE graph' = graph
      <4>1. proposal'[o] = proposal[o]
        BY <2>3, <2>6, <3>2 DEF Outdated
      <4>2. QED BY <2>1, <3>1, <4>1 DEF Proposal, Inv, Shape
    <3>3. CASE graph' # graph
      <4>1. proposal'[o] = [proposal[o] EXCEPT !.current = FALSE]
        BY <2>3, <2>6, <3>3 DEF Outdated
      <4>2. proposal'[o].base = proposal[o].base
        BY <3>1, <4>1 DEF Proposal
      <4>3. QED BY <2>1, <3>1, <3>3, <4>2 DEF Proposal, Inv, Shape
    <3>4. QED BY <3>2, <3>3
  <2>7. Seen'
    BY <1>8, <2>6, EndType DEF Finish, Seen
  <2>8. working' = graph' /\ job' = "idle"
    BY <1>8, EndType DEF Finish
  <2>9. Sound(graph)' /\ Sound(working)' /\ Straight(working)'
    BY <2>0, <2>8 DEF Sound, Claimed, Straight, Dangling, Nodes, Edges, Ends
  <2>10. Shape'
    BY <1>8, <2>0, <2>1, <2>5, <2>8, EndType DEF Finish, Shape
  <2>11. QED BY <2>7, <2>8, <2>9, <2>10 DEF Inv
<1>9. QED
  BY <1>1, <1>2, <1>3, <1>4, <1>5, <1>6, <1>7, <1>8 DEF Next

LEMMA Invariant == Spec => []Inv
BY InitInv, InvStep, PTL DEF Spec

\* "An Edge always has two non-null endpoints": EndpointsStay.  A change set leaves
\* no edge without an endpoint that had both, a query only one of its own, and an
\* adopted text none at all.
THEOREM EndpointsAlwaysStay == Spec => EndpointsStay
<1>1. Inv /\ [Next]_vars =>
        [Finish => Dangling(graph') \subseteq
           CASE job = "apply" -> Dangling(graph)
             [] job = "query" -> Dangling(graph) \union (Edges(graph') \ Edges(graph))
             [] job = "adopt" -> {}]_vars
  <2> SUFFICES ASSUME Inv, Finish
               PROVE  Dangling(graph') \subseteq
                        CASE job = "apply" -> Dangling(graph)
                          [] job = "query" -> Dangling(graph) \union (Edges(graph') \ Edges(graph))
                          [] job = "adopt" -> {}
    OBVIOUS
  <2>1. job \in {"apply", "query", "adopt"}
    BY DEF Finish, Inv, Shape
  <2>2. job = "adopt" => Dangling(graph') = {}
    BY FinishKeeps DEF Inv
  <2>3. job # "adopt" => graph' = working
    BY FinishKeeps DEF Inv
  <2>4. QED BY <2>1, <2>2, <2>3 DEF Inv, Straight
<1>2. QED BY <1>1, Invariant, PTL DEF Spec, EndpointsStay

\* While every written record states who claims it and every written edge names what
\* the text declares, no record is unclaimed.
THEOREM RecordsAlwaysClaimed == Spec => []RecordsAreClaimed
<1>1. Inv => RecordsAreClaimed
  BY DEF Inv, Sound, RecordsAreClaimed
<1>2. QED BY <1>1, Invariant, PTL

\* A change set is applied to the graph it was computed from.
THEOREM AlwaysAppliedOnWhatItSaw == Spec => []AppliedOnWhatItSaw
<1>1. Inv => AppliedOnWhatItSaw
  BY DEF Inv, Seen, AppliedOnWhatItSaw
<1>2. QED BY <1>1, Invariant, PTL

-----------------------------------------------------------------------------
(* A change set and the claims of the others *)

\* OthersKept, and the endpoints of the edges it speaks of.
Keeps(g, h, o) ==
  /\ OthersKept(g, h, o)
  /\ \A e \in Edges(g) :
       OthersOf(g.edge[e].claims, o) # {} /\ Ends(g, e) \subseteq ClaimedByOthers(g, o)
       => Ends(h, e) = Ends(g, e)

LEMMA KeepsReflexive ==
  ASSUME NEW g, NEW o
  PROVE  Keeps(g, g, o)
BY DEF Keeps, OthersKept

LEMMA KeepsTransitive ==
  ASSUME NEW g, NEW h, NEW i, NEW o, Keeps(g, h, o), Keeps(h, i, o)
  PROVE  Keeps(g, i, o)
<1>1. ASSUME NEW n \in Nodes(g), OthersOf(g.node[n].claims, o) # {}
      PROVE  /\ n \in Nodes(h) /\ OthersOf(h.node[n].claims, o) = OthersOf(g.node[n].claims, o)
             /\ n \in Nodes(i) /\ OthersOf(i.node[n].claims, o) = OthersOf(g.node[n].claims, o)
  BY <1>1 DEF Keeps, OthersKept
<1>2. ASSUME NEW e \in Edges(g), OthersOf(g.edge[e].claims, o) # {},
             Ends(g, e) \subseteq ClaimedByOthers(g, o)
      PROVE  /\ e \in Edges(i)
             /\ OthersOf(i.edge[e].claims, o) = OthersOf(g.edge[e].claims, o)
             /\ Ends(i, e) = Ends(g, e)
  <2>1. /\ e \in Edges(h)
        /\ OthersOf(h.edge[e].claims, o) = OthersOf(g.edge[e].claims, o)
        /\ Ends(h, e) = Ends(g, e)
    BY <1>2 DEF Keeps, OthersKept
  <2>2. Ends(h, e) \subseteq ClaimedByOthers(h, o)
    BY <1>1, <1>2, <2>1 DEF ClaimedByOthers
  <2>3. QED BY <1>2, <2>1, <2>2 DEF Keeps, OthersKept
<1>3. QED BY <1>1, <1>2 DEF Keeps, OthersKept

\* An operation of a change set leaves the others their claims.
LEMMA ApplyKeepsOthers ==
  ASSUME Shape, job = "apply", Operation
  PROVE  Keeps(working, working', owner)
<1> USE DEF Shape
<1>1. \A u, claims : OthersOf(claims \union {Mine(u)}, owner) = OthersOf(claims, owner)
  BY DEF Mine, OthersOf
<1>2. /\ \A n \in Nodes(working) : n \in NodeId /\ working.node[n] \in Node
      /\ \A e \in Edges(working) : e \in EdgeId /\ working.edge[e] \in Edge
  BY DEF Nodes, Edges, Graph
<1>3. ASSUME NEW n \in NodeId, NEW u \in UnitOf(owner), UpsertNode(n, u)
      PROVE  Keeps(working, working', owner)
  <2> DEFINE r == [claims |-> {Mine(u)} \union IF n \in Nodes(working)
                                               THEN working.node[n].claims ELSE {}]
  <2>1. working' = [working EXCEPT !.node[n] = r]
    BY <1>3 DEF UpsertNode, Operate, Claiming
  <2>2. n \in Nodes(working) =>
          OthersOf(r.claims, owner) = OthersOf(working.node[n].claims, owner)
    <3>1. n \in Nodes(working) => r.claims = working.node[n].claims \union {Mine(u)}
      OBVIOUS
    <3>2. QED BY <1>1, <3>1
  <2>3. r \in Node
    BY <1>2, ClaimType DEF Node
  <2> HIDE DEF r
  <2>4. /\ working'.node[n] = r
        /\ \A m \in NodeId \ {n} : working'.node[m] = working.node[m]
        /\ working'.edge = working.edge
    BY <2>1 DEF Graph
  <2>5. r # Absent
    BY <2>3, ApplyAssumption
  <2>6. \A m \in Nodes(working) :
          /\ m \in Nodes(working')
          /\ OthersOf(working'.node[m].claims, owner) = OthersOf(working.node[m].claims, owner)
    <3>1. TAKE m \in Nodes(working)
    <3>2. CASE m = n
      BY <2>2, <2>4, <2>5, <3>2 DEF Nodes
    <3>3. CASE m # n
      BY <1>2, <2>4, <3>3 DEF Nodes
    <3>4. QED BY <3>2, <3>3
  <2>7. \A e \in Edges(working) : e \in Edges(working') /\ Ends(working', e) = Ends(working, e)
    BY <2>4 DEF Edges, Ends
  <2>8. QED BY <2>4, <2>6, <2>7 DEF Keeps, OthersKept
<1>4. ASSUME NEW e \in EdgeId, NEW s \in NodeId, NEW t \in NodeId, NEW u \in UnitOf(owner),
             UpsertEdge(e, s, t, u)
      PROVE  Keeps(working, working', owner)
  <2>1. working' = ClaimingEdge(e, s, t, u)
    BY <1>4 DEF UpsertEdge, Operate
  <2>2. /\ working'.node = working.node
        /\ \A f \in EdgeId \ {e} : working'.edge[f] = working.edge[f]
    BY <2>1 DEF ClaimingEdge, Graph
  <2>3. ASSUME e \in Edges(working)
        PROVE  working'.edge[e] = [working.edge[e] EXCEPT !.claims = @ \union {Mine(u)}]
    BY <2>1, <2>3 DEF ClaimingEdge, Graph
  <2>4. ASSUME e \in Edges(working)
        PROVE  /\ e \in Edges(working')
               /\ OthersOf(working'.edge[e].claims, owner) = OthersOf(working.edge[e].claims, owner)
               /\ Ends(working', e) = Ends(working, e)
    <3>1. /\ working'.edge[e].claims = working.edge[e].claims \union {Mine(u)}
          /\ working'.edge[e].source = working.edge[e].source
          /\ working'.edge[e].target = working.edge[e].target
      BY <1>2, <2>3, <2>4 DEF Edge
    <3>2. working'.edge[e] # Absent
      <4>1. Mine(u) \in Claim
        BY ClaimType
      <4>2. working'.edge[e] \in Edge
        BY <1>2, <2>3, <2>4, <4>1 DEF Edge
      <4>3. QED BY <4>2, ApplyAssumption
    <3>3. QED BY <1>1, <2>4, <1>2, <3>1, <3>2 DEF Edges, Ends
  <2>5. \A f \in Edges(working) :
          /\ f \in Edges(working')
          /\ OthersOf(working'.edge[f].claims, owner) = OthersOf(working.edge[f].claims, owner)
          /\ Ends(working', f) = Ends(working, f)
    BY <1>2, <2>2, <2>4 DEF Edges, Ends
  <2>6. Nodes(working') = Nodes(working)
    BY <2>2 DEF Nodes
  <2>7. QED BY <2>2, <2>5, <2>6 DEF Keeps, OthersKept
<1>5. ASSUME NEW u \in UnitOf(owner), RemoveContribution(u)
      PROVE  Keeps(working, working', owner)
  <2>1. working' = Withdrawn(u)
    BY <1>5 DEF RemoveContribution, Operate
  <2>2. \A claims : OthersOf(Left(claims, u), owner) = OthersOf(claims, owner)
    BY DEF OthersOf, Left, matches, Mine
  <2>3. \A claims : OthersOf(claims, owner) # {} => Left(claims, u) # {}
    BY <2>2 DEF OthersOf
  <2>4. /\ Nodes(working') = Nodes(working) \ OrphanedNodes(u)
        /\ Edges(working') = Edges(working) \ OrphanedEdges(u)
    BY <2>1, WithdrawnKeeps
  <2>5. \A n \in Nodes(working') : working'.node[n].claims = Left(working.node[n].claims, u)
    BY <1>2, <2>1, <2>4 DEF Withdrawn
  <2>6. \A e \in Edges(working') :
          /\ working'.edge[e].claims = Left(working.edge[e].claims, u)
          /\ Ends(working', e) = Ends(working, e)
    BY <1>2, <2>1, <2>4 DEF Withdrawn, Ends, Edge
  <2>7. \A n \in Nodes(working) :
          OthersOf(working.node[n].claims, owner) # {} => n \notin OrphanedNodes(u)
    BY <2>3 DEF OrphanedNodes
  <2>8. \A e \in Edges(working) :
          OthersOf(working.edge[e].claims, owner) # {}
            /\ Ends(working, e) \subseteq ClaimedByOthers(working, owner)
          => e \notin OrphanedEdges(u)
    BY <2>3, <2>7 DEF OrphanedEdges, Touching, OrphanedNodes, ClaimedByOthers
  <2>9. QED BY <2>2, <2>4, <2>5, <2>6, <2>7, <2>8 DEF Keeps, OthersKept
<1>6. QED
  BY <1>3, <1>4, <1>5 DEF Operation, Operate, CreateNode, SetNode, Delete, DetachDelete, WriteNode,
     SetEdge, DeleteEdge, CreateEdge, WriteEdge, Erase

\* A change set at work has kept what it must.
Kept == job = "apply" => Keeps(graph, working, owner)

LEMMA KeptStep == Inv /\ Kept /\ [Next]_vars => Kept'
<1> SUFFICES ASSUME Inv, Kept, [Next]_vars, job' = "apply"
             PROVE  Keeps(graph', working', owner')
  BY DEF Kept
<1>1. CASE UNCHANGED vars
  BY <1>1 DEF vars, Kept, Keeps, OthersKept, Nodes, Edges, Ends
<1>2. ASSUME NEW o \in Producer, Propose(o) \/ StaleBaseline(o)
      PROVE  Keeps(graph', working', owner')
  BY <1>2 DEF Propose, StaleBaseline, Kept, Keeps, OthersKept, Nodes, Edges, Ends
<1>3. ASSUME NEW o \in Producer, Apply(o)
      PROVE  Keeps(graph', working', owner')
  <2>1. graph' = working'
    BY <1>3 DEF Apply, Begin, Inv
  <2>2. QED BY <2>1, KeepsReflexive
<1>4. CASE Operation
  <2>1. UNCHANGED <<graph, job, owner>> /\ job = "apply"
    BY <1>4, OperationKeeps DEF Inv
  <2>2. Keeps(working, working', owner)
    BY <1>4, <2>1, ApplyKeepsOthers DEF Inv
  <2>3. Keeps(graph, working', owner)
    BY <2>1, <2>2, KeepsTransitive DEF Inv, Kept
  <2>4. QED BY <2>1, <2>3
<1>5. QED
  BY <1>1, <1>2, <1>3, <1>4 DEF Next, Write, Adopt, Begin, Refuse, Finish, End

\* "An analyzer refresh replaces only its own contributions": what a change set
\* commits keeps the claims of every other owner, for any operations in any order.
THEOREM RefreshAlwaysKeepsOthers == Spec => RefreshKeepsOthers
<1>1. Init => Kept
  BY DEF Init, Kept
<1>2. Inv /\ Kept /\ [Next]_vars => [Finish /\ job = "apply" => OthersKept(graph, graph', owner)]_vars
  <2> SUFFICES ASSUME Kept, Finish, job = "apply"
               PROVE  OthersKept(graph, graph', owner)
    OBVIOUS
  <2>1. graph' = working
    BY DEF Finish, Outcomes
  <2>2. QED BY <2>1 DEF Kept, Keeps
<1>3. QED BY <1>1, <1>2, KeptStep, Invariant, PTL DEF Spec, RefreshKeepsOthers

-----------------------------------------------------------------------------
(* A query and the claims of everybody *)

\* A query at work has dropped no claim on what it has not deleted.
ClaimsStay ==
  job = "query" =>
    /\ \A n \in Nodes(graph) \intersect Nodes(working) :
         graph.node[n].claims \subseteq working.node[n].claims
    /\ \A e \in Edges(graph) \intersect Edges(working) :
         graph.edge[e].claims \subseteq working.edge[e].claims

LEMMA NotedKeeps == \A claims : claims \subseteq note_user_ownership(claims)
BY DEF note_user_ownership

\* A record written by a query is new, or it keeps its claims.
LEMMA WriteKeepsClaims ==
  ASSUME Shape, ClaimsStay, job = "query", Operation
  PROVE  ClaimsStay'
<1> USE DEF Shape
<1>1. UNCHANGED <<graph, job>>
  BY DEF Operation, Operate, UpsertNode, CreateNode, SetNode, Delete, DetachDelete, WriteNode,
     UpsertEdge, SetEdge, DeleteEdge, CreateEdge, WriteEdge, RemoveContribution, Erase
<1> DEFINE NothingTaken ==
      /\ \A n \in Nodes(graph) \intersect Nodes(working') :
           n \in Nodes(working) /\ working.node[n].claims \subseteq working'.node[n].claims
      /\ \A e \in Edges(graph) \intersect Edges(working') :
           e \in Edges(working) /\ working.edge[e].claims \subseteq working'.edge[e].claims
<1>2. SUFFICES NothingTaken
  BY <1>1 DEF ClaimsStay, Nodes, Edges
<1>3. /\ \A n \in Nodes(working) : n \in NodeId /\ working.node[n] \in Node
      /\ \A e \in Edges(working) : e \in EdgeId /\ working.edge[e] \in Edge
  BY DEF Nodes, Edges, Graph
<1>4. ASSUME NEW n \in NodeId, CreateNode(n) PROVE NothingTaken
  BY <1>4 DEF CreateNode, Operate, Graph, Nodes, Edges
<1>5. ASSUME NEW e \in EdgeId, NEW s \in NodeId, NEW t \in NodeId, CreateEdge(e, s, t) PROVE NothingTaken
  BY <1>5 DEF CreateEdge, Operate, Graph, Nodes, Edges
<1>6. ASSUME NEW n \in NodeId, SetNode(n) PROVE NothingTaken
  <2>1. working' = [working EXCEPT !.node[n].claims = note_user_ownership(@)]
    BY <1>6 DEF SetNode, Operate
  <2>2. QED BY <1>3, <1>6, <2>1, NotedKeeps DEF SetNode, Graph, Node, Nodes, Edges
<1>7. ASSUME NEW e \in EdgeId, SetEdge(e) PROVE NothingTaken
  <2>1. working' = [working EXCEPT !.edge[e].claims = note_user_ownership(@)]
    BY <1>7 DEF SetEdge, Operate
  <2>2. QED BY <1>3, <1>7, <2>1, NotedKeeps DEF SetEdge, Graph, Edge, Nodes, Edges
<1>8. ASSUME NEW n \in NodeId, Delete(n) PROVE NothingTaken
  BY <1>8 DEF Delete, Operate, Graph, Nodes, Edges
<1>9. ASSUME NEW n \in NodeId, DetachDelete(n) PROVE NothingTaken
  BY <1>9 DEF DetachDelete, Operate, Graph, Nodes, Edges
<1>10. ASSUME NEW e \in EdgeId, DeleteEdge(e) PROVE NothingTaken
  BY <1>10 DEF DeleteEdge, Operate, Graph, Nodes, Edges
<1>11. QED
  BY <1>4, <1>5, <1>6, <1>7, <1>8, <1>9, <1>10 DEF Operation, Operate, UpsertNode, UpsertEdge,
     RemoveContribution, WriteNode, WriteEdge, Erase

LEMMA ClaimsStayStep == Inv /\ ClaimsStay /\ [Next]_vars => ClaimsStay'
<1> SUFFICES ASSUME Inv, ClaimsStay, [Next]_vars PROVE ClaimsStay'
  OBVIOUS
<1>1. CASE UNCHANGED vars
  BY <1>1 DEF vars, ClaimsStay, Nodes, Edges
<1>2. ASSUME NEW o \in Producer, Propose(o) \/ StaleBaseline(o) PROVE ClaimsStay'
  BY <1>2 DEF Propose, StaleBaseline, ClaimsStay, Nodes, Edges
<1>3. CASE Write
  <2>1. graph' = working'
    BY <1>3 DEF Write, Begin, Inv
  <2>2. QED BY <2>1 DEF ClaimsStay
<1>4. CASE Operation
  <2>1. job' = job
    BY <1>4, OperationKeeps DEF Inv
  <2>2. QED BY <1>4, <2>1, WriteKeepsClaims DEF Inv, ClaimsStay
<1>5. QED
  BY <1>1, <1>2, <1>3, <1>4 DEF Next, Apply, Adopt, Begin, Refuse, Finish, End, ClaimsStay

\* A query leaves every claim of the others on what it does not delete, whatever
\* it writes and in any order.
THEOREM QueryAlwaysKeepsClaims == Spec => QueryKeepsClaims
<1>1. Init => ClaimsStay
  BY DEF Init, ClaimsStay
<1>2. Inv /\ ClaimsStay /\ [Next]_vars =>
        [Finish /\ job = "query" =>
           /\ \A n \in Nodes(graph) \intersect Nodes(graph') :
                graph.node[n].claims \subseteq graph'.node[n].claims
           /\ \A e \in Edges(graph) \intersect Edges(graph') :
                graph.edge[e].claims \subseteq graph'.edge[e].claims]_vars
  BY DEF Finish, Outcomes, ClaimsStay
<1>3. QED BY <1>1, <1>2, ClaimsStayStep, Invariant, PTL DEF Spec, QueryKeepsClaims

-----------------------------------------------------------------------------
(* The counters *)

\* The change set's counters of deletions count what it has retired, and what is
\* retired is not there.
Counted ==
  /\ summary \in [nodesCreated : Nat, nodesDeleted : Nat, edgesCreated : Nat, edgesDeleted : Nat]
  /\ job = "idle" => retired = Blank /\ summary = Zero
  /\ job = "apply" =>
       /\ retired.nodes \intersect Nodes(working) = {}
       /\ retired.edges \intersect Edges(working) = {}
       /\ summary.nodesDeleted = Cardinality(retired.nodes)
       /\ summary.edgesDeleted = Cardinality(retired.edges)

LEMMA FiniteIds ==
  /\ \A s \in SUBSET NodeId : IsFiniteSet(s) /\ Cardinality(s) \in Nat
  /\ \A s \in SUBSET EdgeId : IsFiniteSet(s) /\ Cardinality(s) \in Nat
BY ApplyAssumption, FS_Subset, FS_CardinalityType

\* A subtraction of upsert_node() is one of something counted.
LEMMA RestoreCounts ==
  ASSUME NEW s, IsFiniteSet(s), NEW x \in s
  PROVE  Cardinality(s \ {x}) = Cardinality(s) - 1 /\ Cardinality(s \ {x}) \in Nat
BY FS_RemoveElement, FS_CardinalityType

LEMMA RetireCounts ==
  ASSUME NEW s, IsFiniteSet(s), NEW t, IsFiniteSet(t), s \intersect t = {}
  PROVE  Cardinality(s \union t) = Cardinality(s) + Cardinality(t)
<1>1. Cardinality(s \intersect t) = 0
  BY FS_EmptySet
<1>2. Cardinality(s) \in Nat /\ Cardinality(t) \in Nat
  BY FS_CardinalityType
<1>3. Cardinality(s \union t) = Cardinality(s) + Cardinality(t) - Cardinality(s \intersect t)
  BY FS_Union
<1>4. QED BY <1>1, <1>2, <1>3

Summary == [nodesCreated : Nat, nodesDeleted : Nat, edgesCreated : Nat, edgesDeleted : Nat]

LEMMA DeletedType ==
  ASSUME NEW c \in Summary, NEW a \in Nat, NEW b \in Nat
  PROVE  LET d == [c EXCEPT !.nodesDeleted = @ + a, !.edgesDeleted = @ + b]
         IN /\ d \in Summary
            /\ d.nodesDeleted = c.nodesDeleted + a
            /\ d.edgesDeleted = c.edgesDeleted + b
<1> DEFINE d == [c EXCEPT !.nodesDeleted = @ + a, !.edgesDeleted = @ + b]
<1>1. /\ c.nodesDeleted \in Nat /\ c.edgesDeleted \in Nat
      /\ c.nodesDeleted + a \in Nat /\ c.edgesDeleted + b \in Nat
  BY DEF Summary
<1>2. /\ DOMAIN d = DOMAIN c
      /\ d.nodesCreated = c.nodesCreated /\ d.edgesCreated = c.edgesCreated
      /\ d.nodesDeleted = c.nodesDeleted + a /\ d.edgesDeleted = c.edgesDeleted + b
  BY DEF Summary
<1>3. d \in Summary
  BY <1>1 DEF Summary
<1>4. QED BY <1>2, <1>3

LEMMA CountedStep == Inv /\ Counted /\ [Next]_vars => Counted'
<1> SUFFICES ASSUME Inv, Counted, [Next]_vars
             PROVE  Counted'
  OBVIOUS
<1> USE DEF Summary
<1>0. Shape
  BY DEF Inv
<1>1. CASE UNCHANGED vars
  BY <1>1 DEF vars, Counted, Nodes, Edges
<1>2. ASSUME NEW o \in Producer, Propose(o) \/ StaleBaseline(o) PROVE Counted'
  BY <1>2 DEF Propose, StaleBaseline, Counted, Nodes, Edges
<1>3. ASSUME NEW o \in Producer, Apply(o) PROVE Counted'
  BY <1>3, FS_EmptySet DEF Apply, Begin, Counted, Nodes, Edges, Blank, Zero
<1>4. CASE Write \/ Adopt
  BY <1>4 DEF Write, Adopt, Begin, Counted
<1>5. CASE Refuse \/ Finish
  BY <1>5 DEF Refuse, Finish, End, Counted, Zero
<1>6. ASSUME NEW n \in NodeId, NEW u \in UnitOf(owner), UpsertNode(n, u) PROVE Counted'
  <2>1. job = "apply" /\ job' = "apply" /\ working' = Claiming(n, u)
    BY <1>6 DEF UpsertNode, Operate
  <2>2. Nodes(working') \subseteq Nodes(working) \union {n} /\ Edges(working') = Edges(working)
    BY <1>0, <2>1 DEF Claiming, Shape, Graph, Nodes, Edges
  <2>3. /\ retired.nodes \in SUBSET NodeId /\ retired.edges \in SUBSET EdgeId
        /\ retired'.nodes = retired.nodes \ {n} /\ retired'.edges = retired.edges
    BY <1>0, <1>6 DEF UpsertNode, Shape, Ids
  <2>4. /\ retired'.nodes \intersect Nodes(working') = {}
        /\ retired'.edges \intersect Edges(working') = {}
    BY <2>1, <2>2, <2>3 DEF Counted
  <2>5. /\ summary' \in Summary
        /\ summary'.nodesDeleted = Cardinality(retired'.nodes)
        /\ summary'.edgesDeleted = summary.edgesDeleted
    <3>1. summary \in Summary /\ summary.nodesDeleted = Cardinality(retired.nodes)
      BY <2>1 DEF Counted
    <3>2. CASE n \in Nodes(working)
      <4>1. n \notin retired.nodes
        BY <2>1, <3>2 DEF Counted
      <4>2. retired'.nodes = retired.nodes /\ summary' = summary
        BY <1>6, <2>3, <3>2, <4>1 DEF UpsertNode
      <4>3. QED BY <3>1, <4>2
    <3>3. CASE n \notin Nodes(working) /\ n \in retired.nodes
      <4>1. summary' = [summary EXCEPT !.nodesDeleted = @ - 1]
        BY <1>6, <3>3 DEF UpsertNode
      <4>2. /\ Cardinality(retired'.nodes) = Cardinality(retired.nodes) - 1
            /\ Cardinality(retired'.nodes) \in Nat
        BY <2>3, <3>3, FiniteIds, RestoreCounts
      <4>3. QED BY <3>1, <4>1, <4>2
    <3>4. CASE n \notin Nodes(working) /\ n \notin retired.nodes
      <4>1. summary' = [summary EXCEPT !.nodesCreated = @ + 1]
        BY <1>6, <3>4 DEF UpsertNode
      <4>2. retired'.nodes = retired.nodes
        BY <2>3, <3>4
      <4>3. QED BY <3>1, <4>1, <4>2
    <3>5. QED BY <3>2, <3>3, <3>4
  <2>6. QED BY <2>1, <2>3, <2>4, <2>5 DEF Counted
<1>7. ASSUME NEW e \in EdgeId, NEW s \in NodeId, NEW t \in NodeId, NEW u \in UnitOf(owner),
             UpsertEdge(e, s, t, u)
      PROVE  Counted'
  <2>1. job = "apply" /\ job' = "apply" /\ working' = ClaimingEdge(e, s, t, u)
    BY <1>7 DEF UpsertEdge, Operate
  <2>2. Edges(working') \subseteq Edges(working) \union {e} /\ Nodes(working') = Nodes(working)
    <3>1. CASE e \in Edges(working)
      BY <1>0, <2>1, <3>1 DEF ClaimingEdge, Shape, Graph, Nodes, Edges
    <3>2. CASE e \notin Edges(working)
      BY <1>0, <2>1, <3>2 DEF ClaimingEdge, Shape, Graph, Nodes, Edges
    <3>3. QED BY <3>1, <3>2
  <2>3. /\ retired.nodes \in SUBSET NodeId /\ retired.edges \in SUBSET EdgeId
        /\ retired'.edges = retired.edges \ {e} /\ retired'.nodes = retired.nodes
    BY <1>0, <1>7 DEF UpsertEdge, Shape, Ids
  <2>4. /\ retired'.nodes \intersect Nodes(working') = {}
        /\ retired'.edges \intersect Edges(working') = {}
    BY <2>1, <2>2, <2>3 DEF Counted
  <2>5. /\ summary' \in Summary
        /\ summary'.edgesDeleted = Cardinality(retired'.edges)
        /\ summary'.nodesDeleted = summary.nodesDeleted
    <3>1. summary \in Summary /\ summary.edgesDeleted = Cardinality(retired.edges)
      BY <2>1 DEF Counted
    <3>2. CASE e \in Edges(working)
      <4>1. e \notin retired.edges
        BY <2>1, <3>2 DEF Counted
      <4>2. retired'.edges = retired.edges /\ summary' = summary
        BY <1>7, <2>3, <3>2, <4>1 DEF UpsertEdge
      <4>3. QED BY <3>1, <4>2
    <3>3. CASE e \notin Edges(working) /\ e \in retired.edges
      <4>1. summary' = [summary EXCEPT !.edgesDeleted = @ - 1]
        BY <1>7, <3>3 DEF UpsertEdge
      <4>2. /\ Cardinality(retired'.edges) = Cardinality(retired.edges) - 1
            /\ Cardinality(retired'.edges) \in Nat
        BY <2>3, <3>3, FiniteIds, RestoreCounts
      <4>3. QED BY <3>1, <4>1, <4>2
    <3>4. CASE e \notin Edges(working) /\ e \notin retired.edges
      <4>1. summary' = [summary EXCEPT !.edgesCreated = @ + 1]
        BY <1>7, <3>4 DEF UpsertEdge
      <4>2. retired'.edges = retired.edges
        BY <2>3, <3>4
      <4>3. QED BY <3>1, <4>1, <4>2
    <3>5. QED BY <3>2, <3>3, <3>4
  <2>6. QED BY <2>1, <2>3, <2>4, <2>5 DEF Counted
<1>8. ASSUME NEW u \in UnitOf(owner), RemoveContribution(u) PROVE Counted'
  <2>1. job = "apply" /\ job' = "apply" /\ working' = Withdrawn(u)
    BY <1>8 DEF RemoveContribution, Operate
  <2>2. /\ Nodes(working') = Nodes(working) \ OrphanedNodes(u)
        /\ Edges(working') = Edges(working) \ OrphanedEdges(u)
    BY <1>0, <2>1, WithdrawnKeeps
  <2>3. /\ OrphanedNodes(u) \subseteq Nodes(working) /\ Nodes(working) \subseteq NodeId
        /\ OrphanedEdges(u) \subseteq Edges(working) /\ Edges(working) \subseteq EdgeId
    BY DEF OrphanedNodes, OrphanedEdges, Touching, Nodes, Edges
  <2>4. /\ retired.nodes \in SUBSET NodeId /\ retired.edges \in SUBSET EdgeId
        /\ retired'.nodes = retired.nodes \union OrphanedNodes(u)
        /\ retired'.edges = retired.edges \union OrphanedEdges(u)
    BY <1>0, <1>8 DEF RemoveContribution, Shape, Ids
  <2>5. /\ retired'.nodes \intersect Nodes(working') = {}
        /\ retired'.edges \intersect Edges(working') = {}
        /\ retired.nodes \intersect OrphanedNodes(u) = {}
        /\ retired.edges \intersect OrphanedEdges(u) = {}
    BY <2>1, <2>2, <2>3, <2>4 DEF Counted
  <2>6. /\ Cardinality(retired'.nodes) = Cardinality(retired.nodes) + Cardinality(OrphanedNodes(u))
        /\ Cardinality(retired'.edges) = Cardinality(retired.edges) + Cardinality(OrphanedEdges(u))
    <3>1. /\ IsFiniteSet(retired.nodes) /\ IsFiniteSet(OrphanedNodes(u))
          /\ IsFiniteSet(retired.edges) /\ IsFiniteSet(OrphanedEdges(u))
      BY <2>3, <2>4, FiniteIds
    <3>2. QED BY <2>4, <2>5, <3>1, RetireCounts
  <2>7. Cardinality(OrphanedNodes(u)) \in Nat /\ Cardinality(OrphanedEdges(u)) \in Nat
    BY <2>3, FiniteIds
  <2>8. summary' = [summary EXCEPT !.nodesDeleted = @ + Cardinality(OrphanedNodes(u)),
                                   !.edgesDeleted = @ + Cardinality(OrphanedEdges(u))]
    BY <1>8 DEF RemoveContribution
  <2>9. /\ summary \in Summary
        /\ summary.nodesDeleted = Cardinality(retired.nodes)
        /\ summary.edgesDeleted = Cardinality(retired.edges)
    BY <2>1 DEF Counted
  <2> HIDE DEF Summary
  <2>10. /\ summary' \in Summary
         /\ summary'.nodesDeleted = summary.nodesDeleted + Cardinality(OrphanedNodes(u))
         /\ summary'.edgesDeleted = summary.edgesDeleted + Cardinality(OrphanedEdges(u))
    BY <2>7, <2>8, <2>9, DeletedType
  <2>11. QED BY <2>1, <2>5, <2>6, <2>9, <2>10 DEF Counted, Summary
<1>9. ASSUME NEW n \in NodeId,
             \/ CreateNode(n) \/ SetNode(n) \/ Delete(n) \/ DetachDelete(n) \/ WriteNode(n)
      PROVE  Counted'
  <2>1. Touching(working, {n}) \in SUBSET EdgeId
    BY DEF Touching, Edges
  <2>2. Cardinality(Touching(working, {n})) \in Nat
    BY <2>1, FiniteIds
  <2>3. summary \in Summary
    BY DEF Counted
  <2>4. job' \in {"query", "adopt"}
    BY <1>9 DEF CreateNode, SetNode, Delete, DetachDelete, WriteNode, Operate
  <2>5. CASE DetachDelete(n)
    <3>1. summary' = [summary EXCEPT !.nodesDeleted = @ + 1,
                                     !.edgesDeleted = @ + Cardinality(Touching(working, {n}))]
      BY <2>5 DEF DetachDelete
    <3> HIDE DEF Summary
    <3>2. summary' \in Summary
      BY <2>2, <2>3, <3>1, DeletedType
    <3>3. QED BY <2>4, <3>2 DEF Counted, Summary
  <2>6. CASE CreateNode(n) \/ SetNode(n) \/ Delete(n) \/ WriteNode(n)
    <3>1. summary' \in Summary
      BY <2>3, <2>6 DEF CreateNode, SetNode, Delete, WriteNode
    <3>2. QED BY <2>4, <3>1 DEF Counted
  <2>7. QED BY <1>9, <2>5, <2>6
<1>10. ASSUME NEW e \in EdgeId, NEW s \in NodeId, NEW t \in NodeId,
              SetEdge(e) \/ DeleteEdge(e) \/ CreateEdge(e, s, t) \/ WriteEdge(e, s, t)
       PROVE  Counted'
  <2>1. summary' \in Summary /\ job' \in {"query", "adopt"}
    BY <1>10 DEF Counted, SetEdge, DeleteEdge, CreateEdge, WriteEdge, Operate
  <2>2. QED BY <2>1 DEF Counted
<1>11. CASE Erase
  <2>1. summary' = summary /\ job' = "adopt"
    BY <1>11 DEF Erase, Operate
  <2>2. QED BY <2>1 DEF Counted
<1>12. CASE Operation
  <2>1. (\E e \in EdgeId : SetEdge(e) \/ DeleteEdge(e)) => Counted'
    <3> SUFFICES ASSUME NEW e \in EdgeId, SetEdge(e) \/ DeleteEdge(e) PROVE Counted'
      OBVIOUS
    <3>1. e \in Edges(working)
      BY DEF SetEdge, DeleteEdge
    <3>2. \E s \in NodeId : TRUE
      BY <1>0, <3>1 DEF Shape, Graph, Edges, Edge
    <3>3. QED BY <1>10, <3>2
  <2>2. QED
    BY <1>6, <1>7, <1>8, <1>9, <1>10, <1>11, <1>12, <2>1 DEF Operation
<1>13. QED
  BY <1>1, <1>2, <1>3, <1>4, <1>5, <1>12 DEF Next

\* Every variable keeps its kind, the counters included: the subtractions of
\* upsert_node() and upsert_edge() never underflow.  TypeOK.
THEOREM TypeCorrect == Spec => []TypeOK
<1>1. Init => Counted
  BY DEF Init, Counted, Zero
<1>2. Inv /\ Counted => TypeOK
  BY DEF Inv, Shape, Counted, TypeOK
<1>3. QED BY <1>1, <1>2, CountedStep, Invariant, PTL DEF Spec
-----------------------------------------------------------------------------
(* The summary *)

\* Creations less deletions are what the copy has more than the graph.
Balanced ==
  job \in {"apply", "query"} =>
    /\ summary.nodesCreated - summary.nodesDeleted
         = Cardinality(Nodes(working)) - Cardinality(Nodes(graph))
    /\ summary.edgesCreated - summary.edgesDeleted
         = Cardinality(Edges(working)) - Cardinality(Edges(graph))

\* While no withdrawal follows an upsert, what is retired is what the graph has and
\* the copy has not.
Retiring ==
  job = "apply" /\ tidy =>
    /\ retired.nodes = Nodes(graph) \ Nodes(working)
    /\ retired.edges = Edges(graph) \ Edges(working)
    /\ drafted = Blank => /\ Nodes(working) \subseteq Nodes(graph)
                          /\ Edges(working) \subseteq Edges(graph)

LEMMA FiniteRecords ==
  ASSUME NEW g
  PROVE  /\ Nodes(g) \in SUBSET NodeId /\ Edges(g) \in SUBSET EdgeId
         /\ IsFiniteSet(Nodes(g)) /\ Cardinality(Nodes(g)) \in Nat
         /\ IsFiniteSet(Edges(g)) /\ Cardinality(Edges(g)) \in Nat
<1>1. Nodes(g) \in SUBSET NodeId /\ Edges(g) \in SUBSET EdgeId
  BY DEF Nodes, Edges
<1>2. QED BY <1>1, FiniteIds

LEMMA OneMore ==
  ASSUME NEW s, IsFiniteSet(s), NEW x, x \notin s
  PROVE  Cardinality(s \union {x}) = Cardinality(s) + 1
BY FS_AddElement

LEMMA Fewer ==
  ASSUME NEW s, IsFiniteSet(s), NEW t \in SUBSET s
  PROVE  Cardinality(s \ t) = Cardinality(s) - Cardinality(t)
<1>1. IsFiniteSet(t) /\ IsFiniteSet(s \ t)
  BY FS_Subset
<1>2. s = (s \ t) \union t /\ (s \ t) \intersect t = {}
  OBVIOUS
<1>3. Cardinality(s) = Cardinality(s \ t) + Cardinality(t)
  BY <1>1, <1>2, RetireCounts
<1>4. Cardinality(s \ t) \in Nat /\ Cardinality(t) \in Nat
  BY <1>1, FS_CardinalityType
<1>5. QED BY <1>3, <1>4

\* The difference of two sizes is that of what each set has alone.
LEMMA DifferenceOfSizes ==
  ASSUME NEW s, IsFiniteSet(s), NEW t, IsFiniteSet(t)
  PROVE  Cardinality(s) - Cardinality(t) = Cardinality(s \ t) - Cardinality(t \ s)
<1>1. s \intersect t \in SUBSET s /\ s \intersect t \in SUBSET t
  OBVIOUS
<1>2. /\ Cardinality(s \ (s \intersect t)) = Cardinality(s) - Cardinality(s \intersect t)
      /\ Cardinality(t \ (s \intersect t)) = Cardinality(t) - Cardinality(s \intersect t)
  BY <1>1, Fewer
<1>3. /\ Cardinality(s \ t) = Cardinality(s) - Cardinality(s \intersect t)
      /\ Cardinality(t \ s) = Cardinality(t) - Cardinality(s \intersect t)
  <2>1. s \ t = s \ (s \intersect t) /\ t \ s = t \ (s \intersect t)
    OBVIOUS
  <2>2. QED BY <1>2, <2>1, Zenon
<1>4. /\ Cardinality(s) \in Nat /\ Cardinality(t) \in Nat
      /\ Cardinality(s \intersect t) \in Nat
  BY <1>1, FS_Subset, FS_CardinalityType
<1>5. QED BY <1>3, <1>4

\* The records of the copy once a change set claims one of them.
LEMMA ClaimedRecords ==
  ASSUME Shape, NEW u \in UnitOf(owner)
  PROVE  /\ \A n \in NodeId : /\ Nodes(Claiming(n, u)) = Nodes(working) \union {n}
                              /\ Edges(Claiming(n, u)) = Edges(working)
         /\ \A e \in EdgeId : \A s, t \in NodeId :
              /\ Nodes(ClaimingEdge(e, s, t, u)) = Nodes(working)
              /\ Edges(ClaimingEdge(e, s, t, u)) = Edges(working) \union {e}
<1>1. Mine(u) \in Claim
  BY ClaimType DEF Shape
<1>2. ASSUME NEW n \in NodeId
      PROVE  /\ Nodes(Claiming(n, u)) = Nodes(working) \union {n}
             /\ Edges(Claiming(n, u)) = Edges(working)
  <2> DEFINE r == [claims |-> {Mine(u)} \union IF n \in Nodes(working)
                                               THEN working.node[n].claims ELSE {}]
  <2>1. n \in Nodes(working) => working.node[n] \in Node
    BY DEF Shape, Graph, Nodes
  <2>2. r \in Node
    BY <1>1, <2>1 DEF Node
  <2>3. Claiming(n, u) = PutNode(working, n, r)
    BY DEF Claiming, PutNode
  <2> HIDE DEF r
  <2>4. QED BY <2>2, <2>3, PutNodeKeeps DEF Shape
<1>3. ASSUME NEW e \in EdgeId, NEW s \in NodeId, NEW t \in NodeId
      PROVE  /\ Nodes(ClaimingEdge(e, s, t, u)) = Nodes(working)
             /\ Edges(ClaimingEdge(e, s, t, u)) = Edges(working) \union {e}
  <2> DEFINE h == ClaimingEdge(e, s, t, u)
  <2>1. /\ h.node = working.node
        /\ \A f \in EdgeId \ {e} : h.edge[f] = working.edge[f]
    BY DEF ClaimingEdge, Shape, Graph
  <2>2. h.edge[e] \in Edge
    <3>1. CASE e \in Edges(working)
      <4>1. working.edge[e] \in Edge
        BY <3>1 DEF Shape, Graph, Edges
      <4>2. h.edge[e] = [working.edge[e] EXCEPT !.claims = @ \union {Mine(u)}]
        BY <3>1 DEF ClaimingEdge, Shape, Graph
      <4>3. QED BY <1>1, <4>1, <4>2 DEF Edge
    <3>2. CASE e \notin Edges(working)
      BY <1>1, <3>2 DEF ClaimingEdge, Shape, Graph, Edge
    <3>3. QED BY <3>1, <3>2
  <2> HIDE DEF h
  <2>3. QED BY <2>1, <2>2, ApplyAssumption DEF Nodes, Edges, h
<1>4. QED BY <1>2, <1>3

LEMMA BalancedStep == Inv /\ Counted /\ Balanced /\ [Next]_vars => Balanced'
<1> SUFFICES ASSUME Inv, Counted, Balanced, [Next]_vars
             PROVE  Balanced'
  OBVIOUS
<1>0. Shape /\ summary \in Summary /\ summary' \in Summary
  BY CountedStep DEF Inv, Counted, Summary
<1>1. CASE UNCHANGED vars
  BY <1>1 DEF vars, Balanced, Nodes, Edges
<1>2. ASSUME NEW o \in Producer, Propose(o) \/ StaleBaseline(o) PROVE Balanced'
  BY <1>2 DEF Propose, StaleBaseline, Balanced, Nodes, Edges
<1>3. ASSUME job = "idle", UNCHANGED <<graph, working, summary>> PROVE Balanced'
  <2>1. working = graph /\ summary = Zero
    BY <1>3 DEF Inv, Counted
  <2>2. working' = graph' /\ summary' = Zero
    BY <1>3, <2>1
  <2>3. Cardinality(Nodes(working')) \in Nat /\ Cardinality(Edges(working')) \in Nat
    BY FiniteRecords
  <2>4. QED BY <2>2, <2>3 DEF Balanced, Zero
<1>4. CASE Write \/ Adopt \/ \E o \in Producer : Apply(o)
  BY <1>3, <1>4 DEF Write, Adopt, Apply, Begin
<1>5. CASE Refuse \/ Finish
  BY <1>5 DEF Refuse, Finish, End, Balanced
\* An operation is balanced when its counters move as the records do.
<1>6. ASSUME job \in {"apply", "query"}, job' = job, graph' = graph,
             summary'.nodesCreated - summary'.nodesDeleted
               = (summary.nodesCreated - summary.nodesDeleted)
                 + (Cardinality(Nodes(working')) - Cardinality(Nodes(working))),
             summary'.edgesCreated - summary'.edgesDeleted
               = (summary.edgesCreated - summary.edgesDeleted)
                 + (Cardinality(Edges(working')) - Cardinality(Edges(working)))
      PROVE  Balanced'
  <2>1. /\ summary.nodesCreated - summary.nodesDeleted
             = Cardinality(Nodes(working)) - Cardinality(Nodes(graph))
        /\ summary.edgesCreated - summary.edgesDeleted
             = Cardinality(Edges(working)) - Cardinality(Edges(graph))
    BY <1>6 DEF Balanced
  <2>2. Nodes(graph') = Nodes(graph) /\ Edges(graph') = Edges(graph)
    BY <1>6 DEF Nodes, Edges
  <2>3. \A g \in {graph, working, working'} :
          Cardinality(Nodes(g)) \in Nat /\ Cardinality(Edges(g)) \in Nat
    BY FiniteRecords
  <2>4. QED BY <1>6, <2>1, <2>2, <2>3 DEF Balanced
<1>7. ASSUME job \in {"apply", "query"}, job' = job, graph' = graph, summary' = summary,
             Nodes(working') = Nodes(working), Edges(working') = Edges(working)
      PROVE  Balanced'
  BY <1>7 DEF Balanced, Nodes, Edges
<1>8. ASSUME NEW n \in NodeId, NEW u \in UnitOf(owner), UpsertNode(n, u) PROVE Balanced'
  <2>1. /\ job = "apply" /\ job' = job /\ graph' = graph /\ working' = Claiming(n, u)
        /\ summary' = IF n \in Nodes(working) THEN summary
                      ELSE IF n \in retired.nodes THEN [summary EXCEPT !.nodesDeleted = @ - 1]
                      ELSE [summary EXCEPT !.nodesCreated = @ + 1]
    BY <1>8 DEF UpsertNode, Operate
  <2>2. Nodes(working') = Nodes(working) \union {n} /\ Edges(working') = Edges(working)
    BY <1>0, <2>1, ClaimedRecords
  <2>3. CASE n \in Nodes(working)
    BY <1>7, <2>1, <2>2, <2>3
  <2>4. CASE n \notin Nodes(working)
    <3>1. /\ Cardinality(Nodes(working')) = Cardinality(Nodes(working)) + 1
          /\ Cardinality(Nodes(working)) \in Nat /\ Cardinality(Edges(working)) \in Nat
      BY <2>2, <2>4, OneMore, FiniteRecords
    <3>2. /\ summary'.nodesCreated - summary'.nodesDeleted
               = (summary.nodesCreated - summary.nodesDeleted) + 1
          /\ summary'.edgesCreated - summary'.edgesDeleted
               = summary.edgesCreated - summary.edgesDeleted
          /\ summary.edgesCreated - summary.edgesDeleted \in Int
      BY <1>0, <2>1, <2>4 DEF Summary
    <3>3. QED BY <1>6, <2>1, <2>2, <3>1, <3>2
  <2>5. QED BY <2>3, <2>4
<1>9. ASSUME NEW e \in EdgeId, NEW s \in NodeId, NEW t \in NodeId, NEW u \in UnitOf(owner),
             UpsertEdge(e, s, t, u)
      PROVE  Balanced'
  <2>1. /\ job = "apply" /\ job' = job /\ graph' = graph /\ working' = ClaimingEdge(e, s, t, u)
        /\ summary' = IF e \in Edges(working) THEN summary
                      ELSE IF e \in retired.edges THEN [summary EXCEPT !.edgesDeleted = @ - 1]
                      ELSE [summary EXCEPT !.edgesCreated = @ + 1]
    BY <1>9 DEF UpsertEdge, Operate
  <2>2. Edges(working') = Edges(working) \union {e} /\ Nodes(working') = Nodes(working)
    BY <1>0, <2>1, ClaimedRecords
  <2>3. CASE e \in Edges(working)
    BY <1>7, <2>1, <2>2, <2>3
  <2>4. CASE e \notin Edges(working)
    <3>1. /\ Cardinality(Edges(working')) = Cardinality(Edges(working)) + 1
          /\ Cardinality(Edges(working)) \in Nat /\ Cardinality(Nodes(working)) \in Nat
      BY <2>2, <2>4, OneMore, FiniteRecords
    <3>2. /\ summary'.edgesCreated - summary'.edgesDeleted
               = (summary.edgesCreated - summary.edgesDeleted) + 1
          /\ summary'.nodesCreated - summary'.nodesDeleted
               = summary.nodesCreated - summary.nodesDeleted
          /\ summary.nodesCreated - summary.nodesDeleted \in Int
      BY <1>0, <2>1, <2>4 DEF Summary
    <3>3. QED BY <1>6, <2>1, <2>2, <3>1, <3>2
  <2>5. QED BY <2>3, <2>4
\* A deletion of some nodes and edges, counted.
<1>10. ASSUME NEW ns \in SUBSET Nodes(working), NEW es \in SUBSET Edges(working),
              job \in {"apply", "query"}, job' = job, graph' = graph,
              Nodes(working') = Nodes(working) \ ns, Edges(working') = Edges(working) \ es,
              summary'.nodesDeleted = summary.nodesDeleted + Cardinality(ns),
              summary'.edgesDeleted = summary.edgesDeleted + Cardinality(es),
              summary'.nodesCreated = summary.nodesCreated,
              summary'.edgesCreated = summary.edgesCreated
       PROVE  Balanced'
  <2>1. /\ Cardinality(Nodes(working')) = Cardinality(Nodes(working)) - Cardinality(ns)
        /\ Cardinality(Edges(working')) = Cardinality(Edges(working)) - Cardinality(es)
    BY <1>10, Fewer, FiniteRecords
  <2>2. /\ Cardinality(Nodes(working)) \in Nat /\ Cardinality(Edges(working)) \in Nat
        /\ Cardinality(ns) \in Nat /\ Cardinality(es) \in Nat
    BY <1>10, FiniteRecords, FS_Subset, FS_CardinalityType
  <2>3. /\ summary.nodesCreated \in Nat /\ summary.nodesDeleted \in Nat
        /\ summary.edgesCreated \in Nat /\ summary.edgesDeleted \in Nat
    BY <1>0 DEF Summary
  <2>4. QED BY <1>6, <1>10, <2>1, <2>2, <2>3
<1>11. ASSUME NEW u \in UnitOf(owner), RemoveContribution(u) PROVE Balanced'
  <2>1. /\ job = "apply" /\ job' = job /\ graph' = graph /\ working' = Withdrawn(u)
        /\ summary' = [summary EXCEPT !.nodesDeleted = @ + Cardinality(OrphanedNodes(u)),
                                      !.edgesDeleted = @ + Cardinality(OrphanedEdges(u))]
    BY <1>11 DEF RemoveContribution, Operate
  <2>2. /\ Nodes(working') = Nodes(working) \ OrphanedNodes(u)
        /\ Edges(working') = Edges(working) \ OrphanedEdges(u)
    BY <1>0, <2>1, WithdrawnKeeps
  <2>3. OrphanedNodes(u) \in SUBSET Nodes(working) /\ OrphanedEdges(u) \in SUBSET Edges(working)
    BY DEF OrphanedNodes, OrphanedEdges, Touching
  <2>4. /\ summary'.nodesDeleted = summary.nodesDeleted + Cardinality(OrphanedNodes(u))
        /\ summary'.edgesDeleted = summary.edgesDeleted + Cardinality(OrphanedEdges(u))
        /\ summary'.nodesCreated = summary.nodesCreated
        /\ summary'.edgesCreated = summary.edgesCreated
    BY <1>0, <2>1 DEF Summary
  <2>5. QED BY <1>10, <2>1, <2>2, <2>3, <2>4
<1>12. ASSUME NEW n \in NodeId, CreateNode(n) \/ SetNode(n) \/ Delete(n) \/ DetachDelete(n)
       PROVE  Balanced'
  <2>1. job = "query" /\ job' = job /\ graph' = graph
    BY <1>12 DEF CreateNode, SetNode, Delete, DetachDelete, Operate
  <2>2. CASE CreateNode(n)
    <3>1. /\ n \notin Nodes(working)
          /\ working' = PutNode(working, n, [claims |-> {user_contribution}])
          /\ summary' = [summary EXCEPT !.nodesCreated = @ + 1]
      BY <2>2 DEF CreateNode, Operate, PutNode
    <3>2. Nodes(working') = Nodes(working) \union {n} /\ Edges(working') = Edges(working)
      BY <1>0, <3>1, ClaimType, PutNodeKeeps DEF Shape, Node
    <3>3. /\ Cardinality(Nodes(working')) = Cardinality(Nodes(working)) + 1
          /\ Cardinality(Nodes(working)) \in Nat /\ Cardinality(Edges(working)) \in Nat
      BY <3>1, <3>2, OneMore, FiniteRecords
    <3>4. /\ summary'.nodesCreated - summary'.nodesDeleted
               = (summary.nodesCreated - summary.nodesDeleted) + 1
          /\ summary'.edgesCreated - summary'.edgesDeleted
               = summary.edgesCreated - summary.edgesDeleted
          /\ summary.edgesCreated - summary.edgesDeleted \in Int
      BY <1>0, <3>1 DEF Summary
    <3>5. QED BY <1>6, <2>1, <3>2, <3>3, <3>4
  <2>3. CASE SetNode(n)
    <3>1. /\ Nodes(working') = Nodes(working) /\ Edges(working') = Edges(working)
          /\ summary' = summary
      <4>1. /\ working' = [working EXCEPT !.node[n].claims = note_user_ownership(@)]
            /\ n \in Nodes(working) /\ summary' = summary
        BY <2>3 DEF SetNode, Operate
      <4>2. working.node[n] \in Node
        BY <1>0, <4>1 DEF Shape, Graph, Nodes
      <4>3. /\ working'.edge = working.edge
            /\ \A m \in NodeId \ {n} : working'.node[m] = working.node[m]
            /\ working'.node[n] = [claims |-> note_user_ownership(working.node[n].claims)]
        BY <1>0, <4>1, <4>2 DEF Shape, Graph, Node
      <4>4. note_user_ownership(working.node[n].claims) \in SUBSET Claim
        BY <1>0, <4>2, NoteType DEF Node
      <4>5. working'.node[n] # Absent
        BY <4>3, <4>4, ApplyAssumption DEF Node
      <4>6. QED BY <4>1, <4>3, <4>5 DEF Nodes, Edges
    <3>2. QED BY <1>7, <2>1, <3>1
  <2>4. CASE Delete(n)
    <3>1. /\ n \in Nodes(working)
          /\ working' = PutNode(working, n, Absent)
          /\ summary' = [summary EXCEPT !.nodesDeleted = @ + 1]
      BY <2>4 DEF Delete, Operate, PutNode
    <3>2. Nodes(working') = Nodes(working) \ {n} /\ Edges(working') = Edges(working) \ {}
      BY <1>0, <3>1 DEF PutNode, Shape, Graph, Nodes, Edges
    <3>3. Cardinality({n}) = 1 /\ Cardinality({}) = 0
      BY FS_Singleton, FS_EmptySet
    <3>4. /\ summary'.nodesDeleted = summary.nodesDeleted + Cardinality({n})
          /\ summary'.edgesDeleted = summary.edgesDeleted + Cardinality({})
          /\ summary'.nodesCreated = summary.nodesCreated
          /\ summary'.edgesCreated = summary.edgesCreated
      BY <1>0, <3>1, <3>3 DEF Summary
    <3>5. {n} \in SUBSET Nodes(working) /\ {} \in SUBSET Edges(working)
      BY <3>1
    <3>6. QED BY <1>10, <2>1, <3>2, <3>4, <3>5
  <2>5. CASE DetachDelete(n)
    <3> DEFINE incident == Touching(working, {n})
    <3>1. /\ n \in Nodes(working)
          /\ working' = [node |-> [working.node EXCEPT ![n] = Absent],
                         edge |-> [e \in EdgeId |-> IF e \in incident THEN Absent ELSE working.edge[e]]]
          /\ summary' = [summary EXCEPT !.nodesDeleted = @ + 1,
                                        !.edgesDeleted = @ + Cardinality(incident)]
      BY <2>5 DEF DetachDelete, Operate
    <3>2. {n} \in SUBSET Nodes(working) /\ incident \in SUBSET Edges(working)
      BY <3>1 DEF Touching
    <3> HIDE DEF incident
    <3>3. Nodes(working') = Nodes(working) \ {n} /\ Edges(working') = Edges(working) \ incident
      BY <1>0, <3>1 DEF Shape, Graph, Nodes, Edges
    <3>4. Cardinality({n}) = 1
      BY FS_Singleton
    <3>5. /\ summary'.nodesDeleted = summary.nodesDeleted + Cardinality({n})
          /\ summary'.edgesDeleted = summary.edgesDeleted + Cardinality(incident)
          /\ summary'.nodesCreated = summary.nodesCreated
          /\ summary'.edgesCreated = summary.edgesCreated
      BY <1>0, <3>1, <3>4 DEF Summary
    <3>6. QED BY <1>10, <2>1, <3>2, <3>3, <3>5
  <2>6. QED BY <1>12, <2>2, <2>3, <2>4, <2>5
<1>13. ASSUME NEW e \in EdgeId, SetEdge(e) \/ DeleteEdge(e) PROVE Balanced'
  <2>1. job = "query" /\ job' = job /\ graph' = graph /\ e \in Edges(working)
    BY <1>13 DEF SetEdge, DeleteEdge, Operate
  <2>2. CASE SetEdge(e)
    <3>1. /\ working' = [working EXCEPT !.edge[e].claims = note_user_ownership(@)]
          /\ summary' = summary
      BY <2>2 DEF SetEdge, Operate
    <3>2. working.edge[e] \in Edge
      BY <1>0, <2>1 DEF Shape, Graph, Edges
    <3>3. /\ working'.node = working.node
          /\ \A f \in EdgeId \ {e} : working'.edge[f] = working.edge[f]
          /\ working'.edge[e] = [working.edge[e] EXCEPT !.claims = note_user_ownership(@)]
      BY <1>0, <3>1 DEF Shape, Graph
    <3>4. note_user_ownership(working.edge[e].claims) \in SUBSET Claim
      BY <1>0, <3>2, NoteType DEF Edge
    <3>5. working'.edge[e] \in Edge
      BY <3>2, <3>3, <3>4 DEF Edge
    <3>6. Nodes(working') = Nodes(working) /\ Edges(working') = Edges(working)
      BY <2>1, <3>3, <3>5, ApplyAssumption DEF Nodes, Edges
    <3>7. QED BY <1>7, <2>1, <3>1, <3>6
  <2>3. CASE DeleteEdge(e)
    <3>1. /\ working' = PutEdge(working, e, Absent)
          /\ summary' = [summary EXCEPT !.edgesDeleted = @ + 1]
      BY <2>3 DEF DeleteEdge, Operate, PutEdge
    <3>2. Nodes(working') = Nodes(working) \ {} /\ Edges(working') = Edges(working) \ {e}
      BY <1>0, <3>1 DEF PutEdge, Shape, Graph, Nodes, Edges
    <3>3. Cardinality({e}) = 1 /\ Cardinality({}) = 0
      BY FS_Singleton, FS_EmptySet
    <3>4. /\ summary'.nodesDeleted = summary.nodesDeleted + Cardinality({})
          /\ summary'.edgesDeleted = summary.edgesDeleted + Cardinality({e})
          /\ summary'.nodesCreated = summary.nodesCreated
          /\ summary'.edgesCreated = summary.edgesCreated
      BY <1>0, <3>1, <3>3 DEF Summary
    <3>5. {e} \in SUBSET Edges(working) /\ {} \in SUBSET Nodes(working)
      BY <2>1
    <3>6. QED BY <1>10, <2>1, <3>2, <3>4, <3>5
  <2>4. QED BY <1>13, <2>2, <2>3
<1>14. ASSUME NEW e \in EdgeId, NEW s \in NodeId, NEW t \in NodeId, CreateEdge(e, s, t)
       PROVE  Balanced'
  <2>1. /\ job = "query" /\ job' = job /\ graph' = graph
        /\ e \notin Edges(working)
        /\ working' = PutEdge(working, e, [source |-> s, target |-> t, claims |-> {user_contribution}])
        /\ summary' = [summary EXCEPT !.edgesCreated = @ + 1]
    BY <1>14 DEF CreateEdge, Operate, PutEdge
  <2>2. Edges(working') = Edges(working) \union {e} /\ Nodes(working') = Nodes(working)
    <3>1. [source |-> s, target |-> t, claims |-> {user_contribution}] \in Edge
      BY <1>0, ClaimType DEF Edge
    <3>2. QED BY <1>0, <2>1, <3>1, PutEdgeKeeps DEF Shape
  <2>3. /\ Cardinality(Edges(working')) = Cardinality(Edges(working)) + 1
        /\ Cardinality(Edges(working)) \in Nat /\ Cardinality(Nodes(working)) \in Nat
    BY <2>1, <2>2, OneMore, FiniteRecords
  <2>4. /\ summary'.edgesCreated - summary'.edgesDeleted
             = (summary.edgesCreated - summary.edgesDeleted) + 1
        /\ summary'.nodesCreated - summary'.nodesDeleted
             = summary.nodesCreated - summary.nodesDeleted
        /\ summary.nodesCreated - summary.nodesDeleted \in Int
    BY <1>0, <2>1 DEF Summary
  <2>5. QED BY <1>6, <2>1, <2>2, <2>3, <2>4
<1>15. ASSUME job' = "adopt" PROVE Balanced'
  BY <1>15 DEF Balanced
<1>16. CASE Operation
  <2>1. ASSUME NEW n \in NodeId, WriteNode(n) PROVE Balanced'
    BY <1>15, <2>1 DEF WriteNode, Operate
  <2>2. ASSUME NEW e \in EdgeId, NEW s \in NodeId, NEW t \in NodeId, WriteEdge(e, s, t)
        PROVE  Balanced'
    BY <1>15, <2>2 DEF WriteEdge, Operate
  <2>3. CASE Erase
    BY <1>15, <2>3 DEF Erase, Operate
  <2>4. QED
    BY <1>8, <1>9, <1>11, <1>12, <1>13, <1>14, <1>16, <2>1, <2>2, <2>3 DEF Operation
<1>17. QED
  BY <1>1, <1>2, <1>4, <1>5, <1>16 DEF Next

LEMMA RetiringStep == Inv /\ Counted /\ Retiring /\ [Next]_vars => Retiring'
<1> SUFFICES ASSUME Inv, Counted, Retiring, [Next]_vars
             PROVE  Retiring'
  OBVIOUS
<1>0. Shape
  BY DEF Inv
<1>1. CASE UNCHANGED vars
  BY <1>1 DEF vars, Retiring, Nodes, Edges
<1>2. ASSUME NEW o \in Producer, Propose(o) \/ StaleBaseline(o) PROVE Retiring'
  BY <1>2 DEF Propose, StaleBaseline, Retiring, Nodes, Edges
<1>3. ASSUME NEW o \in Producer, Apply(o) PROVE Retiring'
  BY <1>3 DEF Apply, Begin, Inv, Counted, Blank, Retiring
<1>4. CASE Write \/ Adopt \/ Refuse \/ Finish
  BY <1>4 DEF Write, Adopt, Begin, Refuse, Finish, End, Retiring
<1>5. ASSUME NEW n \in NodeId, NEW u \in UnitOf(owner), UpsertNode(n, u) PROVE Retiring'
  <2>1. /\ job = "apply" /\ graph' = graph /\ working' = Claiming(n, u) /\ tidy' = tidy
        /\ n \in drafted'.nodes
        /\ retired'.nodes = retired.nodes \ {n} /\ retired'.edges = retired.edges
    BY <1>0, <1>5 DEF UpsertNode, Operate, Shape, Ids
  <2>2. Nodes(working') = Nodes(working) \union {n} /\ Edges(working') = Edges(working)
    BY <1>0, <2>1, ClaimedRecords
  <2>3. drafted' # Blank
    BY <2>1 DEF Blank
  <2>4. Nodes(graph') = Nodes(graph) /\ Edges(graph') = Edges(graph)
    BY <2>1
  <2>5. QED BY <2>1, <2>2, <2>3, <2>4 DEF Retiring
<1>6. ASSUME NEW e \in EdgeId, NEW s \in NodeId, NEW t \in NodeId, NEW u \in UnitOf(owner),
             UpsertEdge(e, s, t, u)
      PROVE  Retiring'
  <2>1. /\ job = "apply" /\ graph' = graph /\ working' = ClaimingEdge(e, s, t, u) /\ tidy' = tidy
        /\ e \in drafted'.edges
        /\ retired'.edges = retired.edges \ {e} /\ retired'.nodes = retired.nodes
    BY <1>0, <1>6 DEF UpsertEdge, Operate, Shape, Ids
  <2>2. Edges(working') = Edges(working) \union {e} /\ Nodes(working') = Nodes(working)
    BY <1>0, <2>1, ClaimedRecords
  <2>3. drafted' # Blank
    BY <2>1 DEF Blank
  <2>4. Nodes(graph') = Nodes(graph) /\ Edges(graph') = Edges(graph)
    BY <2>1
  <2>5. QED BY <2>1, <2>2, <2>3, <2>4 DEF Retiring
<1>7. ASSUME NEW u \in UnitOf(owner), RemoveContribution(u) PROVE Retiring'
  <2>1. /\ job = "apply" /\ graph' = graph /\ working' = Withdrawn(u) /\ drafted' = drafted
        /\ retired'.nodes = retired.nodes \union OrphanedNodes(u)
        /\ retired'.edges = retired.edges \union OrphanedEdges(u)
        /\ tidy' => tidy /\ drafted = Blank
    BY <1>0, <1>7 DEF RemoveContribution, Operate, Shape, Ids
  <2>2. /\ Nodes(working') = Nodes(working) \ OrphanedNodes(u)
        /\ Edges(working') = Edges(working) \ OrphanedEdges(u)
    BY <1>0, <2>1, WithdrawnKeeps
  <2>3. OrphanedNodes(u) \subseteq Nodes(working) /\ OrphanedEdges(u) \subseteq Edges(working)
    BY DEF OrphanedNodes, OrphanedEdges, Touching
  <2>4. Nodes(graph') = Nodes(graph) /\ Edges(graph') = Edges(graph)
    BY <2>1
  <2>5. QED BY <2>1, <2>2, <2>3, <2>4 DEF Retiring
<1>8. ASSUME job' \in {"query", "adopt"} PROVE Retiring'
  BY <1>8 DEF Retiring
<1>9. CASE Operation
  <2>1. ASSUME NEW n \in NodeId,
               \/ CreateNode(n) \/ SetNode(n) \/ Delete(n) \/ DetachDelete(n) \/ WriteNode(n)
        PROVE  Retiring'
    BY <1>8, <2>1 DEF CreateNode, SetNode, Delete, DetachDelete, WriteNode, Operate
  <2>2. ASSUME NEW e \in EdgeId, SetEdge(e) \/ DeleteEdge(e) PROVE Retiring'
    BY <1>8, <2>2 DEF SetEdge, DeleteEdge, Operate
  <2>3. ASSUME NEW e \in EdgeId, NEW s \in NodeId, NEW t \in NodeId,
               CreateEdge(e, s, t) \/ WriteEdge(e, s, t)
        PROVE  Retiring'
    BY <1>8, <2>3 DEF CreateEdge, WriteEdge, Operate
  <2>4. CASE Erase
    BY <1>8, <2>4 DEF Erase, Operate
  <2>5. QED BY <1>5, <1>6, <1>7, <1>9, <2>1, <2>2, <2>3, <2>4 DEF Operation
<1>10. QED
  BY <1>1, <1>2, <1>3, <1>4, <1>9 DEF Next

\* The summary of a job is the difference between the graph and the copy, and what a
\* change set that withdraws first puts back is neither deleted nor created.
THEOREM SummaryAlwaysNet == Spec => []SummaryIsNet
<1>1. Init => Counted /\ Balanced /\ Retiring
  BY DEF Init, Counted, Balanced, Retiring, Zero
<1>2. Inv /\ Counted /\ Balanced /\ Retiring => SummaryIsNet
  <2> SUFFICES ASSUME Inv, Counted, Balanced, Retiring, job \in {"apply", "query"}
               PROVE  SummaryIsNet
    BY DEF SummaryIsNet
  <2> DEFINE n == Nodes(graph)
             e == Edges(graph)
             m == Nodes(working)
             f == Edges(working)
  <2>1. /\ summary.nodesCreated - summary.nodesDeleted = Cardinality(m) - Cardinality(n)
        /\ summary.edgesCreated - summary.edgesDeleted = Cardinality(f) - Cardinality(e)
    BY DEF Balanced
  <2>2. ASSUME job = "apply", tidy
        PROVE  /\ summary.nodesCreated = Fresh(n, m) /\ summary.nodesDeleted = Fresh(m, n)
               /\ summary.edgesCreated = Fresh(e, f) /\ summary.edgesDeleted = Fresh(f, e)
    <3>1. /\ summary.nodesDeleted = Cardinality(n \ m)
          /\ summary.edgesDeleted = Cardinality(e \ f)
      BY <2>2 DEF Retiring, Counted
    <3>2. /\ Cardinality(m) - Cardinality(n) = Cardinality(m \ n) - Cardinality(n \ m)
          /\ Cardinality(f) - Cardinality(e) = Cardinality(f \ e) - Cardinality(e \ f)
      BY FiniteRecords, DifferenceOfSizes
    <3>3. /\ Cardinality(m \ n) \in Nat /\ Cardinality(n \ m) \in Nat
          /\ Cardinality(f \ e) \in Nat /\ Cardinality(e \ f) \in Nat
      BY FiniteIds, FiniteRecords
    <3>4. summary.nodesCreated \in Nat /\ summary.edgesCreated \in Nat
      BY DEF Counted
    <3> HIDE DEF n, e, m, f
    <3>5. QED BY <2>1, <3>1, <3>2, <3>3, <3>4 DEF Fresh
  <2>3. QED BY <2>1, <2>2 DEF SummaryIsNet
<1>3. QED
  BY <1>1, <1>2, CountedStep, BalancedStep, RetiringStep, Invariant, PTL DEF Spec

=============================================================================
