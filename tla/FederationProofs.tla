--------------------------- MODULE FederationProofs ---------------------------
(***************************************************************************)
(* The walk over links, for every world and every pair of limits: no limit *)
(* is exceeded, no locator is opened twice, and every source is opened at  *)
(* the depth of the nearest source that offers it.                         *)
(*                                                                         *)
(* NearestFirst says of each source that no source before it could have    *)
(* brought it nearer.  It is inductive only with what the walk has left    *)
(* behind (Past): a link that was followed and offers a source has opened  *)
(* its locator, unless the limit of databases was reached, and then        *)
(* nothing is opened any more.                                             *)
(*                                                                         *)
(* Every link of a source that was followed has one status when the walk   *)
(* ends: the statuses of a source are one run of the list, which has come  *)
(* as far as the walk has (Progress).  And what the walk opens is what the *)
(* root reaches: each source is reached, and what a followed link leads to *)
(* is opened while no limit was hit (Found).                               *)
(***************************************************************************)
EXTENDS Federation, SequenceTheorems, TLAPS

Full == Len(sources) - 1 >= limits.max_link_databases

\* The root is the first source, and every other has the locator it was opened by.
SourcesKnown ==
  /\ Len(sources) >= 1
  /\ sources[1].locator = Nothing
  /\ \A i \in Linked : sources[i].locator \in opened
  /\ \A locator \in opened : \E i \in Linked : sources[i].locator = locator

\* The sources of a level are those of its depth: the local ones are visited.
Levels ==
  /\ depth <= limits.max_link_depth
  /\ pc = "links" => depth < limits.max_link_depth
  /\ pc # "links" => next = <<>>
  /\ pc = "level" => at = 1 /\ link = 1
  /\ \A k \in DOMAIN frontier : sources[frontier[k]].depth = depth /\ ~IsRemote(frontier[k])
  /\ \A k \in DOMAIN next : sources[next[k]].depth = depth + 1 /\ ~IsRemote(next[k])
  /\ \A i \in DOMAIN sources :
       \/ sources[i].depth < depth
       \/ /\ sources[i].depth = depth
          /\ IsRemote(i) \/ \E k \in DOMAIN frontier : frontier[k] = i
       \/ /\ sources[i].depth = depth + 1 /\ pc = "links"
          /\ IsRemote(i) \/ \E k \in DOMAIN next : next[k] = i

\* A link with this locator in the source at j is followed.
Settled(j, locator) == Offers(j, locator) => locator \in opened \/ Full

\* What the walk has left behind: earlier levels, earlier sources of this level
\* and earlier links of this source.
Past ==
  /\ \A j \in DOMAIN sources : sources[j].depth < depth =>
       \A locator \in Locator : Settled(j, locator)
  /\ pc = "links" => \A k \in 1 .. at - 1 : \A locator \in Locator :
       Settled(frontier[k], locator)
  /\ pc = "links" /\ at <= Len(frontier) => \A n \in 1 .. link - 1 :
       Settled(Declaring, collect_links(Declaring)[n])

IInv == TypeOK /\ SourcesKnown /\ WithinLimits /\ Levels /\ Past /\ NearestFirst

-----------------------------------------------------------------------------
(* What the type invariant says of the sequences *)

LEMMA TypeFacts ==
  ASSUME TypeOK
  PROVE  /\ Len(sources) \in Nat /\ DOMAIN sources = 1 .. Len(sources)
         /\ \A i \in DOMAIN sources : sources[i] \in Source
         /\ Len(frontier) \in Nat /\ DOMAIN frontier = 1 .. Len(frontier)
         /\ \A k \in DOMAIN frontier : frontier[k] \in DOMAIN sources
         /\ Len(next) \in Nat /\ DOMAIN next = 1 .. Len(next)
         /\ \A k \in DOMAIN next : next[k] \in DOMAIN sources
         /\ depth \in Nat /\ at \in Nat /\ link \in Nat
         /\ limits.max_link_depth \in Nat /\ limits.max_link_databases \in Nat
         /\ limits.max_link_databases >= 1
<1>1. /\ sources \in Seq(Source)
      /\ frontier \in Seq(1 .. Len(sources)) /\ next \in Seq(1 .. Len(sources))
  BY DEF TypeOK
<1>2. Len(sources) \in Nat /\ DOMAIN sources = 1 .. Len(sources)
  BY <1>1, LenProperties
<1>3. Len(frontier) \in Nat /\ DOMAIN frontier = 1 .. Len(frontier)
  BY <1>1, LenProperties
<1>4. Len(next) \in Nat /\ DOMAIN next = 1 .. Len(next)
  BY <1>1, LenProperties
<1>5. /\ \A i \in DOMAIN sources : sources[i] \in Source
      /\ \A k \in DOMAIN frontier : frontier[k] \in 1 .. Len(sources)
      /\ \A k \in DOMAIN next : next[k] \in 1 .. Len(sources)
  BY <1>1, <1>2, <1>3, <1>4
<1>6. depth \in Nat /\ at \in Nat /\ link \in Nat
  BY <1>3 DEF TypeOK
<1>7. limits.max_link_depth \in Nat /\ limits.max_link_databases \in Nat \ {0}
  BY DEF TypeOK, LimitKind
<1>8. QED BY <1>2, <1>3, <1>4, <1>5, <1>6, <1>7

LEMMA LinksTyped ==
  ASSUME TypeOK, NEW i \in DOMAIN sources
  PROVE  /\ collect_links(i) \in Seq(Locator) /\ Len(collect_links(i)) \in Nat
         /\ DOMAIN collect_links(i) = 1 .. Len(collect_links(i))
<1>1. sources[i].file \in File
  BY TypeFacts DEF Source
<1>2. world.links \in [File -> Links]
  BY DEF TypeOK, WorldKind
<1>3. collect_links(i) \in Seq(Locator)
  BY <1>1, <1>2 DEF collect_links, Links
<1>4. QED BY <1>3, LenProperties

\* A visit is of a link, of a local source of the current level.
LEMMA VisitingFacts ==
  ASSUME IInv, NEW step \in {"links", "cut"}, Visiting(step)
  PROVE  /\ at \in DOMAIN frontier /\ Declaring \in DOMAIN sources
         /\ Following \in Locator
         /\ link \in DOMAIN collect_links(Declaring)
         /\ sources[Declaring].depth = depth /\ ~IsRemote(Declaring)
<1>1. at \in DOMAIN frontier
  BY TypeFacts DEF IInv, TypeOK, Visiting
<1>2. Declaring \in DOMAIN sources
  BY <1>1, TypeFacts DEF IInv, Declaring
<1>3. link \in DOMAIN collect_links(Declaring)
  BY <1>2, LinksTyped, TypeFacts DEF IInv, TypeOK, Visiting
<1>4. Following \in Locator
  BY <1>2, <1>3, LinksTyped DEF IInv, Following
<1>5. sources[Declaring].depth = depth /\ ~IsRemote(Declaring)
  BY <1>1 DEF IInv, Levels, Declaring
<1>6. QED BY <1>1, <1>2, <1>3, <1>4, <1>5

LEMMA StatusTyped ==
  ASSUME TypeOK, NEW i \in DOMAIN sources, NEW locator \in Locator,
         NEW outcome \in Unreachable \union {"available"}
  PROVE  Status(i, locator, outcome) \in LinkStatus
<1>1. sources[i].locator \in Locator \union {Nothing} /\ depth \in Nat
  BY TypeFacts DEF Source
<1>2. QED BY <1>1 DEF Status, LinkStatus

-----------------------------------------------------------------------------
(* The steps that open nothing *)

Same == UNCHANGED <<given, sources, opened>>

LEMMA SameKept ==
  ASSUME Same, IInv
  PROVE  SourcesKnown' /\ WithinLimits' /\ NearestFirst'
         /\ \A j \in DOMAIN sources : \A locator : Settled(j, locator) => Settled(j, locator)'
         /\ \A i : IsRemote(i)' = IsRemote(i) /\ collect_links(i)' = collect_links(i)
<1>1. world' = world /\ limits' = limits /\ sources' = sources /\ opened' = opened
  BY DEF Same, given
<1>2. \A i : IsRemote(i)' = IsRemote(i) /\ collect_links(i)' = collect_links(i)
  BY <1>1 DEF IsRemote, collect_links
<1>3. \A i, locator : Offers(i, locator)' = Offers(i, locator)
  BY <1>1, <1>2 DEF Offers, Declared, Named
<1>4. SourcesKnown' /\ WithinLimits'
  BY <1>1 DEF IInv, SourcesKnown, WithinLimits, Linked
<1>5. NearestFirst'
  BY <1>1, <1>3 DEF IInv, NearestFirst, Linked
<1>6. \A j \in DOMAIN sources : \A locator : Settled(j, locator) => Settled(j, locator)'
  BY <1>1, <1>3 DEF Settled, Full
<1>7. QED BY <1>2, <1>4, <1>5, <1>6

LEMMA LevelStepsKept ==
  ASSUME IInv, LimitDepth \/ BeginLevel \/ Finish \/ EndCut
  PROVE  IInv'
<1>1. /\ UNCHANGED <<given, sources, statuses, opened, frontier, next, depth, at, link>>
      /\ pc \in {"level", "cut"} /\ pc' \in {"links", "cut", "done"}
      /\ pc' = "links" => pc = "level" /\ depth < limits.max_link_depth
  BY DEF LimitDepth, BeginLevel, Finish, EndCut
<1>2. SourcesKnown' /\ WithinLimits' /\ NearestFirst'
      /\ \A j \in DOMAIN sources : \A locator : Settled(j, locator) => Settled(j, locator)'
  BY <1>1, SameKept DEF Same
<1>3. TypeOK'
  BY <1>1 DEF IInv, TypeOK, given
<1>4. Levels'
  BY <1>1 DEF IInv, Levels, IsRemote, given
<1>5. Past'
  <2>1. pc' = "links" => at = 1 /\ link = 1
    BY <1>1 DEF IInv, Levels
  <2>2. \A j \in DOMAIN sources : sources[j].depth < depth =>
          \A locator \in Locator : Settled(j, locator)'
    BY <1>2 DEF IInv, Past
  <2>3. QED BY <1>1, <2>1, <2>2 DEF Past
<1>6. QED BY <1>2, <1>3, <1>4, <1>5 DEF IInv

LEMMA CutKept ==
  ASSUME IInv, Cut
  PROVE  IInv'
<1>1. /\ Visiting("cut") /\ pc = "cut"
      /\ statuses' = Append(statuses, Status(Declaring, Following, "LimitExceeded"))
      /\ link' = link + 1
      /\ UNCHANGED <<given, sources, opened, frontier, next, depth, at, pc>>
  BY DEF Cut, Visiting
<1>2. SourcesKnown' /\ WithinLimits' /\ NearestFirst'
      /\ \A j \in DOMAIN sources : \A locator : Settled(j, locator) => Settled(j, locator)'
      /\ \A i : IsRemote(i)' = IsRemote(i)
  BY <1>1, SameKept DEF Same
<1>3. Status(Declaring, Following, "LimitExceeded") \in LinkStatus
  BY <1>1, VisitingFacts, StatusTyped DEF IInv, Unreachable
<1>4. TypeOK'
  BY <1>1, <1>3 DEF IInv, TypeOK, given
<1>5. Levels'
  BY <1>1 DEF IInv, Levels, IsRemote, given
<1>6. Past'
  BY <1>1, <1>2 DEF IInv, Past
<1>7. QED BY <1>2, <1>4, <1>5, <1>6 DEF IInv

LEMMA NextSourceKept ==
  ASSUME IInv, NextSource
  PROVE  IInv'
<1>1. /\ pc \in {"links", "cut"} /\ at <= Len(frontier)
      /\ link > Len(collect_links(Declaring))
      /\ at' = at + 1 /\ link' = 1
      /\ UNCHANGED <<given, sources, statuses, opened, frontier, next, depth, pc>>
  BY DEF NextSource, AtLastLink
<1>2. SourcesKnown' /\ WithinLimits' /\ NearestFirst'
      /\ \A j \in DOMAIN sources : \A locator : Settled(j, locator) => Settled(j, locator)'
      /\ \A i : IsRemote(i)' = IsRemote(i)
  BY <1>1, SameKept DEF Same
<1>3. at \in DOMAIN frontier /\ Declaring \in DOMAIN sources
  BY <1>1, TypeFacts DEF IInv, TypeOK, Declaring
<1>4. TypeOK'
  <2>1. at' \in 1 .. Len(frontier) + 1 /\ link' \in Nat \ {0}
    BY <1>1, <1>3, TypeFacts DEF IInv
  <2>2. QED BY <1>1, <2>1 DEF IInv, TypeOK, given
<1>5. Levels'
  BY <1>1 DEF IInv, Levels, IsRemote, given
<1>6. Past'
  <2>1. ASSUME pc = "links", NEW locator \in Locator
        PROVE  Settled(Declaring, locator)
    <3>1. CASE locator \in Declared(Declaring)
      <4>1. PICK n \in DOMAIN collect_links(Declaring) : locator = collect_links(Declaring)[n]
        BY <3>1 DEF Declared
      <4>2. n \in 1 .. link - 1
        BY <1>1, <1>3, <4>1, LinksTyped, TypeFacts DEF IInv
      <4>3. QED BY <1>1, <2>1, <4>1, <4>2 DEF IInv, Past
    <3>2. CASE locator \notin Declared(Declaring)
      BY <3>2 DEF Settled, Offers
    <3>3. QED BY <3>1, <3>2
  <2>2. ASSUME pc = "links", NEW k \in 1 .. at, NEW locator \in Locator
        PROVE  Settled(frontier[k], locator)
    <3>1. CASE k = at
      BY <2>1, <2>2, <3>1 DEF Declaring
    <3>2. CASE k # at
      <4>1. k \in 1 .. at - 1
        BY <3>2, TypeFacts DEF IInv
      <4>2. QED BY <2>2, <4>1 DEF IInv, Past
    <3>3. QED BY <3>1, <3>2
  <2>3. \A k \in 1 .. at : frontier[k] \in DOMAIN sources
    BY <1>3, TypeFacts DEF IInv
  <2>4. at' - 1 = at
    BY <1>1, TypeFacts DEF IInv
  <2>5. pc' = "links" => \A k \in 1 .. at' - 1 : \A locator \in Locator :
          Settled(frontier[k], locator)'
    BY <1>1, <1>2, <2>2, <2>3, <2>4
  <2>6. \A j \in DOMAIN sources : sources[j].depth < depth =>
          \A locator \in Locator : Settled(j, locator)'
    BY <1>2 DEF IInv, Past
  <2>7. link' - 1 = 0
    BY <1>1
  <2>8. QED BY <1>1, <2>5, <2>6, <2>7 DEF Past
<1>7. QED BY <1>2, <1>4, <1>5, <1>6 DEF IInv

LEMMA NextLevelKept ==
  ASSUME IInv, NextLevel
  PROVE  IInv'
<1>1. /\ pc = "links" /\ at > Len(frontier)
      /\ frontier' = next /\ next' = <<>> /\ depth' = depth + 1
      /\ at' = 1 /\ link' = 1 /\ pc' = "level"
      /\ UNCHANGED <<given, sources, statuses, opened>>
  BY DEF NextLevel
<1>2. SourcesKnown' /\ WithinLimits' /\ NearestFirst'
      /\ \A j \in DOMAIN sources : \A locator : Settled(j, locator) => Settled(j, locator)'
      /\ \A i : IsRemote(i)' = IsRemote(i)
  BY <1>1, SameKept DEF Same
<1>3. TypeOK'
  <2>1. at' \in 1 .. Len(frontier') + 1 /\ link' \in Nat \ {0} /\ depth' \in Nat
    BY <1>1, TypeFacts DEF IInv
  <2>2. QED BY <1>1, <2>1 DEF IInv, TypeOK, given
<1>4. Levels'
  <2>1. depth' <= limits.max_link_depth
    BY <1>1, TypeFacts DEF IInv, Levels
  <2>2. ASSUME NEW i \in DOMAIN sources
        PROVE  \/ sources[i].depth < depth + 1
               \/ /\ sources[i].depth = depth + 1
                  /\ IsRemote(i) \/ \E k \in DOMAIN next : next[k] = i
    <3>1. sources[i].depth \in Nat /\ depth \in Nat
      BY TypeFacts DEF IInv, Source
    <3>2. sources[i].depth = depth => sources[i].depth < depth + 1
      BY <3>1
    <3>3. sources[i].depth < depth => sources[i].depth < depth + 1
      BY <3>1
    <3>4. QED BY <3>2, <3>3 DEF IInv, Levels
  <2>3. \A k \in DOMAIN next : sources[next[k]].depth = depth + 1 /\ ~IsRemote(next[k])
    BY DEF IInv, Levels
  <2>4. QED BY <1>1, <2>1, <2>2, <2>3 DEF Levels, IsRemote, given
<1>5. Past'
  <2>1. ASSUME NEW j \in DOMAIN sources, sources[j].depth < depth + 1, NEW locator \in Locator
        PROVE  Settled(j, locator)
    <3>1. CASE sources[j].depth < depth
      BY <3>1 DEF IInv, Past
    <3>2. CASE sources[j].depth = depth /\ IsRemote(j)
      BY <3>2 DEF Settled, Offers
    <3>3. CASE sources[j].depth = depth /\ ~IsRemote(j)
      <4>1. PICK k \in DOMAIN frontier : frontier[k] = j
        BY <3>3, TypeFacts DEF IInv, Levels
      <4>2. k \in 1 .. at - 1
        BY <1>1, TypeFacts DEF IInv
      <4>3. QED BY <1>1, <4>1, <4>2 DEF IInv, Past
    <3>4. sources[j].depth \in Nat
      BY TypeFacts DEF IInv, Source
    <3>5. QED BY <2>1, <3>1, <3>2, <3>3, <3>4, TypeFacts DEF IInv
  <2>2. QED BY <1>1, <1>2, <2>1 DEF Past
<1>6. QED BY <1>2, <1>3, <1>4, <1>5 DEF IInv

LEMMA RefuseKept ==
  ASSUME IInv, Refuse
  PROVE  IInv'
<1>1. PICK outcome \in Unreachable : Answer(outcome)
  BY DEF Refuse
<1>2. /\ Visiting("links") /\ pc = "links"
      /\ Followed(From, Following) = outcome
      /\ statuses' = Append(statuses, Status(Declaring, Following, outcome))
      /\ link' = link + 1
      /\ UNCHANGED <<given, sources, opened, frontier, next, depth, at, pc>>
  BY <1>1 DEF Refuse, Answer, Visiting
<1>3. SourcesKnown' /\ WithinLimits' /\ NearestFirst'
      /\ \A j \in DOMAIN sources : \A locator : Settled(j, locator) => Settled(j, locator)'
      /\ \A i : collect_links(i)' = collect_links(i)
  BY <1>2, SameKept DEF Same
<1>4. Declaring \in DOMAIN sources /\ Following \in Locator
  BY <1>2, VisitingFacts
<1>5. Status(Declaring, Following, outcome) \in LinkStatus
  BY <1>4, StatusTyped DEF IInv
<1>6. TypeOK'
  BY <1>2, <1>5 DEF IInv, TypeOK, given
<1>7. Levels'
  BY <1>2 DEF IInv, Levels, IsRemote, given
<1>8. Settled(Declaring, Following)
  <2>1. outcome # "available"
    BY DEF Unreachable
  <2>2. SUFFICES ASSUME Offers(Declaring, Following), Following \notin opened, ~Full
                 PROVE  FALSE
    BY DEF Settled
  <2>3. /\ Named(From, Following) # Nothing
        /\ IF Following \in Remote THEN world.provider
           ELSE Named(From, Following) \in world.readable
    BY <2>2 DEF Offers, From
  <2>4. QED BY <1>2, <2>1, <2>2, <2>3 DEF Followed, Full
<1>9. Past'
  <2>1. ASSUME at <= Len(frontier), NEW n \in 1 .. link
        PROVE  Settled(Declaring, collect_links(Declaring)[n])
    <3>1. CASE n = link
      BY <1>8, <3>1 DEF Following
    <3>2. CASE n # link
      <4>1. n \in 1 .. link - 1
        BY <3>2, TypeFacts DEF IInv
      <4>2. QED BY <1>2, <2>1, <4>1 DEF IInv, Past
    <3>3. QED BY <3>1, <3>2
  <2>2. link' - 1 = link /\ Declaring' = Declaring
    BY <1>2, TypeFacts DEF IInv, Declaring
  <2>3. ASSUME at <= Len(frontier), NEW n \in 1 .. link' - 1
        PROVE  Settled(Declaring, collect_links(Declaring)[n])'
    <3>1. collect_links(Declaring)' = collect_links(Declaring)
      BY <1>2 DEF collect_links, Declaring, given
    <3>2. Settled(Declaring, collect_links(Declaring)[n])
      BY <2>1, <2>2, <2>3
    <3>3. QED BY <1>2, <3>1, <3>2
               DEF Settled, Offers, Full, Declared, collect_links, Declaring, IsRemote, Named,
                   given
  <2>4. \A j \in DOMAIN sources : sources[j].depth < depth =>
          \A locator \in Locator : Settled(j, locator)'
    BY <1>3 DEF IInv, Past
  <2>5. \A k \in 1 .. at - 1 : frontier[k] \in DOMAIN sources
    BY <1>2, TypeFacts, VisitingFacts DEF IInv
  <2>6. \A k \in 1 .. at - 1 : \A locator \in Locator : Settled(frontier[k], locator)'
    BY <1>2, <1>3, <2>5 DEF IInv, Past
  <2>7. QED BY <1>2, <2>3, <2>4, <2>6 DEF Past
<1>10. QED BY <1>3, <1>6, <1>7, <1>9 DEF IInv

-----------------------------------------------------------------------------
(* The steps that open a source *)

New == Len(sources) + 1

\* What a step that opens a source finds, and how it extends the sources.
LEMMA Opening ==
  ASSUME IInv, Open
  PROVE  /\ Visiting("links") /\ pc = "links" /\ pc' = pc /\ link' = link + 1
         /\ Following \in Locator /\ Following \notin opened /\ ~Full
         /\ Offers(Declaring, Following)
         /\ opened' = opened \union {Following}
         /\ sources' \in Seq(Source) /\ Len(sources') = New /\ DOMAIN sources' = 1 .. New
         /\ New \notin DOMAIN sources /\ New \in DOMAIN sources'
         /\ \A i \in DOMAIN sources : i \in DOMAIN sources' /\ sources'[i] = sources[i]
         /\ sources'[New] = [locator |-> Following, file |-> Named(From, Following),
                             depth |-> depth + 1]
         /\ statuses' \in Seq(LinkStatus)
         /\ UNCHANGED <<given, frontier, depth, at, pc>>
<1> DEFINE source == [locator |-> Following, file |-> Named(From, Following),
                      depth |-> depth + 1]
<1>1. /\ Visiting("links") /\ pc = "links"
      /\ Followed(From, Following) = "available"
      /\ statuses' = Append(statuses, Status(Declaring, Following, "available"))
      /\ link' = link + 1
      /\ opened' = opened \union {Following}
      /\ sources' = Append(sources, source)
      /\ UNCHANGED <<given, frontier, depth, at, pc>>
  BY DEF Open, Answer, Visiting
<1>2. Declaring \in DOMAIN sources /\ Following \in Locator /\ ~IsRemote(Declaring)
      /\ link \in DOMAIN collect_links(Declaring)
  BY <1>1, VisitingFacts
<1>3. /\ Following \notin opened /\ ~Full
      /\ Named(From, Following) # Nothing
      /\ IF Following \in Remote THEN world.provider
         ELSE Named(From, Following) \in world.readable
  BY <1>1 DEF Followed, Full
<1>4. Following \in Declared(Declaring)
  BY <1>2 DEF Declared, Following
<1>5. Offers(Declaring, Following)
  BY <1>2, <1>3, <1>4 DEF Offers, From
<1>6. Named(From, Following) \in File
  <2>1. sources[Declaring].file \in File
    BY <1>2, TypeFacts DEF IInv, Source
  <2>2. /\ world.base \in [File -> Base]
        /\ world.target \in [Base -> [Local -> File \union {Nothing}]]
        /\ world.delivers \in [Remote -> File \union {Nothing}]
    BY DEF IInv, TypeOK, WorldKind
  <2>3. From \in Base
    BY <2>1, <2>2 DEF From
  <2>4. QED BY <1>2, <1>3, <2>2, <2>3 DEF Named, Local
<1>7. source \in Source
  BY <1>2, <1>6, TypeFacts DEF IInv, Source
<1>8. sources \in Seq(Source)
  BY DEF IInv, TypeOK
<1>9. source.locator = Following /\ source.depth = depth + 1
      /\ source.file = Named(From, Following)
  OBVIOUS
<1> HIDE DEF source
<1>10. /\ sources' \in Seq(Source) /\ Len(sources') = Len(sources) + 1
       /\ \A i \in 1 .. Len(sources) : sources'[i] = sources[i]
       /\ sources'[Len(sources) + 1] = source
  BY <1>1, <1>7, <1>8, AppendProperties
<1>11. Len(sources) \in Nat /\ DOMAIN sources = 1 .. Len(sources)
       /\ DOMAIN sources' = 1 .. Len(sources) + 1
  BY <1>8, <1>10, LenProperties
<1>12. New \notin 1 .. Len(sources) /\ New \in 1 .. New
       /\ \A i \in 1 .. Len(sources) : i \in 1 .. New
  BY <1>11 DEF New
<1>13. Status(Declaring, Following, "available") \in LinkStatus
  BY <1>2, StatusTyped DEF IInv
<1>14. statuses' \in Seq(LinkStatus)
  BY <1>1, <1>13 DEF IInv, TypeOK
<1>15. QED
  BY <1>1, <1>2, <1>3, <1>5, <1>10, <1>11, <1>12, <1>14 DEF New, source

LEMMA OpenKept ==
  ASSUME IInv, Open
  PROVE  /\ SourcesKnown' /\ WithinLimits' /\ NearestFirst' /\ Past'
         /\ \A i \in DOMAIN sources : IsRemote(i)' = IsRemote(i)
<1> DEFINE source == [locator |-> Following, file |-> Named(From, Following),
                      depth |-> depth + 1]
<1> USE Opening
<1>1. Len(sources) \in Nat /\ DOMAIN sources = 1 .. Len(sources) /\ depth \in Nat
      /\ \A i \in DOMAIN sources : sources[i].depth \in Nat
  BY TypeFacts DEF IInv, Source
<1>2. /\ sources'[New].locator = Following /\ sources'[New].depth = depth + 1
      /\ DOMAIN sources' = 1 .. New /\ New = Len(sources) + 1
      /\ \A i \in DOMAIN sources' : i # New => i \in DOMAIN sources /\ sources'[i] = sources[i]
  <2>1. \A i \in 1 .. New : i # New => i \in 1 .. Len(sources)
    BY <1>1 DEF New
  <2>2. QED BY <1>1, <2>1 DEF New
<1>3. Declaring \in DOMAIN sources /\ sources[Declaring].depth = depth
  BY VisitingFacts
<1>4. world' = world /\ limits' = limits /\ depth' = depth
  BY DEF given
<1>5. ASSUME NEW i \in DOMAIN sources
      PROVE  /\ IsRemote(i)' = IsRemote(i)
             /\ collect_links(i)' = collect_links(i)
             /\ \A locator : Offers(i, locator)' = Offers(i, locator)
             /\ \A locator : Settled(i, locator) => Settled(i, locator)'
  <2>1. sources'[i] = sources[i]
    OBVIOUS
  <2>2. IsRemote(i)' = IsRemote(i) /\ collect_links(i)' = collect_links(i)
    BY <1>4, <2>1 DEF IsRemote, collect_links
  <2>3. \A locator : Offers(i, locator)' = Offers(i, locator)
    BY <1>4, <2>1, <2>2 DEF Offers, Declared, Named
  <2>4. \A locator : Settled(i, locator) => Settled(i, locator)'
    BY <2>3 DEF Settled
  <2>5. QED BY <2>2, <2>3, <2>4
<1>6. Linked' = Linked \union {New} /\ New \notin Linked /\ Linked \subseteq DOMAIN sources
  <2>1. Len(sources) >= 1
    BY DEF IInv, SourcesKnown
  <2>2. QED BY <1>1, <1>2, <2>1 DEF Linked
<1>7. SourcesKnown'
  <2>1. Len(sources') >= 1 /\ sources'[1].locator = Nothing
    <3>1. 1 \in DOMAIN sources /\ New >= 1
      BY <1>1, <1>2 DEF IInv, SourcesKnown
    <3>2. QED BY <3>1 DEF IInv, SourcesKnown
  <2>2. \A i \in Linked' : sources'[i].locator \in opened'
    BY <1>2, <1>6 DEF IInv, SourcesKnown
  <2>3. \A locator \in opened' : \E i \in Linked' : sources'[i].locator = locator
    BY <1>2, <1>6 DEF IInv, SourcesKnown
  <2>4. QED BY <2>1, <2>2, <2>3 DEF SourcesKnown
<1>8. WithinLimits'
  <2>1. Len(sources') - 1 <= limits'.max_link_databases
    BY <1>1, <1>2, <1>4, TypeFacts DEF IInv, Full
  <2>2. depth + 1 <= limits.max_link_depth
    BY TypeFacts DEF IInv, Levels
  <2>3. \A i \in DOMAIN sources' : sources'[i].depth <= limits'.max_link_depth
    BY <1>2, <1>4, <2>2 DEF IInv, WithinLimits
  <2>4. opened' = {sources'[i].locator : i \in Linked'}
    BY <1>7 DEF SourcesKnown
  <2>5. ASSUME NEW i \in DOMAIN sources PROVE sources[i].locator # Following
    <3>1. CASE i = 1
      BY <3>1, FederationAssumption DEF IInv, SourcesKnown
    <3>2. CASE i # 1
      <4>1. i \in Linked
        BY <1>1, <3>2 DEF Linked
      <4>2. QED BY <4>1 DEF IInv, SourcesKnown
    <3>3. QED BY <3>1, <3>2
  <2>6. \A i, j \in DOMAIN sources' : sources'[i].locator = sources'[j].locator => i = j
    BY <1>2, <2>5 DEF IInv, WithinLimits
  <2>7. QED BY <2>1, <2>3, <2>4, <2>6 DEF WithinLimits
<1>9. NearestFirst'
  <2>1. ASSUME NEW i \in Linked'
        PROVE  \E j \in 1 .. i - 1 : Offers(j, sources[i].locator)'
                                    /\ sources'[i].depth = sources'[j].depth + 1
    <3>1. CASE i = New
      <4>1. PICK d \in DOMAIN sources : d = Declaring
        BY <1>3
      <4>2. PICK l \in Locator : l = Following
        OBVIOUS
      <4>3. d \in 1 .. i - 1
        BY <1>1, <1>2, <3>1
      <4>4. Offers(d, l)'
        BY <1>5, <4>1, <4>2
      <4>5. sources'[i].locator = l
        BY <1>2, <3>1, <4>2
      <4>6. Offers(d, sources[i].locator)'
        BY <4>4, <4>5 DEF Offers, Declared, IsRemote, collect_links, Named
      <4>7. sources'[i].depth = sources'[d].depth + 1
        BY <1>2, <1>3, <3>1, <4>1
      <4>8. QED BY <4>3, <4>6, <4>7
    <3>2. CASE i # New
      <4>1. i \in Linked /\ i \in DOMAIN sources
        BY <1>6, <3>2
      <4>2. PICK j \in 1 .. i - 1 : Offers(j, sources[i].locator)
                                   /\ sources[i].depth = sources[j].depth + 1
        BY <4>1 DEF IInv, NearestFirst
      <4>3. j \in DOMAIN sources
        BY <1>1, <4>1
      <4>4. sources'[j] = sources[j] /\ sources'[i] = sources[i]
        BY <4>1, <4>3
      <4>5. PICK l \in Locator : l = sources[i].locator
        BY <4>1 DEF IInv, WithinLimits, TypeOK
      <4>6. Offers(j, l)'
        BY <1>5, <4>2, <4>3, <4>5
      <4>7. Offers(j, sources[i].locator)'
        BY <4>4, <4>5, <4>6 DEF Offers, Declared, IsRemote, collect_links, Named
      <4>8. QED BY <4>2, <4>4, <4>7
    <3>3. QED BY <3>1, <3>2
  <2>2. ASSUME NEW i \in Linked', NEW j \in DOMAIN sources', Offers(j, sources[i].locator)'
        PROVE  sources'[i].depth <= sources'[j].depth + 1
    <3>1. \A k \in DOMAIN sources : sources[k].depth <= depth + 1
      BY <1>1 DEF IInv, Levels
    <3>2. i \in DOMAIN sources'
      BY <1>2, <1>6
    <3>3. CASE j = New
      <4>1. sources'[i].depth <= depth + 1 /\ sources'[i].depth \in Nat
        BY <1>1, <1>2, <3>1, <3>2
      <4>2. QED BY <1>1, <1>2, <3>3, <4>1
    <3>4. CASE j # New /\ i # New
      <4>1. i \in Linked /\ j \in DOMAIN sources
            /\ sources'[i] = sources[i] /\ sources'[j] = sources[j]
        BY <1>2, <1>6, <3>2, <3>4
      <4>2. Offers(j, sources[i].locator)
        BY <1>4, <2>2, <4>1 DEF Offers, Declared, IsRemote, collect_links, Named
      <4>3. QED BY <4>1, <4>2 DEF IInv, NearestFirst
    <3>5. CASE j # New /\ i = New
      <4>1. j \in DOMAIN sources /\ sources'[j] = sources[j]
        BY <1>2, <3>5
      <4>2. PICK l \in Locator : l = Following
        OBVIOUS
      <4>3. Offers(j, l)
        <5>1. sources'[i].locator = l
          BY <1>2, <3>5, <4>2
        <5>2. Offers(j, l)'
          BY <2>2, <5>1 DEF Offers, Declared, IsRemote, collect_links, Named
        <5>3. QED BY <1>5, <4>1, <5>2
      <4>4. ~(sources[j].depth < depth)
        BY <4>1, <4>2, <4>3 DEF IInv, Past, Settled
      <4>5. QED BY <1>1, <1>2, <3>5, <4>1, <4>4
    <3>6. QED BY <3>3, <3>4, <3>5
  <2>3. QED BY <2>1, <2>2 DEF NearestFirst
<1>10. Past'
  <2>1. ASSUME NEW j \in DOMAIN sources', sources'[j].depth < depth, NEW locator \in Locator
        PROVE  Settled(j, locator)'
    <3>1. j \in DOMAIN sources /\ sources'[j] = sources[j]
      BY <1>1, <1>2, <2>1
    <3>2. QED BY <1>5, <2>1, <3>1 DEF IInv, Past
  <2>2. at \in Nat /\ link \in Nat /\ at \in DOMAIN frontier
        /\ DOMAIN frontier = 1 .. Len(frontier)
        /\ \A k \in DOMAIN frontier : frontier[k] \in DOMAIN sources
    BY TypeFacts, VisitingFacts DEF IInv
  <2>3. ASSUME NEW k \in 1 .. at - 1, NEW locator \in Locator
        PROVE  Settled(frontier[k], locator)'
    <3>1. frontier[k] \in DOMAIN sources
      BY <2>2
    <3>2. Settled(frontier[k], locator)
      BY <2>3 DEF IInv, Past
    <3>3. QED BY <1>5, <3>1, <3>2
  <2>4. ASSUME NEW n \in 1 .. link
        PROVE  Settled(Declaring, collect_links(Declaring)[n])'
    <3>1. CASE n = link
      <4>1. collect_links(Declaring)[n]' = Following
        BY <1>3, <1>4, <3>1 DEF collect_links, Following, Declaring
      <4>2. QED BY <4>1 DEF Settled
    <3>2. CASE n # link
      <4>1. n \in 1 .. link - 1
        BY <2>2, <3>2
      <4>2. Settled(Declaring, collect_links(Declaring)[n])
        BY <2>2, <4>1 DEF IInv, Past
      <4>3. PICK d \in DOMAIN sources : d = Declaring
        BY <1>3
      <4>4. PICK l : l = collect_links(d)[n]
        OBVIOUS
      <4>5. Settled(d, l)'
        BY <1>5, <4>2, <4>3, <4>4
      <4>6. Declaring' = d
        BY <4>3 DEF Declaring
      <4>7. collect_links(Declaring)[n]' = l
        BY <1>4, <4>4, <4>6 DEF collect_links
      <4>8. QED
        BY <4>5, <4>6, <4>7 DEF Settled, Offers, Declared, IsRemote, collect_links, Named
    <3>3. QED BY <3>1, <3>2
  <2>5. link' - 1 = link
    BY <2>2
  <2>6. QED BY <1>4, <2>1, <2>3, <2>4, <2>5 DEF Past
<1>11. QED BY <1>5, <1>7, <1>8, <1>9, <1>10

\* The lists of sources a step that opens one leaves alone, or adds it to.
LEMMA ListsKept ==
  ASSUME IInv, Open,
         next' = next \/ next' = Append(next, New)
  PROVE  /\ frontier' \in Seq(1 .. Len(sources')) /\ next' \in Seq(1 .. Len(sources'))
         /\ \A k \in DOMAIN next : k \in DOMAIN next' /\ next'[k] = next[k]
         /\ \A k \in DOMAIN next' : k \in DOMAIN next \/ next'[k] = New
         /\ next' # next => \E k \in DOMAIN next' : next'[k] = New
<1>1. frontier \in Seq(1 .. Len(sources)) /\ next \in Seq(1 .. Len(sources))
      /\ Len(sources) \in Nat
  BY TypeFacts DEF IInv, TypeOK
<1>2. 1 .. Len(sources) \subseteq 1 .. New /\ New \in 1 .. New
  BY <1>1 DEF New
<1>3. frontier \in Seq(1 .. New) /\ next \in Seq(1 .. New)
  <2>1. ASSUME NEW S, NEW T, S \subseteq T, NEW s \in Seq(S) PROVE s \in Seq(T)
    BY <2>1, LenProperties
  <2>2. QED BY <1>1, <1>2, <2>1
<1>4. frontier' = frontier /\ Len(sources') = New
  BY Opening
<1>5. Len(next) \in Nat /\ DOMAIN next = 1 .. Len(next)
  BY <1>3, LenProperties
<1>6. CASE next' = next
  BY <1>3, <1>4, <1>6
<1>7. CASE next' = Append(next, New)
  <2>1. /\ next' \in Seq(1 .. New) /\ Len(next') = Len(next) + 1
        /\ \A k \in 1 .. Len(next) : next'[k] = next[k]
        /\ next'[Len(next) + 1] = New
    BY <1>2, <1>3, <1>7, AppendProperties
  <2>2. DOMAIN next' = 1 .. Len(next) + 1
    BY <2>1, LenProperties
  <2>3. \A k \in 1 .. Len(next) + 1 : k \in 1 .. Len(next) \/ k = Len(next) + 1
    BY <1>5
  <2>4. Len(next) + 1 \in 1 .. Len(next) + 1
        /\ \A k \in 1 .. Len(next) : k \in 1 .. Len(next) + 1
    BY <1>5
  <2>5. QED BY <1>3, <1>4, <1>5, <2>1, <2>2, <2>3, <2>4
<1>8. QED BY <1>6, <1>7

LEMMA OpenRemoteOrLocalKept ==
  ASSUME IInv, OpenRemote \/ OpenLocal
  PROVE  IInv'
<1>1. Open
  BY DEF OpenRemote, OpenLocal
<1>2. /\ Following \in Remote => next' = next
      /\ Following \notin Remote => next' = Append(next, New)
  <2>1. Len(sources') = New
    BY <1>1, Opening
  <2>2. QED BY <2>1 DEF OpenRemote, OpenLocal
<1>3. /\ SourcesKnown' /\ WithinLimits' /\ NearestFirst' /\ Past'
      /\ \A i \in DOMAIN sources : IsRemote(i)' = IsRemote(i)
  BY <1>1, OpenKept
<1>4. /\ frontier' \in Seq(1 .. Len(sources')) /\ next' \in Seq(1 .. Len(sources'))
      /\ \A k \in DOMAIN next : k \in DOMAIN next' /\ next'[k] = next[k]
      /\ \A k \in DOMAIN next' : k \in DOMAIN next \/ next'[k] = New
      /\ next' # next => \E k \in DOMAIN next' : next'[k] = New
  BY <1>1, <1>2, ListsKept
<1>5. /\ pc = "links" /\ pc' = pc /\ link' = link + 1 /\ Following \in Locator
      /\ opened' = opened \union {Following}
      /\ sources' \in Seq(Source) /\ DOMAIN sources' = 1 .. New /\ New \notin DOMAIN sources
      /\ New \in DOMAIN sources'
      /\ \A i \in DOMAIN sources : i \in DOMAIN sources' /\ sources'[i] = sources[i]
      /\ sources'[New].locator = Following /\ sources'[New].depth = depth + 1
      /\ statuses' \in Seq(LinkStatus)
      /\ frontier' = frontier /\ depth' = depth /\ at' = at
      /\ world' = world /\ limits' = limits
  BY <1>1, Opening DEF given
<1>6. TypeOK'
  BY <1>4, <1>5 DEF IInv, TypeOK
<1>7. Levels'
  <2>1. /\ \A k \in DOMAIN frontier : frontier[k] \in DOMAIN sources
        /\ \A k \in DOMAIN next : next[k] \in DOMAIN sources
        /\ DOMAIN sources = 1 .. Len(sources) /\ Len(sources) \in Nat
    BY TypeFacts DEF IInv
  <2>2. ASSUME NEW k \in DOMAIN frontier'
        PROVE  sources'[frontier'[k]].depth = depth' /\ ~IsRemote(frontier[k])'
    BY <1>5, <2>1, <2>2 DEF IInv, Levels, IsRemote
  <2>3. ASSUME NEW k \in DOMAIN next'
        PROVE  sources'[next'[k]].depth = depth' + 1 /\ sources'[next'[k]].locator \notin Remote
    <3>1. CASE k \in DOMAIN next
      <4>1. next'[k] = next[k] /\ next[k] \in DOMAIN sources
        BY <1>4, <2>1, <3>1
      <4>2. QED BY <1>5, <3>1, <4>1 DEF IInv, Levels, IsRemote
    <3>2. CASE k \notin DOMAIN next
      BY <1>2, <1>4, <1>5, <2>3, <3>2
    <3>3. QED BY <3>1, <3>2
  <2>4. ASSUME NEW i \in DOMAIN sources'
        PROVE  \/ sources'[i].depth < depth
               \/ /\ sources'[i].depth = depth
                  /\ sources'[i].locator \in Remote
                     \/ \E k \in DOMAIN frontier : frontier[k] = i
               \/ /\ sources'[i].depth = depth + 1
                  /\ sources'[i].locator \in Remote
                     \/ \E k \in DOMAIN next' : next'[k] = i
    <3>1. CASE i = New
      <4>1. Following \notin Remote => next' # next
        <5>1. next \in Seq(1 .. Len(sources))
          BY DEF IInv, TypeOK
        <5>2. Append(next, New) # next
          BY <5>1
        <5>3. QED BY <1>2, <5>2
      <4>2. QED BY <1>4, <1>5, <3>1, <4>1
    <3>2. CASE i # New
      <4>1. i \in DOMAIN sources /\ sources'[i] = sources[i]
        BY <1>5, <2>1, <3>2 DEF New
      <4>2. \/ sources[i].depth < depth
            \/ /\ sources[i].depth = depth
               /\ sources[i].locator \in Remote \/ \E k \in DOMAIN frontier : frontier[k] = i
            \/ /\ sources[i].depth = depth + 1
               /\ sources[i].locator \in Remote \/ \E k \in DOMAIN next : next[k] = i
        BY <4>1 DEF IInv, Levels, IsRemote
      <4>3. (\E k \in DOMAIN next : next[k] = i) => \E k \in DOMAIN next' : next'[k] = i
        BY <1>4
      <4>4. QED BY <4>1, <4>2, <4>3
    <3>3. QED BY <3>1, <3>2
  <2>5. depth' <= limits'.max_link_depth /\ depth' < limits'.max_link_depth
    BY <1>5 DEF IInv, Levels
  <2>6. QED BY <1>5, <2>2, <2>3, <2>4, <2>5 DEF Levels, IsRemote
<1>8. QED BY <1>3, <1>6, <1>7 DEF IInv

-----------------------------------------------------------------------------
(* The theorems *)

LEMMA InitKept == Init => IInv
<1> SUFFICES ASSUME Init PROVE IInv
  OBVIOUS
<1> DEFINE root == [locator |-> Nothing, file |-> Root, depth |-> 0]
<1>1. /\ world \in World /\ limits \in Limit /\ sources = <<root>> /\ statuses = <<>>
      /\ opened = {} /\ frontier = <<1>> /\ next = <<>> /\ depth = 0 /\ at = 1 /\ link = 1
      /\ pc = "level"
  BY DEF Init
<1>2. root \in Source /\ root.depth = 0 /\ root.locator = Nothing
  BY FederationAssumption DEF Source
<1> HIDE DEF root
<1>3. Len(sources) = 1 /\ DOMAIN sources = {1} /\ sources[1] = root
      /\ Len(frontier) = 1 /\ DOMAIN frontier = {1} /\ frontier[1] = 1
      /\ DOMAIN next = {} /\ Linked = {}
  <2>1. Len(sources) = 1 /\ sources[1] = root
    BY <1>1
  <2>2. DOMAIN sources = {1} /\ DOMAIN frontier = {1} /\ DOMAIN next = {}
    BY <1>1
  <2>3. Linked = {}
    BY <2>1 DEF Linked
  <2>4. QED BY <1>1, <2>1, <2>2, <2>3
<1>4. limits.max_link_depth \in Nat \ {0} /\ limits.max_link_databases \in Nat \ {0}
      /\ limits \in LimitKind /\ world \in WorldKind
  BY <1>1, FederationAssumption DEF LimitKind
<1>5. TypeOK
  BY <1>1, <1>2, <1>3, <1>4 DEF TypeOK
<1>6. SourcesKnown
  BY <1>1, <1>2, <1>3 DEF SourcesKnown
<1>7. WithinLimits
  BY <1>1, <1>2, <1>3, <1>4 DEF WithinLimits
<1>8. Levels
  BY <1>1, <1>2, <1>3, <1>4, FederationAssumption DEF Levels, IsRemote
<1>9. Past /\ NearestFirst
  BY <1>1, <1>2, <1>3 DEF Past, NearestFirst
<1>10. QED BY <1>5, <1>6, <1>7, <1>8, <1>9 DEF IInv

LEMMA StepKept == IInv /\ [Next]_vars => IInv'
<1> SUFFICES ASSUME IInv, [Next]_vars PROVE IInv'
  OBVIOUS
<1>1. CASE Next
  BY <1>1, LevelStepsKept, CutKept, NextSourceKept, NextLevelKept, RefuseKept,
     OpenRemoteOrLocalKept DEF Next
<1>2. CASE UNCHANGED vars
  <2>1. Same /\ UNCHANGED <<statuses, frontier, next, depth, at, link, pc>>
    BY <1>2 DEF vars, given, Same
  <2>2. SourcesKnown' /\ WithinLimits' /\ NearestFirst'
    BY <2>1, SameKept
  <2>3. TypeOK'
    BY <2>1 DEF IInv, TypeOK, given, Same
  <2>4. Levels'
    BY <2>1 DEF IInv, Levels, IsRemote, given, Same
  <2>5. Past'
    <3>1. /\ world' = world /\ limits' = limits /\ sources' = sources /\ opened' = opened
          /\ frontier' = frontier /\ depth' = depth /\ at' = at /\ link' = link /\ pc' = pc
      BY <2>1 DEF Same, given
    <3>2. \A j \in DOMAIN sources : \A locator : Settled(j, locator) => Settled(j, locator)'
      BY <2>1, SameKept
    <3>3. \A k \in DOMAIN frontier : frontier[k] \in DOMAIN sources
      BY TypeFacts DEF IInv
    <3>4. /\ Len(frontier) \in Nat /\ DOMAIN frontier = 1 .. Len(frontier)
          /\ at \in 1 .. Len(frontier) + 1
      BY TypeFacts DEF IInv, TypeOK
    <3>5. \A k \in 1 .. at - 1 : frontier[k] \in DOMAIN sources
      BY <3>3, <3>4
    <3>6. \A j \in DOMAIN sources : sources[j].depth < depth =>
            \A locator \in Locator : Settled(j, locator)'
      BY <3>2 DEF IInv, Past
    <3>7. pc = "links" => \A k \in 1 .. at - 1 : \A locator \in Locator :
            Settled(frontier[k], locator)'
      BY <3>1, <3>2, <3>5 DEF IInv, Past
    <3>8. ASSUME pc = "links", at <= Len(frontier), NEW n \in 1 .. link - 1
          PROVE  Settled(Declaring, collect_links(Declaring)[n])'
      <4>1. PICK d \in DOMAIN sources : d = Declaring
        BY <3>3, <3>4, <3>8 DEF Declaring
      <4>2. PICK l : l = collect_links(d)[n]
        OBVIOUS
      <4>3. Settled(d, l)'
        BY <3>2, <3>8, <4>1, <4>2 DEF IInv, Past
      <4>4. Declaring' = d /\ collect_links(Declaring)[n]' = l
        BY <3>1, <4>1, <4>2 DEF Declaring, collect_links
      <4>5. QED
        BY <4>3, <4>4 DEF Settled, Offers, Declared, IsRemote, collect_links, Named
    <3>9. QED BY <3>1, <3>6, <3>7, <3>8 DEF Past
  <2>6. QED BY <2>2, <2>3, <2>4, <2>5 DEF IInv
<1>3. QED BY <1>1, <1>2

LEMMA Invariance == Spec => []IInv
BY InitKept, StepKept, PTL DEF Spec

\* Every list of sources names sources that exist, and the positions of the two
\* nested loops never leave the lists they run over.
THEOREM TypeCorrect == Spec => []TypeOK
BY Invariance, PTL DEF IInv

\* Neither limit of the settings is ever exceeded, and no locator is opened
\* twice, whatever the links say and however they are nested.
THEOREM LimitsAlwaysHold == Spec => []WithinLimits
BY Invariance, PTL DEF IInv

\* Each source is opened at the depth of the nearest source that offers it,
\* although each level is read in the order in which links are declared.
THEOREM AlwaysNearestFirst == Spec => []NearestFirst
BY Invariance, PTL DEF IInv

-----------------------------------------------------------------------------
(* The answers *)

\* The source at i has no answer yet, or all of them.
Unanswered(i) == \A n \in DOMAIN statuses : statuses[n].declared_by # sources[i].locator

Whole(i) == \E from \in 0 .. Len(statuses) : Answered(i, Len(Followable(i)), from)

\* A source waits in one list, once.
Listed ==
  /\ \A k, l \in DOMAIN frontier : frontier[k] = frontier[l] => k = l
  /\ \A k, l \in DOMAIN next : next[k] = next[l] => k = l
  /\ pc = "done" => at > Len(frontier)

\* The sources before the one that is visited have all their answers, the one that
\* is visited has the last link - 1 statuses, and the others have none.
Progress ==
  /\ \A n \in DOMAIN statuses : statuses[n].declared_by \in opened \union {Nothing}
  /\ \A i \in DOMAIN sources : IsRemote(i) => Unanswered(i)
  /\ \A i \in DOMAIN sources : ~IsRemote(i) /\ sources[i].depth < depth => Whole(i)
  /\ \A k \in DOMAIN frontier : k < at => Whole(frontier[k])
  /\ \A k \in DOMAIN frontier : k > at => Unanswered(frontier[k])
  /\ at <= Len(frontier) =>
       /\ link - 1 <= Len(collect_links(Declaring)) /\ link - 1 <= Len(statuses)
       /\ Answered(Declaring, link - 1, Len(statuses) - (link - 1))
  /\ \A k \in DOMAIN next : Unanswered(next[k])

AInv == IInv /\ Listed /\ Progress

\* What a step that answers a link does to the state.
Visit(outcome) ==
  /\ Visiting(pc) /\ pc \in {"links", "cut"}
  /\ statuses' = Append(statuses, Status(Declaring, Following, outcome))
  /\ link' = link + 1
  /\ UNCHANGED <<given, frontier, depth, at, pc>>

LEMMA StatusFacts ==
  ASSUME TypeOK
  PROVE  /\ Len(statuses) \in Nat /\ DOMAIN statuses = 1 .. Len(statuses)
         /\ \A n \in DOMAIN statuses : statuses[n] \in LinkStatus
<1>1. statuses \in Seq(LinkStatus)
  BY DEF TypeOK
<1>2. Len(statuses) \in Nat /\ DOMAIN statuses = 1 .. Len(statuses)
  BY <1>1, LenProperties
<1>3. QED BY <1>1, <1>2

\* The status appended, and what the earlier ones are.
LEMMA Appended ==
  ASSUME IInv, NEW outcome \in Unreachable \union {"available"}, Visit(outcome)
  PROVE  /\ Len(statuses') = Len(statuses) + 1
         /\ DOMAIN statuses' = 1 .. Len(statuses) + 1
         /\ \A n \in DOMAIN statuses : n \in DOMAIN statuses' /\ statuses'[n] = statuses[n]
         /\ statuses'[Len(statuses) + 1] = Status(Declaring, Following, outcome)
         /\ \A n \in DOMAIN statuses' : n \in DOMAIN statuses \/ n = Len(statuses) + 1
<1>1. Declaring \in DOMAIN sources /\ Following \in Locator
  BY VisitingFacts DEF Visit
<1>2. Status(Declaring, Following, outcome) \in LinkStatus
  BY <1>1, StatusTyped DEF IInv
<1>3. statuses \in Seq(LinkStatus)
  BY DEF IInv, TypeOK
<1>4. /\ statuses' \in Seq(LinkStatus) /\ Len(statuses') = Len(statuses) + 1
      /\ \A n \in 1 .. Len(statuses) : statuses'[n] = statuses[n]
      /\ statuses'[Len(statuses) + 1] = Status(Declaring, Following, outcome)
  BY <1>2, <1>3, AppendProperties DEF Visit
<1>5. DOMAIN statuses' = 1 .. Len(statuses) + 1 /\ DOMAIN statuses = 1 .. Len(statuses)
      /\ Len(statuses) \in Nat
  BY <1>3, <1>4, LenProperties
<1>6. QED BY <1>4, <1>5

\* An answer for one source leaves what the others have.
LEMMA OthersAnswered ==
  ASSUME IInv, NEW outcome \in Unreachable \union {"available"}, Visit(outcome),
         \A i \in DOMAIN sources : i \in DOMAIN sources' /\ sources'[i] = sources[i],
         NEW j \in DOMAIN sources, j # Declaring
  PROVE  /\ Unanswered(j) => Unanswered(j)'
         /\ Whole(j) => Whole(j)'
<1>1. Declaring \in DOMAIN sources
  BY VisitingFacts DEF Visit
<1>2. sources[j].locator # sources[Declaring].locator /\ sources'[j] = sources[j]
  BY <1>1 DEF IInv, WithinLimits
<1>3. statuses'[Len(statuses) + 1].declared_by # sources[j].locator
  <2>1. statuses'[Len(statuses) + 1] = Status(Declaring, Following, outcome)
    BY Appended
  <2>2. QED BY <1>2, <2>1 DEF Status
<1>4. ASSUME Unanswered(j) PROVE Unanswered(j)'
  <2>1. ASSUME NEW n \in DOMAIN statuses'
        PROVE  statuses'[n].declared_by # sources[j].locator
    <3>1. CASE n \in DOMAIN statuses
      <4>1. statuses'[n] = statuses[n]
        BY <3>1, Appended
      <4>2. QED BY <1>4, <3>1, <4>1 DEF Unanswered
    <3>2. CASE n = Len(statuses) + 1
      BY <1>3, <3>2
    <3>3. QED BY <2>1, <3>1, <3>2, Appended
  <2>2. QED BY <1>2, <2>1 DEF Unanswered
<1>5. ASSUME Whole(j) PROVE Whole(j)'
  <2>1. PICK from \in 0 .. Len(statuses) : Answered(j, Len(Followable(j)), from)
    BY <1>5 DEF Whole
  <2>2. world' = world
    BY DEF Visit, given
  <2>3. collect_links(j)' = collect_links(j) /\ Followable(j)' = Followable(j)
    BY <1>2, <2>2 DEF collect_links, Followable, IsRemote
  <2>4. Len(Followable(j)) \in Nat
    BY LinksTyped, EmptySeq DEF IInv, Followable
  <2>5. Len(statuses) \in Nat /\ DOMAIN statuses = 1 .. Len(statuses)
    BY StatusFacts DEF IInv
  <2>6. /\ Len(statuses') = Len(statuses) + 1
        /\ \A n \in DOMAIN statuses : statuses'[n] = statuses[n]
        /\ \A n \in DOMAIN statuses' : n \in DOMAIN statuses \/ n = Len(statuses) + 1
    BY Appended
  <2>7. from \in 0 .. Len(statuses') /\ from + Len(Followable(j)) <= Len(statuses')
    BY <2>1, <2>4, <2>5, <2>6 DEF Answered
  <2>8. ASSUME NEW n \in 1 .. Len(Followable(j))
        PROVE  /\ statuses'[from + n].declared_by = sources[j].locator
               /\ statuses'[from + n].locator = collect_links(j)[n]
    <3>1. from + n \in DOMAIN statuses
      BY <2>1, <2>4, <2>5 DEF Answered
    <3>2. QED BY <2>1, <2>6, <3>1 DEF Answered
  <2>9. ASSUME NEW n \in DOMAIN statuses', statuses'[n].declared_by = sources[j].locator
        PROVE  n \in from + 1 .. from + Len(Followable(j))
    <3>1. n \in DOMAIN statuses
      BY <1>3, <2>6, <2>9
    <3>2. QED BY <2>1, <2>6, <2>9, <3>1 DEF Answered
  <2>10. Answered(j, Len(Followable(j)), from)'
    BY <1>2, <2>3, <2>7, <2>8, <2>9 DEF Answered
  <2>11. QED BY <2>7, <2>10 DEF Whole
<1>6. QED BY <1>4, <1>5

\* The source that is visited has one answer more, and it is the last one.
LEMMA VisitedAnswered ==
  ASSUME AInv, NEW outcome \in Unreachable \union {"available"}, Visit(outcome),
         \A i \in DOMAIN sources : i \in DOMAIN sources' /\ sources'[i] = sources[i]
  PROVE  /\ Declaring' = Declaring /\ collect_links(Declaring)' = collect_links(Declaring)
         /\ link' - 1 <= Len(collect_links(Declaring)) /\ link' - 1 <= Len(statuses')
         /\ Answered(Declaring, link - 1, Len(statuses) - (link - 1))'
<1>1. /\ Declaring \in DOMAIN sources /\ at \in DOMAIN frontier
      /\ link \in DOMAIN collect_links(Declaring)
  BY VisitingFacts DEF AInv, Visit
<1>2. Declaring' = Declaring /\ sources'[Declaring] = sources[Declaring]
  BY <1>1 DEF Visit, Declaring
<1>3. collect_links(Declaring)' = collect_links(Declaring)
  BY <1>2 DEF collect_links, Visit, given
<1>4. /\ Len(statuses) \in Nat /\ DOMAIN statuses = 1 .. Len(statuses)
      /\ link \in Nat \ {0} /\ Len(collect_links(Declaring)) \in Nat
      /\ DOMAIN collect_links(Declaring) = 1 .. Len(collect_links(Declaring))
  BY <1>1, StatusFacts, LinksTyped DEF AInv, IInv, TypeOK
<1>5. /\ Len(statuses') = Len(statuses) + 1 /\ link' = link + 1
      /\ \A n \in DOMAIN statuses : statuses'[n] = statuses[n]
      /\ statuses'[Len(statuses) + 1] = Status(Declaring, Following, outcome)
      /\ \A n \in DOMAIN statuses' : n \in DOMAIN statuses \/ n = Len(statuses) + 1
  BY Appended DEF AInv, Visit
<1> DEFINE from == Len(statuses) - (link - 1)
<1>6. Answered(Declaring, link - 1, from) /\ link - 1 <= Len(statuses)
  BY DEF AInv, Progress, Visit, Visiting
<1>7. /\ from \in Nat /\ from + link = Len(statuses) + 1 /\ from + (link - 1) = Len(statuses)
      /\ link' - 1 = link /\ Len(statuses') - (link' - 1) = from
  BY <1>4, <1>5, <1>6
<1> HIDE DEF from
<1>8. ASSUME NEW n \in 1 .. link
      PROVE  /\ statuses'[from + n].declared_by = sources[Declaring].locator
             /\ statuses'[from + n].locator = collect_links(Declaring)[n]
  <2>1. CASE n = link
    BY <1>5, <1>7, <2>1 DEF Status, Following
  <2>2. CASE n # link
    <3>1. n \in 1 .. link - 1 /\ from + n \in DOMAIN statuses
      BY <1>4, <1>7, <2>2
    <3>2. QED BY <1>5, <1>6, <3>1 DEF Answered
  <2>3. QED BY <2>1, <2>2
<1>9. ASSUME NEW n \in DOMAIN statuses', statuses'[n].declared_by = sources[Declaring].locator
      PROVE  n \in from + 1 .. from + link
  <2>1. CASE n = Len(statuses) + 1
    BY <1>4, <1>7, <2>1
  <2>2. CASE n \in DOMAIN statuses
    <3>1. n \in from + 1 .. from + (link - 1)
      BY <1>5, <1>6, <1>9, <2>2 DEF Answered
    <3>2. QED BY <1>4, <1>7, <3>1
  <2>3. QED BY <1>5, <2>1, <2>2
<1>10. PICK d, l, f : d = Declaring /\ l = link /\ f = from
  OBVIOUS
<1>11. Answered(d, l, f)'
  <2>1. from + link <= Len(statuses')
    BY <1>4, <1>5, <1>7
  <2>2. QED BY <1>2, <1>3, <1>8, <1>9, <1>10, <2>1 DEF Answered, collect_links
<1>12. Answered(Declaring, link - 1, Len(statuses) - (link - 1))'
  BY <1>2, <1>7, <1>10, <1>11
<1>13. link' - 1 <= Len(collect_links(Declaring)) /\ link' - 1 <= Len(statuses')
  BY <1>1, <1>4, <1>5, <1>6, <1>7
<1>14. QED BY <1>2, <1>3, <1>12, <1>13

\* A step that answers a link keeps the account of the answers.
LEMMA VisitKept ==
  ASSUME AInv, IInv', NEW outcome \in Unreachable \union {"available"}, Visit(outcome),
         \A i \in DOMAIN sources : i \in DOMAIN sources' /\ sources'[i] = sources[i],
         opened \subseteq opened',
         \A i \in DOMAIN sources' : i \in DOMAIN sources
           \/ /\ sources'[i].locator \notin opened \union {Nothing}
              /\ sources'[i].depth = depth + 1,
         \A k \in DOMAIN next' : (k \in DOMAIN next /\ next'[k] = next[k])
           \/ (next'[k] \in DOMAIN sources' \ DOMAIN sources),
         \A k, l \in DOMAIN next' : next'[k] = next'[l] => k = l
  PROVE  Listed' /\ Progress'
<1>1. /\ Declaring \in DOMAIN sources /\ at \in DOMAIN frontier
      /\ sources[Declaring].depth = depth /\ ~IsRemote(Declaring)
  BY VisitingFacts DEF AInv, Visit
<1>2. /\ frontier' = frontier /\ depth' = depth /\ at' = at /\ pc' = pc /\ pc \in {"links", "cut"}
      /\ world' = world
  BY DEF Visit, given
<1>3. /\ depth \in Nat /\ at \in Nat /\ DOMAIN frontier = 1 .. Len(frontier)
      /\ DOMAIN next = 1 .. Len(next)
      /\ \A k \in DOMAIN frontier : frontier[k] \in DOMAIN sources
      /\ \A k \in DOMAIN next : next[k] \in DOMAIN sources
  BY TypeFacts DEF AInv, IInv
<1>4. Listed'
  BY <1>2 DEF AInv, Listed
<1>5. \A i \in DOMAIN sources' : i \in DOMAIN sources' \ DOMAIN sources => Unanswered(i)'
  <2> SUFFICES ASSUME NEW i \in DOMAIN sources' \ DOMAIN sources
               PROVE  Unanswered(i)'
    OBVIOUS
  <2>1. sources'[i].locator \notin opened \union {Nothing}
    OBVIOUS
  <2>2. sources[Declaring].locator \in opened \union {Nothing}
    <3>1. Declaring = 1 \/ Declaring \in Linked
      BY <1>1, TypeFacts DEF AInv, IInv, Linked
    <3>2. QED BY <3>1 DEF AInv, IInv, SourcesKnown
  <2>3. ASSUME NEW n \in DOMAIN statuses'
        PROVE  statuses'[n].declared_by # sources'[i].locator
    <3>1. CASE n \in DOMAIN statuses
      <4>1. statuses'[n] = statuses[n]
        BY <3>1, Appended DEF AInv
      <4>2. QED BY <2>1, <3>1, <4>1 DEF AInv, Progress
    <3>2. CASE n = Len(statuses) + 1
      <4>1. statuses'[n] = Status(Declaring, Following, outcome)
        BY <3>2, Appended DEF AInv
      <4>2. QED BY <2>1, <2>2, <4>1 DEF Status
    <3>3. QED BY <2>3, <3>1, <3>2, Appended DEF AInv
  <2>4. QED BY <2>3 DEF Unanswered
<1>6. \A n \in DOMAIN statuses' : statuses'[n].declared_by \in opened' \union {Nothing}
  <2>1. sources[Declaring].locator \in opened \union {Nothing}
    <3>1. Declaring = 1 \/ Declaring \in Linked
      BY <1>1, TypeFacts DEF AInv, IInv, Linked
    <3>2. QED BY <3>1 DEF AInv, IInv, SourcesKnown
  <2>2. ASSUME NEW n \in DOMAIN statuses'
        PROVE  statuses'[n].declared_by \in opened \union {Nothing}
    <3>1. CASE n \in DOMAIN statuses
      <4>1. statuses'[n] = statuses[n]
        BY <3>1, Appended DEF AInv
      <4>2. QED BY <3>1, <4>1 DEF AInv, Progress
    <3>2. CASE n = Len(statuses) + 1
      <4>1. statuses'[n] = Status(Declaring, Following, outcome)
        BY <3>2, Appended DEF AInv
      <4>2. QED BY <2>1, <4>1 DEF Status
    <3>3. QED BY <2>2, <3>1, <3>2, Appended DEF AInv
  <2>3. QED BY <2>2
<1>7. \A j \in DOMAIN sources : j # Declaring =>
        (Unanswered(j) => Unanswered(j)') /\ (Whole(j) => Whole(j)')
  BY OthersAnswered DEF AInv
<1>8. \A i \in DOMAIN sources : IsRemote(i)' = IsRemote(i)
  BY DEF IsRemote
<1>9. ASSUME NEW i \in DOMAIN sources', IsRemote(i)'
      PROVE  Unanswered(i)'
  <2>1. CASE i \in DOMAIN sources
    BY <1>1, <1>7, <1>8, <1>9, <2>1 DEF AInv, Progress
  <2>2. QED BY <1>5, <2>1
<1>10. ASSUME NEW i \in DOMAIN sources', ~IsRemote(i)', sources'[i].depth < depth
       PROVE  Whole(i)'
  <2>1. i \in DOMAIN sources /\ sources'[i] = sources[i]
    BY <1>3, <1>10
  <2>2. i # Declaring /\ Whole(i)
    BY <1>1, <1>3, <1>8, <1>10, <2>1 DEF AInv, Progress
  <2>3. QED BY <1>7, <2>1, <2>2
<1>11. ASSUME NEW k \in DOMAIN frontier, k # at
       PROVE  frontier[k] # Declaring /\ frontier[k] \in DOMAIN sources
  BY <1>1, <1>3, <1>11 DEF AInv, Listed, Declaring
<1>12. \A k \in DOMAIN frontier : k < at => Whole(frontier[k])'
  <2> SUFFICES ASSUME NEW k \in DOMAIN frontier, k < at
               PROVE  Whole(frontier[k])'
    OBVIOUS
  <2>1. PICK j : j = frontier[k]
    OBVIOUS
  <2>2. j \in DOMAIN sources /\ j # Declaring /\ Whole(j)
    BY <1>3, <1>11, <2>1 DEF AInv, Progress
  <2>3. Whole(j)'
    BY <1>7, <2>2
  <2>4. frontier'[k] = j
    BY <1>2, <2>1
  <2>5. QED BY <2>3, <2>4
<1>13. \A k \in DOMAIN frontier : k > at => Unanswered(frontier[k])'
  <2> SUFFICES ASSUME NEW k \in DOMAIN frontier, k > at
               PROVE  Unanswered(frontier[k])'
    OBVIOUS
  <2>1. PICK j : j = frontier[k]
    OBVIOUS
  <2>2. j \in DOMAIN sources /\ j # Declaring /\ Unanswered(j)
    BY <1>3, <1>11, <2>1 DEF AInv, Progress
  <2>3. Unanswered(j)'
    BY <1>7, <2>2
  <2>4. frontier'[k] = j
    BY <1>2, <2>1
  <2>5. QED BY <2>3, <2>4
<1>14. ASSUME NEW k \in DOMAIN next'
       PROVE  Unanswered(next[k])'
  <2>1. PICK j : j = next'[k]
    OBVIOUS
  <2>2. CASE k \in DOMAIN next /\ next'[k] = next[k]
    <3>1. j \in DOMAIN sources /\ sources[j].depth = depth + 1 /\ Unanswered(j)
      BY <1>3, <2>1, <2>2 DEF AInv, IInv, Levels, Progress
    <3>2. j # Declaring
      BY <1>1, <1>3, <3>1
    <3>3. QED BY <1>7, <2>1, <3>1, <3>2
  <2>3. CASE next'[k] \in DOMAIN sources' \ DOMAIN sources
    <3>1. Unanswered(j)'
      BY <1>5, <2>1, <2>3
    <3>2. QED BY <2>1, <3>1
  <2>4. QED BY <2>2, <2>3
<1>15. /\ Declaring' = Declaring
       /\ link' - 1 <= Len(collect_links(Declaring)') /\ link' - 1 <= Len(statuses')
       /\ Answered(Declaring, link - 1, Len(statuses) - (link - 1))'
  BY VisitedAnswered
<1>16. Progress'
  BY <1>2, <1>6, <1>9, <1>10, <1>12, <1>13, <1>14, <1>15 DEF Progress
<1>17. QED BY <1>4, <1>16

\* Steps that answer nothing leave what each source has.
LEMMA NoAnswerKept ==
  ASSUME UNCHANGED <<given, sources, statuses, opened>>
  PROVE  \A i : /\ Unanswered(i)' = Unanswered(i) /\ Whole(i)' = Whole(i)
                /\ IsRemote(i)' = IsRemote(i) /\ collect_links(i)' = collect_links(i)
                /\ \A n, from : Answered(i, n, from)' = Answered(i, n, from)
<1>1. world' = world /\ sources' = sources /\ statuses' = statuses
  BY DEF given
<1>2. QED
  BY <1>1 DEF Unanswered, Whole, Answered, Followable, IsRemote, collect_links

LEMMA LevelStepsAnswered ==
  ASSUME AInv, LimitDepth \/ BeginLevel \/ Finish \/ EndCut
  PROVE  Listed' /\ Progress'
<1>1. UNCHANGED <<given, sources, statuses, opened, frontier, next, depth, at, link>>
  BY DEF LimitDepth, BeginLevel, Finish, EndCut
<1>2. pc' = "done" => at > Len(frontier)
  <2>1. CASE Finish
    <3>1. frontier = <<>> /\ at \in 1 .. Len(frontier) + 1
      BY <2>1 DEF Finish, AInv, IInv, TypeOK
    <3>2. QED BY <3>1
  <2>2. CASE EndCut
    BY <2>2 DEF EndCut
  <2>3. CASE LimitDepth \/ BeginLevel
    BY <2>3 DEF LimitDepth, BeginLevel
  <2>4. QED BY <2>1, <2>2, <2>3
<1>3. Listed'
  BY <1>1, <1>2 DEF AInv, Listed
<1>4. Progress'
  BY <1>1 DEF AInv, Progress, Unanswered, Whole, Answered, Followable, IsRemote, collect_links,
              Declaring, given
<1>5. QED BY <1>3, <1>4

LEMMA NextSourceAnswered ==
  ASSUME AInv, NextSource
  PROVE  Listed' /\ Progress'
<1>1. /\ pc \in {"links", "cut"} /\ at <= Len(frontier)
      /\ link > Len(collect_links(Declaring))
      /\ at' = at + 1 /\ link' = 1
      /\ UNCHANGED <<given, sources, statuses, opened, frontier, next, depth, pc>>
  BY DEF NextSource, AtLastLink
<1>2. /\ at \in Nat \ {0} /\ DOMAIN frontier = 1 .. Len(frontier) /\ Len(frontier) \in Nat
      /\ \A k \in DOMAIN frontier : frontier[k] \in DOMAIN sources
      /\ Len(statuses) \in Nat /\ link \in Nat \ {0} /\ DOMAIN statuses = 1 .. Len(statuses)
  BY TypeFacts, StatusFacts DEF AInv, IInv, TypeOK
<1>3. Declaring \in DOMAIN sources /\ at \in DOMAIN frontier /\ ~IsRemote(Declaring)
  BY <1>1, <1>2 DEF Declaring, AInv, IInv, Levels
<1>4. Len(collect_links(Declaring)) \in Nat
  BY <1>3, LinksTyped DEF AInv, IInv
<1>5. Whole(Declaring)
  <2>1. /\ link - 1 = Len(Followable(Declaring)) /\ link - 1 <= Len(statuses)
        /\ Answered(Declaring, link - 1, Len(statuses) - (link - 1))
    BY <1>1, <1>2, <1>3, <1>4 DEF AInv, Progress, Followable
  <2>2. Len(statuses) - (link - 1) \in 0 .. Len(statuses)
    BY <1>2, <2>1
  <2>3. QED BY <2>1, <2>2 DEF Whole
<1>6. \A i : /\ Unanswered(i)' = Unanswered(i) /\ Whole(i)' = Whole(i)
             /\ IsRemote(i)' = IsRemote(i) /\ collect_links(i)' = collect_links(i)
             /\ \A n, from : Answered(i, n, from)' = Answered(i, n, from)
  BY <1>1, NoAnswerKept
<1>7. Listed'
  BY <1>1 DEF AInv, Listed
<1>8. ASSUME NEW k \in DOMAIN frontier, k < at + 1
      PROVE  Whole(frontier[k])'
  <2>1. Whole(frontier[k])
    <3>1. CASE k = at
      BY <1>5, <3>1 DEF Declaring
    <3>2. CASE k # at
      <4>1. k < at
        BY <1>2, <1>8, <3>2
      <4>2. QED BY <1>8, <4>1 DEF AInv, Progress
    <3>3. QED BY <3>1, <3>2
  <2>2. QED BY <1>1, <2>1 DEF Whole, Answered, Followable, IsRemote, collect_links, given
<1>9. ASSUME NEW k \in DOMAIN frontier, k > at
      PROVE  Unanswered(frontier[k])'
  <2>1. Unanswered(frontier[k])
    BY <1>2, <1>9 DEF AInv, Progress
  <2>2. QED BY <1>1, <2>1 DEF Unanswered
<1>10. ASSUME at + 1 <= Len(frontier)
       PROVE  /\ link' - 1 <= Len(collect_links(Declaring)') /\ link' - 1 <= Len(statuses')
              /\ Answered(Declaring, link - 1, Len(statuses) - (link - 1))'
  <2>1. PICK j \in DOMAIN sources : j = frontier[at + 1]
    BY <1>2, <1>10
  <2>2. Unanswered(j)
    BY <1>2, <1>10, <2>1 DEF AInv, Progress
  <2>3. Declaring' = j
    BY <1>1, <2>1 DEF Declaring
  <2>4. Len(collect_links(j)) \in Nat /\ collect_links(j)' = collect_links(j)
    BY <1>6, LinksTyped DEF AInv, IInv
  <2>5. collect_links(Declaring)' = collect_links(j)
    BY <1>1, <2>3 DEF collect_links, given
  <2>6. Answered(j, 0, Len(statuses))
    BY <1>2, <2>2 DEF Answered, Unanswered
  <2>7. Answered(j, 0, Len(statuses))'
    BY <1>1, <2>6 DEF Answered, collect_links, given
  <2>8. link' - 1 = 0 /\ Len(statuses') - (link' - 1) = Len(statuses')
    BY <1>1, <1>2
  <2>9. QED BY <1>1, <1>2, <2>3, <2>4, <2>5, <2>7, <2>8
<1>11. \A k \in DOMAIN frontier : (k < at' => k < at + 1) /\ (k > at' => k > at)
  BY <1>1, <1>2
<1>12. /\ \A k \in DOMAIN frontier' : k < at' => Whole(frontier[k])'
       /\ \A k \in DOMAIN frontier' : k > at' => Unanswered(frontier[k])'
  BY <1>1, <1>8, <1>9, <1>11
<1>13. /\ \A n \in DOMAIN statuses' : statuses'[n].declared_by \in opened' \union {Nothing}
       /\ \A i \in DOMAIN sources' : IsRemote(i)' => Unanswered(i)'
       /\ \A i \in DOMAIN sources' : ~IsRemote(i)' /\ sources'[i].depth < depth' => Whole(i)'
  BY <1>1, <1>6 DEF AInv, Progress
<1>14. \A k \in DOMAIN next' : Unanswered(next[k])'
  BY <1>1 DEF AInv, Progress, Unanswered
<1>15. Progress'
  BY <1>1, <1>10, <1>12, <1>13, <1>14 DEF Progress
<1>16. QED BY <1>7, <1>15

LEMMA NextLevelAnswered ==
  ASSUME AInv, NextLevel
  PROVE  Listed' /\ Progress'
<1>1. /\ pc = "links" /\ at > Len(frontier)
      /\ frontier' = next /\ next' = <<>> /\ depth' = depth + 1
      /\ at' = 1 /\ link' = 1 /\ pc' = "level"
      /\ UNCHANGED <<given, sources, statuses, opened>>
  BY DEF NextLevel
<1>2. /\ depth \in Nat /\ DOMAIN frontier = 1 .. Len(frontier) /\ Len(frontier) \in Nat
      /\ at \in Nat /\ Len(next) \in Nat /\ DOMAIN next = 1 .. Len(next)
      /\ \A k \in DOMAIN next : next[k] \in DOMAIN sources
      /\ \A i \in DOMAIN sources : sources[i].depth \in Nat
      /\ Len(statuses) \in Nat /\ DOMAIN statuses = 1 .. Len(statuses)
  BY TypeFacts, StatusFacts DEF AInv, IInv, Source
<1>3. \A i : /\ Unanswered(i)' = Unanswered(i) /\ Whole(i)' = Whole(i)
             /\ IsRemote(i)' = IsRemote(i) /\ collect_links(i)' = collect_links(i)
             /\ \A n, from : Answered(i, n, from)' = Answered(i, n, from)
  BY <1>1, NoAnswerKept
<1>4. Listed'
  BY <1>1 DEF AInv, Listed
<1>5. ASSUME NEW i \in DOMAIN sources, ~IsRemote(i), sources[i].depth < depth + 1
      PROVE  Whole(i)
  <2>1. CASE sources[i].depth < depth
    BY <1>5, <2>1 DEF AInv, Progress
  <2>2. CASE sources[i].depth = depth
    <3>1. PICK k \in DOMAIN frontier : frontier[k] = i
      BY <1>2, <1>5, <2>2 DEF AInv, IInv, Levels
    <3>2. k < at
      BY <1>1, <1>2
    <3>3. QED BY <3>1, <3>2 DEF AInv, Progress
  <2>3. QED BY <1>2, <1>5, <2>1, <2>2
<1>6. ASSUME NEW k \in DOMAIN next
      PROVE  Unanswered(next[k])
  BY <1>6 DEF AInv, Progress
<1>7. ASSUME 1 <= Len(next)
      PROVE  /\ link' - 1 <= Len(collect_links(Declaring)') /\ link' - 1 <= Len(statuses')
             /\ Answered(Declaring, link - 1, Len(statuses) - (link - 1))'
  <2>1. PICK j \in DOMAIN sources : j = next[1]
    BY <1>2, <1>7
  <2>2. Unanswered(j)
    BY <1>2, <1>6, <1>7, <2>1
  <2>3. Declaring' = j
    BY <1>1, <2>1 DEF Declaring
  <2>4. Len(collect_links(j)) \in Nat /\ collect_links(Declaring)' = collect_links(j)
    BY <1>1, <2>3, LinksTyped DEF AInv, IInv, collect_links, given
  <2>5. Answered(j, 0, Len(statuses))
    BY <1>2, <2>2 DEF Answered, Unanswered
  <2>6. Answered(j, 0, Len(statuses))'
    BY <1>1, <2>5 DEF Answered, collect_links, given
  <2>7. link' - 1 = 0 /\ Len(statuses') - (link' - 1) = Len(statuses')
    BY <1>1, <1>2
  <2>8. QED BY <1>1, <1>2, <2>3, <2>4, <2>6, <2>7
<1>8. /\ \A k \in DOMAIN frontier' : k < at' => Whole(frontier[k])'
      /\ \A k \in DOMAIN frontier' : k > at' => Unanswered(frontier[k])'
  <2>1. ASSUME NEW k \in DOMAIN frontier'
        PROVE  ~(k < at')
    BY <1>1, <1>2
  <2>2. ASSUME NEW k \in DOMAIN frontier'
        PROVE  Unanswered(frontier[k])'
    <3>1. PICK j : j = next[k]
      OBVIOUS
    <3>2. Unanswered(j)'
      BY <1>1, <1>3, <1>6, <3>1
    <3>3. QED BY <1>1, <3>1, <3>2
  <2>3. QED BY <2>1, <2>2
<1>9. /\ \A n \in DOMAIN statuses' : statuses'[n].declared_by \in opened' \union {Nothing}
      /\ \A i \in DOMAIN sources' : IsRemote(i)' => Unanswered(i)'
      /\ \A i \in DOMAIN sources' : ~IsRemote(i)' /\ sources'[i].depth < depth' => Whole(i)'
  BY <1>1, <1>3, <1>5 DEF AInv, Progress
<1>10. Progress'
  BY <1>1, <1>7, <1>8, <1>9 DEF Progress
<1>11. QED BY <1>4, <1>10

LEMMA AnsweringKept ==
  ASSUME AInv, IInv', Cut \/ Refuse
  PROVE  Listed' /\ Progress'
<1>1. PICK outcome \in Unreachable : Visit(outcome)
  BY DEF Cut, Refuse, Answer, Visit, Visiting, Unreachable
<1>2. UNCHANGED <<sources, opened, next>>
  BY DEF Cut, Refuse
<1>3. QED BY <1>1, <1>2, VisitKept DEF AInv, Listed

LEMMA OpeningKept ==
  ASSUME AInv, IInv', OpenRemote \/ OpenLocal
  PROVE  Listed' /\ Progress'
<1>1. Open
  BY DEF OpenRemote, OpenLocal
<1>2. Visit("available")
  BY <1>1 DEF Open, Answer, Visit, Visiting
<1>3. /\ \A i \in DOMAIN sources : i \in DOMAIN sources' /\ sources'[i] = sources[i]
      /\ opened \subseteq opened'
      /\ DOMAIN sources' = 1 .. New /\ New \notin DOMAIN sources /\ New \in DOMAIN sources'
      /\ sources'[New].locator \notin opened \union {Nothing}
      /\ sources'[New].depth = depth + 1
      /\ Len(sources') = New
  BY <1>1, Opening, FederationAssumption DEF AInv
<1>4. \A i \in DOMAIN sources' : i \in DOMAIN sources \/ i = New
  <2>1. DOMAIN sources = 1 .. Len(sources) /\ Len(sources) \in Nat
    BY TypeFacts DEF AInv, IInv
  <2>2. QED BY <1>3, <2>1 DEF New
<1>5. next' = next \/ next' = Append(next, New)
  BY <1>3 DEF OpenRemote, OpenLocal
<1>6. /\ \A k \in DOMAIN next : k \in DOMAIN next' /\ next'[k] = next[k]
      /\ \A k \in DOMAIN next' : k \in DOMAIN next \/ next'[k] = New
  BY <1>1, <1>5, ListsKept DEF AInv
<1>7. \A k \in DOMAIN next : next[k] \in DOMAIN sources
  BY TypeFacts DEF AInv, IInv
<1>8. ASSUME NEW k \in DOMAIN next', NEW l \in DOMAIN next', next'[k] = next'[l]
      PROVE  k = l
  <2>1. CASE k \in DOMAIN next /\ l \in DOMAIN next
    BY <1>6, <1>8, <2>1 DEF AInv, Listed
  <2>2. CASE k \notin DOMAIN next /\ l \notin DOMAIN next
    <3>1. /\ DOMAIN next = 1 .. Len(next) /\ Len(next) \in Nat
      BY TypeFacts DEF AInv, IInv
    <3>2. DOMAIN next' \subseteq 1 .. Len(next) + 1
      <4>1. CASE next' = next
        BY <3>1, <4>1
      <4>2. CASE next' = Append(next, New)
        <5>1. next \in Seq(1 .. Len(sources))
          BY DEF AInv, IInv, TypeOK
        <5>2. QED BY <3>1, <4>2, <5>1
      <4>3. QED BY <1>5, <4>1, <4>2
    <3>3. QED BY <2>2, <3>1, <3>2
  <2>3. CASE k \in DOMAIN next /\ l \notin DOMAIN next
    BY <1>3, <1>6, <1>7, <1>8, <2>3
  <2>4. CASE k \notin DOMAIN next /\ l \in DOMAIN next
    BY <1>3, <1>6, <1>7, <1>8, <2>4
  <2>5. QED BY <2>1, <2>2, <2>3, <2>4
<1>9. QED BY <1>2, <1>3, <1>4, <1>6, <1>8, VisitKept DEF Unreachable

LEMMA AnswersKept == AInv /\ [Next]_vars => AInv'
<1> SUFFICES ASSUME AInv, [Next]_vars PROVE AInv'
  OBVIOUS
<1>1. IInv'
  BY StepKept DEF AInv
<1>2. CASE Next
  <2>1. Listed' /\ Progress'
    BY <1>1, <1>2, LevelStepsAnswered, NextSourceAnswered, NextLevelAnswered, AnsweringKept,
       OpeningKept DEF Next
  <2>2. QED BY <1>1, <2>1 DEF AInv
<1>3. CASE UNCHANGED vars
  <2>1. Listed'
    BY <1>3 DEF AInv, Listed, vars
  <2>2. Progress'
    BY <1>3 DEF AInv, Progress, Unanswered, Whole, Answered, Followable, IsRemote, collect_links,
                Declaring, vars, given
  <2>3. QED BY <1>1, <2>1, <2>2 DEF AInv
<1>4. QED BY <1>2, <1>3

LEMMA InitAnswers == Init => AInv
<1> SUFFICES ASSUME Init PROVE AInv
  OBVIOUS
<1>1. IInv
  BY InitKept
<1>2. /\ frontier = <<1>> /\ next = <<>> /\ statuses = <<>> /\ pc = "level"
      /\ at = 1 /\ link = 1 /\ depth = 0
  BY DEF Init
<1>3. Len(statuses) = 0 /\ DOMAIN statuses = {} /\ DOMAIN next = {} /\ DOMAIN frontier = {1}
  BY <1>2
<1>4. Listed
  BY <1>2, <1>3 DEF Listed
<1>5. Answered(Declaring, 0, 0)
  BY <1>3 DEF Answered
<1>6. \A i \in DOMAIN sources : Unanswered(i) /\ ~(sources[i].depth < 0)
  BY <1>1, <1>3, TypeFacts DEF Unanswered, IInv, Source
<1>7. Len(collect_links(Declaring)) \in Nat
  <2>1. Declaring \in DOMAIN sources
    BY <1>1, <1>2, <1>3, TypeFacts DEF Declaring, IInv
  <2>2. QED BY <1>1, <2>1, LinksTyped DEF IInv
<1>8. Progress
  BY <1>2, <1>3, <1>5, <1>6, <1>7 DEF Progress
<1>9. QED BY <1>1, <1>4, <1>8 DEF AInv

\* When the walk has ended every source is behind it.
LEMMA EndAnswers == AInv => EveryLinkAnswered
<1> SUFFICES ASSUME AInv, pc = "done", NEW i \in DOMAIN sources
             PROVE  Whole(i)
  BY DEF EveryLinkAnswered, Whole
<1>1. /\ at > Len(frontier) /\ DOMAIN frontier = 1 .. Len(frontier) /\ Len(frontier) \in Nat
      /\ at \in Nat /\ depth \in Nat /\ sources[i].depth \in Nat
      /\ Len(statuses) \in Nat /\ DOMAIN statuses = 1 .. Len(statuses)
  BY TypeFacts, StatusFacts DEF AInv, IInv, Listed, Source
<1>2. CASE IsRemote(i)
  <2>1. Unanswered(i) /\ Len(Followable(i)) = 0
    BY <1>2 DEF AInv, Progress, Followable
  <2>2. Answered(i, 0, 0)
    BY <1>1, <2>1 DEF Answered, Unanswered
  <2>3. QED BY <1>1, <2>1, <2>2 DEF Whole
<1>3. CASE ~IsRemote(i) /\ sources[i].depth < depth
  BY <1>3 DEF AInv, Progress
<1>4. CASE ~IsRemote(i) /\ sources[i].depth = depth
  <2>1. PICK k \in DOMAIN frontier : frontier[k] = i
    BY <1>1, <1>4 DEF AInv, IInv, Levels
  <2>2. k < at
    BY <1>1
  <2>3. QED BY <2>1, <2>2 DEF AInv, Progress
<1>5. QED BY <1>2, <1>3, <1>4 DEF AInv, IInv, Levels

\* A caller finds in the statuses each link of each source that was opened, whether
\* it was followed, refused or cut, and finds it once.
THEOREM LinksAlwaysAnswered == Spec => []EveryLinkAnswered
<1>1. Spec => []AInv
  BY InitAnswers, AnswersKept, PTL DEF Spec
<1>2. QED BY <1>1, EndAnswers, PTL

-----------------------------------------------------------------------------
(* What the walk reaches *)

\* Every source was reached as the reference definition reaches it, and a link that
\* offers something was opened, here or elsewhere, or else cut by a limit.
Found ==
  /\ sources[1].file = Root
  /\ \A i \in DOMAIN sources : IF IsRemote(i) THEN sources[i].file \in Reachable
                                               ELSE sources[i].file \in Near
  /\ \A i \in Linked : \E base \in Base : sources[i].file = Named(base, sources[i].locator)
  /\ \A n \in DOMAIN statuses : \A i \in DOMAIN sources :
       statuses[n].declared_by = sources[i].locator =>
         \/ statuses[n].outcome = "LimitExceeded"
         \/ statuses[n].locator \in opened
         \/ ~Offers(i, statuses[n].locator)

FInv == AInv /\ Found

\* A refusal that no limit explains is of a locator already opened or of one that
\* offers nothing.
LEMMA RefusalExplained ==
  ASSUME FInv, NEW outcome \in Unreachable, Answer(outcome), outcome # "LimitExceeded",
         Following \notin opened
  PROVE  ~Offers(Declaring, Following)
<1>1. Followed(From, Following) = outcome /\ outcome # "available"
  BY DEF Answer, Unreachable
<1>2. SUFFICES ASSUME Offers(Declaring, Following) PROVE FALSE
  OBVIOUS
<1>3. /\ Named(From, Following) # Nothing
      /\ IF Following \in Remote THEN world.provider
         ELSE Named(From, Following) \in world.readable
  BY <1>2 DEF Offers, From
<1>4. QED BY <1>1, <1>3 DEF Followed

\* A local file that a local source names is near, a remote one is delivered.
LEMMA OpenedIsReachable ==
  ASSUME FInv, Open
  PROVE  IF Following \in Remote THEN Named(From, Following) \in Reachable
                                  ELSE Named(From, Following) \in Near
<1>1. /\ Declaring \in DOMAIN sources /\ Following \in Locator /\ ~IsRemote(Declaring)
      /\ link \in DOMAIN collect_links(Declaring)
  BY VisitingFacts DEF FInv, AInv, Open, Answer
<1>2. Offers(Declaring, Following)
  BY Opening DEF FInv, AInv
<1>3. PICK from, locator, base, file :
        /\ from = sources[Declaring].file /\ locator = Following /\ base = From
        /\ file = Named(From, Following)
  OBVIOUS
<1>4. from \in File /\ from \in Near
  BY <1>1, <1>3, TypeFacts DEF FInv, Found, AInv, IInv, Source
<1>5. /\ link \in DOMAIN world.links[from] /\ locator = world.links[from][link]
      /\ base = world.base[from]
  BY <1>1, <1>3 DEF collect_links, Following, From
<1>6. /\ file # Nothing /\ file = Named(base, locator) /\ locator \in Locator
      /\ IF locator \in Remote THEN world.provider ELSE file \in world.readable
  BY <1>1, <1>2, <1>3 DEF Offers, From
<1>7. /\ world.base \in [File -> Base]
      /\ world.target \in [Base -> [Local -> File \union {Nothing}]]
      /\ world.delivers \in [Remote -> File \union {Nothing}]
  BY DEF FInv, AInv, IInv, TypeOK, WorldKind
<1>8. CASE locator \in Remote
  <2>1. file = world.delivers[locator] /\ world.provider
    BY <1>6, <1>8 DEF Named
  <2>2. file \in File
    BY <1>6, <1>7, <1>8, <2>1
  <2>3. file \in Reachable
    BY <1>4, <1>5, <1>8, <2>1, <2>2 DEF Reachable
  <2>4. QED BY <1>3, <1>8, <2>3
<1>9. CASE locator \notin Remote
  <2>1. file = world.target[base][locator] /\ file \in world.readable /\ locator \in Local
    BY <1>6, <1>9 DEF Named, Local
  <2>2. file \in File
    <3>1. base \in Base
      BY <1>4, <1>5, <1>7
    <3>2. QED BY <1>6, <1>7, <2>1, <3>1
  <2>3. ASSUME NEW files \in SUBSET File, Root \in files, ClosedUnderLinks(files)
        PROVE  file \in files
    <3>1. from \in files
      BY <1>4, <2>3 DEF Near
    <3>2. QED BY <1>5, <2>1, <2>3, <3>1 DEF ClosedUnderLinks
  <2>4. file \in Near
    BY <2>2, <2>3 DEF Near
  <2>5. QED BY <1>3, <1>9, <2>4
<1>10. QED BY <1>8, <1>9

\* What is reachable depends on the world only, which never changes.
LEMMA WorldStays ==
  ASSUME world' = world
  PROVE  /\ Reachable' = Reachable /\ Near' = Near
         /\ \A base, locator : Named(base, locator)' = Named(base, locator)
<1>1. \A files : ClosedUnderLinks(files)' = ClosedUnderLinks(files)
  BY DEF ClosedUnderLinks
<1>2. Near' = Near
  BY <1>1 DEF Near
<1>3. Reachable' = Reachable
  BY <1>2 DEF Reachable
<1>4. QED BY <1>2, <1>3 DEF Named

LEMMA SameFound ==
  ASSUME FInv, UNCHANGED <<given, sources, statuses, opened>>
  PROVE  Found'
<1>1. world' = world /\ sources' = sources /\ statuses' = statuses /\ opened' = opened
  BY DEF given
<1>2. /\ Reachable' = Reachable /\ Near' = Near
      /\ \A base, locator : Named(base, locator)' = Named(base, locator)
  BY <1>1, WorldStays
<1>3. Linked' = Linked /\ \A i : IsRemote(i)' = IsRemote(i)
  BY <1>1 DEF Linked, IsRemote
<1>4. \A i, locator : Offers(i, locator)' = Offers(i, locator)
  BY <1>1, <1>3 DEF Offers, Declared, collect_links, Named
<1>5. QED BY <1>1, <1>2, <1>3, <1>4 DEF FInv, Found, Named

LEMMA AnsweringFound ==
  ASSUME FInv, Cut \/ Refuse
  PROVE  Found'
<1>1. PICK outcome \in Unreachable :
        /\ Visit(outcome)
        /\ (outcome = "LimitExceeded" \/ Answer(outcome))
  BY DEF Cut, Refuse, Answer, Visit, Visiting, Unreachable
<1>2. UNCHANGED <<world, sources, opened>>
  BY DEF Cut, Refuse, Answer, given
<1>3. /\ Linked' = Linked /\ Reachable' = Reachable /\ Near' = Near
      /\ \A i : IsRemote(i)' = IsRemote(i)
      /\ \A i, locator : Offers(i, locator)' = Offers(i, locator)
  BY <1>2, WorldStays DEF IsRemote, Linked, Named, Offers, Declared, collect_links
<1>4. ASSUME NEW n \in DOMAIN statuses', NEW i \in DOMAIN sources,
             statuses'[n].declared_by = sources[i].locator
      PROVE  \/ statuses'[n].outcome = "LimitExceeded"
             \/ statuses'[n].locator \in opened
             \/ ~Offers(i, statuses'[n].locator)
  <2>1. CASE n \in DOMAIN statuses
    <3>1. statuses'[n] = statuses[n]
      BY <1>1, <2>1, Appended DEF FInv, AInv
    <3>2. QED BY <1>4, <2>1, <3>1 DEF FInv, Found
  <2>2. CASE n = Len(statuses) + 1
    <3>1. statuses'[n] = Status(Declaring, Following, outcome)
      BY <1>1, <2>2, Appended DEF FInv, AInv
    <3>2. Declaring \in DOMAIN sources
      BY <1>1, VisitingFacts DEF FInv, AInv, Visit
    <3>3. i = Declaring
      BY <1>4, <3>1, <3>2 DEF Status, FInv, AInv, IInv, WithinLimits
    <3>4. statuses'[n].outcome = outcome /\ statuses'[n].locator = Following
      BY <3>1 DEF Status
    <3>5. QED BY <1>1, <3>3, <3>4, RefusalExplained
  <2>3. n \in DOMAIN statuses \/ n = Len(statuses) + 1
    BY <1>1, Appended DEF FInv, AInv
  <2>4. QED BY <2>1, <2>2, <2>3
<1>5. /\ sources'[1].file = Root
      /\ \A i \in DOMAIN sources' : IF IsRemote(i)' THEN sources'[i].file \in Reachable'
                                                    ELSE sources'[i].file \in Near'
  BY <1>2, <1>3 DEF FInv, Found
<1>6. \A i \in Linked' : \E base \in Base : sources'[i].file = Named(base, sources[i].locator)'
  BY <1>2, <1>3 DEF FInv, Found, Named
<1>7. \A n \in DOMAIN statuses' : \A i \in DOMAIN sources' :
        statuses'[n].declared_by = sources'[i].locator =>
          \/ statuses'[n].outcome = "LimitExceeded"
          \/ statuses'[n].locator \in opened'
          \/ ~Offers(i, statuses[n].locator)'
  BY <1>2, <1>4 DEF Offers, Declared, IsRemote, collect_links, Named
<1>8. QED BY <1>5, <1>6, <1>7 DEF Found

LEMMA OpeningFound ==
  ASSUME FInv, AInv', OpenRemote \/ OpenLocal
  PROVE  Found'
<1>1. Open /\ Visit("available")
  BY DEF OpenRemote, OpenLocal, Open, Answer, Visit, Visiting
<1>2. /\ world' = world
      /\ \A i \in DOMAIN sources : i \in DOMAIN sources' /\ sources'[i] = sources[i]
      /\ opened' = opened \union {Following}
      /\ DOMAIN sources' = 1 .. New /\ Len(sources') = New /\ New \in DOMAIN sources'
      /\ Following \notin opened /\ Following \in Locator
      /\ sources'[New].locator = Following /\ sources'[New].file = Named(From, Following)
  BY <1>1, Opening DEF FInv, AInv, given
<1>3. /\ \A i \in DOMAIN sources' : i \in DOMAIN sources \/ i = New
      /\ 1 \in DOMAIN sources
      /\ DOMAIN sources = 1 .. Len(sources) /\ Len(sources) \in Nat
  <2>1. DOMAIN sources = 1 .. Len(sources) /\ Len(sources) \in Nat /\ Len(sources) >= 1
    BY TypeFacts DEF FInv, AInv, IInv, SourcesKnown
  <2>2. QED BY <1>2, <2>1 DEF New
<1>4. /\ Reachable' = Reachable /\ Near' = Near
      /\ \A i \in DOMAIN sources : IsRemote(i)' = IsRemote(i)
      /\ \A i \in DOMAIN sources : \A locator : Offers(i, locator)' = Offers(i, locator)
  BY <1>2, WorldStays DEF IsRemote, Named, Offers, Declared, collect_links
<1>5. sources'[1].file = Root
  BY <1>2, <1>3 DEF FInv, Found
<1>6. ASSUME NEW i \in DOMAIN sources'
      PROVE  IF IsRemote(i)' THEN sources'[i].file \in Reachable ELSE sources'[i].file \in Near
  <2>1. CASE i \in DOMAIN sources
    BY <1>2, <1>4, <2>1 DEF FInv, Found
  <2>2. CASE i = New
    BY <1>1, <1>2, <2>2, OpenedIsReachable DEF IsRemote
  <2>3. QED BY <1>3, <2>1, <2>2
<1>7. ASSUME NEW i \in Linked'
      PROVE  \E base \in Base : sources'[i].file = Named(base, sources'[i].locator)
  <2>1. CASE i = New
    <3>1. From \in Base
      <4>1. Declaring \in DOMAIN sources
        BY <1>1, VisitingFacts DEF FInv, AInv, Visit
      <4>2. sources[Declaring].file \in File /\ world.base \in [File -> Base]
        BY <4>1, TypeFacts DEF FInv, AInv, IInv, Source, TypeOK, WorldKind
      <4>3. QED BY <4>2 DEF From
    <3>2. QED BY <1>2, <2>1, <3>1
  <2>2. CASE i # New
    <3>1. i \in Linked /\ sources'[i] = sources[i]
      BY <1>2, <1>3, <1>7, <2>2 DEF Linked, New
    <3>2. QED BY <3>1 DEF FInv, Found
  <2>3. QED BY <2>1, <2>2
<1>8. ASSUME NEW n \in DOMAIN statuses', NEW i \in DOMAIN sources',
             statuses'[n].declared_by = sources'[i].locator
      PROVE  \/ statuses'[n].outcome = "LimitExceeded"
             \/ statuses'[n].locator \in opened'
             \/ ~Offers(i, statuses[n].locator)'
  <2>1. CASE n = Len(statuses) + 1
    <3>1. statuses'[n] = Status(Declaring, Following, "available")
      BY <1>1, <2>1, Appended DEF FInv, AInv
    <3>2. QED BY <1>2, <3>1 DEF Status
  <2>2. CASE n \in DOMAIN statuses
    <3>1. statuses'[n] = statuses[n]
      BY <1>1, <2>2, Appended DEF FInv, AInv
    <3>2. i # New
      <4>1. statuses[n].declared_by \in opened \union {Nothing}
        BY <2>2 DEF FInv, AInv, Progress
      <4>2. Following \notin opened \union {Nothing}
        BY <1>2, FederationAssumption
      <4>3. QED BY <1>2, <1>8, <3>1, <4>1, <4>2
    <3>3. i \in DOMAIN sources /\ sources'[i] = sources[i]
      BY <1>2, <1>3, <3>2
    <3>4. \/ statuses[n].outcome = "LimitExceeded"
          \/ statuses[n].locator \in opened
          \/ ~Offers(i, statuses[n].locator)
      BY <1>8, <2>2, <3>1, <3>3 DEF FInv, Found
    <3>5. ~Offers(i, statuses[n].locator) => ~Offers(i, statuses[n].locator)'
      <4>1. PICK l : l = statuses[n].locator
        OBVIOUS
      <4>2. Offers(i, l)' = Offers(i, l)
        BY <1>4, <3>3
      <4>3. statuses'[n].locator = l
        BY <3>1, <4>1
      <4>4. Offers(i, statuses[n].locator)' <=> Offers(i, l)'
        BY <4>3 DEF Offers, Declared, IsRemote, collect_links, Named
      <4>5. QED BY <4>1, <4>2, <4>4
    <3>6. QED BY <1>2, <3>1, <3>4, <3>5
  <2>3. n \in DOMAIN statuses \/ n = Len(statuses) + 1
    BY <1>1, <1>8, Appended DEF FInv, AInv
  <2>4. QED BY <2>1, <2>2, <2>3
<1>9. QED
  <2>1. \A i \in DOMAIN sources' : IF IsRemote(i)' THEN sources'[i].file \in Reachable'
                                                   ELSE sources'[i].file \in Near'
    BY <1>4, <1>6
  <2>2. \A i \in Linked' : \E base \in Base :
          sources'[i].file = Named(base, sources[i].locator)'
    BY <1>2, <1>7 DEF Named
  <2>3. QED BY <1>5, <1>8, <2>1, <2>2 DEF Found

LEMMA FoundKept == FInv /\ [Next]_vars => FInv'
<1> SUFFICES ASSUME FInv, [Next]_vars PROVE FInv'
  OBVIOUS
<1>1. AInv'
  BY AnswersKept DEF FInv
<1>2. CASE LimitDepth \/ BeginLevel \/ Finish \/ EndCut \/ NextSource \/ NextLevel
           \/ UNCHANGED vars
  <2>1. UNCHANGED <<given, sources, statuses, opened>>
    <3>1. CASE LimitDepth \/ BeginLevel \/ Finish \/ EndCut
      BY <3>1 DEF LimitDepth, BeginLevel, Finish, EndCut
    <3>2. CASE NextSource \/ NextLevel
      BY <3>2 DEF NextSource, NextLevel
    <3>3. CASE UNCHANGED vars
      BY <3>3 DEF vars, given
    <3>4. QED BY <1>2, <3>1, <3>2, <3>3
  <2>2. QED BY <1>1, <2>1, SameFound DEF FInv
<1>3. CASE Cut \/ Refuse
  BY <1>1, <1>3, AnsweringFound DEF FInv
<1>4. CASE OpenRemote \/ OpenLocal
  BY <1>1, <1>4, OpeningFound DEF FInv
<1>5. QED BY <1>2, <1>3, <1>4 DEF Next

LEMMA InitFound == Init => FInv
<1> SUFFICES ASSUME Init PROVE FInv
  OBVIOUS
<1>1. AInv
  BY InitAnswers
<1>2. /\ sources = <<[locator |-> Nothing, file |-> Root, depth |-> 0]>> /\ statuses = <<>>
  BY DEF Init
<1>3. /\ DOMAIN sources = {1} /\ sources[1].file = Root /\ sources[1].locator = Nothing
      /\ DOMAIN statuses = {} /\ Linked = {}
  <2>1. Len(sources) = 1 /\ DOMAIN sources = {1} /\ DOMAIN statuses = {}
    BY <1>2
  <2>2. Linked = {}
    BY <2>1 DEF Linked
  <2>3. QED BY <1>2, <2>1, <2>2
<1>4. Root \in Near
  BY FederationAssumption DEF Near
<1>5. QED BY <1>1, <1>3, <1>4 DEF FInv, Found, Reachable

\* What was opened is what the definition reaches: its closure argument is that the
\* files of the local sources are a set with the root that no link leaves.
LEMMA EndReaches == FInv => WalkIsComplete
<1> SUFFICES ASSUME FInv PROVE WalkIsComplete
  OBVIOUS
<1>1. Reached \subseteq Reachable
  BY DEF FInv, Found, Reached, Reachable
<1>2. ASSUME pc = "done", ~LimitHit, OneTarget
      PROVE  Reachable \subseteq Reached
  <2>1. ASSUME NEW i \in DOMAIN sources, NEW locator \in Locator, Offers(i, locator)
        PROVE  \E j \in Linked : sources[j].locator = locator
    <3>1. ~IsRemote(i) /\ locator \in Declared(i)
      BY <2>1 DEF Offers
    <3>2. PICK m \in DOMAIN collect_links(i) : collect_links(i)[m] = locator
      BY <3>1 DEF Declared
    <3>3. PICK from \in 0 .. Len(statuses) : Answered(i, Len(collect_links(i)), from)
      BY <1>2, <2>1, <3>1, EndAnswers DEF FInv, EveryLinkAnswered, Followable
    <3>4. /\ Len(collect_links(i)) \in Nat /\ m \in 1 .. Len(collect_links(i))
          /\ DOMAIN statuses = 1 .. Len(statuses) /\ Len(statuses) \in Nat
      BY <3>2, LinksTyped, StatusFacts DEF FInv, AInv, IInv
    <3>5. /\ from + m \in DOMAIN statuses
          /\ statuses[from + m].declared_by = sources[i].locator
          /\ statuses[from + m].locator = locator
      BY <3>2, <3>3, <3>4 DEF Answered
    <3>6. statuses[from + m].outcome # "LimitExceeded"
      BY <1>2, <3>5 DEF LimitHit
    <3>7. locator \in opened
      BY <2>1, <3>5, <3>6 DEF FInv, Found
    <3>8. QED BY <3>7 DEF FInv, AInv, IInv, SourcesKnown
  <2> DEFINE files == {sources[i].file : i \in {k \in DOMAIN sources : ~IsRemote(k)}}
  <2>2. files \subseteq File /\ Nothing \notin File
    BY TypeFacts, FederationAssumption DEF FInv, AInv, IInv, Source
  <2>3. Root \in files
    <3>1. 1 \in DOMAIN sources /\ sources[1].locator = Nothing /\ sources[1].file = Root
      BY TypeFacts DEF FInv, Found, AInv, IInv, SourcesKnown
    <3>2. ~IsRemote(1)
      BY <3>1, FederationAssumption DEF IsRemote
    <3>3. QED BY <3>1, <3>2
  <2>4. ASSUME NEW i \in DOMAIN sources, ~IsRemote(i), NEW k \in DOMAIN collect_links(i),
               collect_links(i)[k] \in Local,
               world.target[world.base[sources[i].file]][collect_links(i)[k]] \in world.readable
        PROVE  world.target[world.base[sources[i].file]][collect_links(i)[k]] \in files
    <3> DEFINE locator == collect_links(i)[k]
               base == world.base[sources[i].file]
    <3>1. locator \in Locator /\ locator \notin Remote /\ locator \in Local
      BY <2>4 DEF Local
    <3>2. Named(base, locator) = world.target[base][locator]
      BY <3>1 DEF Named
    <3>3. world.readable \subseteq File
      BY DEF FInv, AInv, IInv, TypeOK, WorldKind
    <3>4. Offers(i, locator)
      BY <2>2, <2>4, <3>1, <3>2, <3>3 DEF Offers, Declared
    <3>5. PICK j \in Linked : sources[j].locator = locator
      BY <2>1, <3>1, <3>4
    <3>6. j \in DOMAIN sources /\ ~IsRemote(j)
      BY <3>1, <3>5, TypeFacts DEF Linked, IsRemote, FInv, AInv, IInv
    <3>7. PICK other \in Base : sources[j].file = Named(other, locator)
      BY <3>5 DEF FInv, Found
    <3>8. base \in Base
      BY TypeFacts DEF FInv, AInv, IInv, TypeOK, WorldKind, Source
    <3>9. sources[j].file = world.target[base][locator]
      BY <1>2, <3>1, <3>7, <3>8 DEF Named, OneTarget
    <3>10. QED BY <3>6, <3>9
  <2>5. ClosedUnderLinks(files)
    <3> SUFFICES ASSUME NEW from \in files, NEW k \in DOMAIN world.links[from],
                        world.links[from][k] \in Local,
                        world.target[world.base[from]][world.links[from][k]] \in world.readable
                 PROVE  world.target[world.base[from]][world.links[from][k]] \in files
      BY DEF ClosedUnderLinks
    <3>1. PICK i \in DOMAIN sources : ~IsRemote(i) /\ from = sources[i].file
      OBVIOUS
    <3>2. QED BY <2>4, <3>1 DEF collect_links
  <2>6. Near \subseteq files
    BY <2>2, <2>3, <2>5 DEF Near
  <2>7. ASSUME NEW file \in File, world.provider, NEW from \in Near,
               NEW k \in DOMAIN world.links[from], world.links[from][k] \in Remote,
               world.delivers[world.links[from][k]] = file
        PROVE  file \in Reached
    <3>1. PICK i \in DOMAIN sources : ~IsRemote(i) /\ from = sources[i].file
      BY <2>6
    <3> DEFINE locator == world.links[from][k]
    <3>2. locator \in Locator
      BY <2>7, FederationAssumption
    <3>3. Offers(i, locator)
      BY <2>2, <2>7, <3>1 DEF Offers, Declared, collect_links, Named
    <3>4. PICK j \in Linked : sources[j].locator = locator
      BY <2>1, <3>2, <3>3
    <3>5. sources[j].file = file
      BY <2>7, <3>4 DEF FInv, Found, Named
    <3>6. j \in DOMAIN sources
      BY TypeFacts DEF Linked, FInv, AInv, IInv
    <3>7. QED BY <3>5, <3>6 DEF Reached
  <2>8. files \subseteq Reached
    BY DEF Reached
  <2>9. QED BY <2>6, <2>7, <2>8 DEF Reachable
<1>3. QED BY <1>1, <1>2 DEF WalkIsComplete

\* The walk opens only what the root reaches and, when no limit was hit and a
\* locator means the same everywhere, all of it.
THEOREM WalkAlwaysComplete == Spec => []WalkIsComplete
<1>1. Spec => []FInv
  BY InitFound, FoundKept, PTL DEF Spec
<1>2. QED BY <1>1, EndReaches, PTL

=============================================================================
