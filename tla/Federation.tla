------------------------------ MODULE Federation ------------------------------
(***************************************************************************)
(* src/federation.rs: resolve_with(), the breadth-first walk over the      *)
(* links a database and the sources it reaches declare.                    *)
(*                                                                         *)
(* What is on disk, and what a provider would deliver, is one of World and *)
(* does not change during a walk.  A locator is compared by its text, a    *)
(* target is what the text names from the directory of the source that     *)
(* declares it.                                                            *)
(***************************************************************************)
EXTENDS Naturals, Sequences, FiniteSets

CONSTANTS
  File,     \* databases and .nost documents, on disk or behind a provider
  Root,     \* the one the walk starts from
  Base,     \* the directories relative locators are resolved from
  Locator,  \* the locators that occur in links, by their text
  Remote,   \* those with a scheme
  World,    \* what the walk may find, see WorldKind
  Limit,    \* the settings federation.*, see LimitKind
  Nothing   \* no file, no locator

Local == Locator \ Remote

\* graph.links: validation refuses a graph that names a source twice.
Links == {s \in Seq(Locator) : \A i, j \in DOMAIN s : s[i] = s[j] => i = j}

\* base: link_base() of each file         links: what its graph declares
\* target: resolve_target()               readable: open_target() is Ok
\* provider: a caller passed open_remote  delivers: what that answers
WorldKind ==
  [base : [File -> Base], target : [Base -> [Local -> File \union {Nothing}]],
   links : [File -> Links], readable : SUBSET File,
   provider : BOOLEAN, delivers : [Remote -> File \union {Nothing}]]

\* The settings refuse a limit of zero.
LimitKind == [max_link_depth : Nat \ {0}, max_link_databases : Nat \ {0}]

ASSUME FederationAssumption ==
  /\ Root \in File
  /\ Remote \subseteq Locator
  /\ World \subseteq WorldKind
  /\ Limit \subseteq LimitKind
  /\ Nothing \notin File
  /\ Nothing \notin Locator

VARIABLES
  world,     \* what is on disk and behind the provider
  limits,    \* FederationSettings
  sources,   \* the root and the sources opened, in order
  statuses,  \* what became of each link, in order
  opened,    \* the locators of the sources opened
  frontier,  \* the sources of this level, by their index
  next,      \* the sources of the next level
  depth,     \* the links followed to reach this level
  at,        \* the position in frontier of the source whose links are visited
  link,      \* the position of the next of them
  pc         \* "level" between levels, "links" within one, "cut" in the last, "done"

vars == <<world, limits, sources, statuses, opened, frontier, next, depth, at, link, pc>>

given == <<world, limits>>

Unreachable == {"NoProvider", "NotFound", "Unreadable", "Cycle", "LimitExceeded"}

Source == [locator : Locator \union {Nothing}, file : File, depth : Nat]

LinkStatus == [locator : Locator, declared_by : Locator \union {Nothing}, depth : Nat,
               outcome : Unreachable \union {"available"}]

Init ==
  /\ world \in World
  /\ limits \in Limit
  /\ sources = <<[locator |-> Nothing, file |-> Root, depth |-> 0]>>
  /\ statuses = <<>>
  /\ opened = {}
  /\ frontier = <<1>>
  /\ next = <<>>
  /\ depth = 0
  /\ at = 1
  /\ link = 1
  /\ pc = "level"

collect_links(i) == world.links[sources[i].file]

Status(i, locator, outcome) ==
  [locator |-> locator, declared_by |-> sources[i].locator, depth |-> depth,
   outcome |-> outcome]

-----------------------------------------------------------------------------
(* One level *)

\* The links the next level would have followed are all cut.
LimitDepth ==
  /\ pc = "level"
  /\ frontier # <<>>
  /\ depth >= limits.max_link_depth
  /\ pc' = "cut"
  /\ UNCHANGED <<given, sources, statuses, opened, frontier, next, depth, at, link>>

BeginLevel ==
  /\ pc = "level"
  /\ frontier # <<>>
  /\ depth < limits.max_link_depth
  /\ pc' = "links"
  /\ UNCHANGED <<given, sources, statuses, opened, frontier, next, depth, at, link>>

Finish ==
  /\ pc = "level"
  /\ frontier = <<>>
  /\ pc' = "done"
  /\ UNCHANGED <<given, sources, statuses, opened, frontier, next, depth, at, link>>

\* The source whose links are visited, and the next of them.
Declaring == frontier[at]

Following == collect_links(Declaring)[link]

Visiting(step) ==
  /\ pc = step /\ at <= Len(frontier)
  /\ link <= Len(collect_links(Declaring))

AtLastLink ==
  /\ pc \in {"links", "cut"} /\ at <= Len(frontier)
  /\ link > Len(collect_links(Declaring))

Cut ==
  /\ Visiting("cut")
  /\ statuses' = Append(statuses, Status(Declaring, Following, "LimitExceeded"))
  /\ link' = link + 1
  /\ UNCHANGED <<given, sources, opened, frontier, next, depth, at, pc>>

EndCut ==
  /\ pc = "cut" /\ at > Len(frontier)
  /\ pc' = "done"
  /\ UNCHANGED <<given, sources, statuses, opened, frontier, next, depth, at, link>>

\* Mutant: the position in the links is kept from one source to the next.
NextSourceKeepsPosition ==
  /\ AtLastLink
  /\ at' = at + 1
  /\ UNCHANGED <<given, sources, statuses, opened, frontier, next, depth, link, pc>>

NextSource ==
  /\ AtLastLink
  /\ at' = at + 1
  /\ link' = 1
  /\ UNCHANGED <<given, sources, statuses, opened, frontier, next, depth, pc>>

\* Mutant: the position in the frontier is kept from one level to the next.
NextLevelKeepsPosition ==
  /\ pc = "links" /\ at > Len(frontier)
  /\ frontier' = next
  /\ next' = <<>>
  /\ depth' = depth + 1
  /\ link' = 1
  /\ pc' = "level"
  /\ UNCHANGED <<given, sources, statuses, opened, at>>

NextLevel ==
  /\ pc = "links" /\ at > Len(frontier)
  /\ frontier' = next
  /\ next' = <<>>
  /\ depth' = depth + 1
  /\ at' = 1
  /\ link' = 1
  /\ pc' = "level"
  /\ UNCHANGED <<given, sources, statuses, opened>>

-----------------------------------------------------------------------------
(* follow() *)

Named(base, locator) ==
  IF locator \in Remote THEN world.delivers[locator] ELSE world.target[base][locator]

\* Mutant: one linked database more than the limit.
FollowedPastLimit(base, locator) ==
  LET file == Named(base, locator) IN
  IF locator \in opened THEN "Cycle"
  ELSE IF Len(sources) - 1 > limits.max_link_databases THEN "LimitExceeded"
  ELSE IF locator \in Remote
       THEN IF ~world.provider THEN "NoProvider"
            ELSE IF file = Nothing THEN "Unreadable" ELSE "available"
  ELSE IF file = Nothing THEN "NotFound"
  ELSE IF file \notin world.readable THEN "Unreadable" ELSE "available"

\* What becomes of a link declared by a source in the directory base.  The
\* limit counts the linked databases, so the root is excluded.
Followed(base, locator) ==
  LET file == Named(base, locator) IN
  IF locator \in opened THEN "Cycle"
  ELSE IF Len(sources) - 1 >= limits.max_link_databases THEN "LimitExceeded"
  ELSE IF locator \in Remote
       THEN IF ~world.provider THEN "NoProvider"
            ELSE IF file = Nothing THEN "Unreadable" ELSE "available"
  ELSE IF file = Nothing THEN "NotFound"
  ELSE IF file \notin world.readable THEN "Unreadable" ELSE "available"

\* The directory of the source that declares the link.
From == world.base[sources[Declaring].file]

Answer(outcome) ==
  /\ Visiting("links")
  /\ Followed(From, Following) = outcome
  /\ statuses' = Append(statuses, Status(Declaring, Following, outcome))
  /\ link' = link + 1
  /\ UNCHANGED <<given, frontier, depth, at, pc>>

Refuse ==
  /\ \E outcome \in Unreachable : Answer(outcome)
  /\ UNCHANGED <<sources, opened, next>>

Open ==
  /\ Answer("available")
  /\ opened' = opened \union {Following}
  /\ sources' = Append(sources, [locator |-> Following, file |-> Named(From, Following),
                                 depth |-> depth + 1])

\* The links of a remote source are not followed.
OpenRemote ==
  /\ Open
  /\ Following \in Remote
  /\ UNCHANGED next

\* Mutant: nor are those of a local one.
OpenLocalAsRemote ==
  /\ Open
  /\ Following \notin Remote
  /\ UNCHANGED next

\* Mutant: the source is followed while its level is still being read.
OpenLocalTooEarly ==
  /\ Visiting("links")
  /\ Followed(From, Following) = "available"
  /\ Following \notin Remote
  /\ statuses' = Append(statuses, Status(Declaring, Following, "available"))
  /\ link' = link + 1
  /\ opened' = opened \union {Following}
  /\ sources' = Append(sources, [locator |-> Following, file |-> Named(From, Following),
                                 depth |-> depth + 1])
  /\ frontier' = Append(frontier, Len(sources'))
  /\ UNCHANGED <<given, next, depth, at, pc>>

OpenLocal ==
  /\ Open
  /\ Following \notin Remote
  /\ next' = Append(next, Len(sources'))

Next ==
  \/ LimitDepth \/ Cut \/ EndCut
  \/ BeginLevel \/ NextSource \/ NextLevel \/ Finish
  \/ Refuse \/ OpenRemote \/ OpenLocal

Spec == Init /\ [][Next]_vars

-----------------------------------------------------------------------------
(* Properties *)

\* Every variable holds a value of its kind, and positions are within reach.
TypeOK ==
  /\ world \in WorldKind
  /\ limits \in LimitKind
  /\ sources \in Seq(Source)
  /\ statuses \in Seq(LinkStatus)
  /\ opened \subseteq Locator
  /\ frontier \in Seq(1 .. Len(sources))
  /\ next \in Seq(1 .. Len(sources))
  /\ depth \in Nat
  /\ at \in 1 .. Len(frontier) + 1
  /\ link \in Nat \ {0}
  /\ pc \in {"level", "links", "cut", "done"}

Linked == 2 .. Len(sources)

IsRemote(i) == sources[i].locator \in Remote

\* No walk opens more databases, or goes deeper, than the settings allow, and it
\* opens no locator twice: the sources are the root and one per locator opened.
WithinLimits ==
  /\ Len(sources) - 1 <= limits.max_link_databases
  /\ \A i \in DOMAIN sources : sources[i].depth <= limits.max_link_depth
  /\ opened = {sources[i].locator : i \in Linked}
  /\ \A i, j \in DOMAIN sources : sources[i].locator = sources[j].locator => i = j

Declared(i) == {collect_links(i)[n] : n \in DOMAIN collect_links(i)}

Offers(i, locator) ==
  /\ ~IsRemote(i)
  /\ locator \in Declared(i)
  /\ LET file == Named(world.base[sources[i].file], locator)
     IN /\ file # Nothing
        /\ IF locator \in Remote THEN world.provider ELSE file \in world.readable

\* A source is at the depth of the nearest source that offers it, so the depth
\* limit cuts what is farthest however the declarations are ordered.
NearestFirst ==
  \A i \in Linked :
    /\ \E j \in 1 .. i - 1 :
         Offers(j, sources[i].locator) /\ sources[i].depth = sources[j].depth + 1
    /\ \A j \in DOMAIN sources :
         Offers(j, sources[i].locator) => sources[i].depth <= sources[j].depth + 1

\* The links whose answer a caller finds: those of a remote source are not followed.
Followable(i) == IF IsRemote(i) THEN <<>> ELSE collect_links(i)

\* The first count links of a source have the statuses after from, in order, and
\* it has no other.
Answered(i, count, from) ==
  /\ from + count <= Len(statuses)
  /\ \A n \in 1 .. count : /\ statuses[from + n].declared_by = sources[i].locator
                           /\ statuses[from + n].locator = collect_links(i)[n]
  /\ \A n \in DOMAIN statuses :
       statuses[n].declared_by = sources[i].locator => n \in from + 1 .. from + count

\* When the walk ends, each link of each local source has exactly one status, in
\* the order of declaration: what was cut is reported, not only that it was.
EveryLinkAnswered ==
  pc = "done" =>
    \A i \in DOMAIN sources : \E from \in 0 .. Len(statuses) :
      Answered(i, Len(Followable(i)), from)

\* A set of local files that the links of its files do not leave.
ClosedUnderLinks(files) ==
  \A from \in files : \A k \in DOMAIN world.links[from] :
    LET locator == world.links[from][k]
        file == world.target[world.base[from]][locator]
    IN locator \in Local /\ file \in world.readable => file \in files

\* Reference definition: the smallest such set with the root, ...
Near ==
  {file \in File :
     \A files \in SUBSET File : Root \in files /\ ClosedUnderLinks(files) => file \in files}

\* ... and what the provider delivers for a link of one of these.
Reachable ==
  Near \union
  {file \in File : world.provider /\ \E from \in Near : \E k \in DOMAIN world.links[from] :
     /\ world.links[from][k] \in Remote
     /\ world.delivers[world.links[from][k]] = file}

\* Each locator names the same file whoever declares it.
OneTarget ==
  \A a, b \in Base : \A locator \in Local : world.target[a][locator] = world.target[b][locator]

LimitHit == \E n \in DOMAIN statuses : statuses[n].outcome = "LimitExceeded"

Reached == {sources[i].file : i \in DOMAIN sources}

\* The walk opens only what the root reaches.  All of it, when no limit is hit
\* and no locator names different files from different directories.
WalkIsComplete ==
  /\ Reached \subseteq Reachable
  /\ pc = "done" /\ ~LimitHit /\ OneTarget => Reached = Reachable

\* "The target was already opened in this traversal": what a link reported as a
\* cycle names is one of the sources.
CycleWasOpened ==
  \A n \in DOMAIN statuses : \A i \in DOMAIN sources :
    /\ statuses[n].outcome = "Cycle"
    /\ sources[i].locator = statuses[n].declared_by
    => Named(world.base[sources[i].file], statuses[n].locator) \in Reached

=============================================================================
