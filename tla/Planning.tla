------------------------------- MODULE Planning -------------------------------
(***************************************************************************)
(* What a build would read and spend, from a scan.                         *)
(*                                                                         *)
(* Settings are [mode, input, output]: the AI mode and the limits, each a  *)
(* sequence of at most one.  The registry is a function from languages to  *)
(* precisions.                                                             *)
(*                                                                         *)
(* The packet about one source unit.                                       *)
(*                                                                         *)
(* A graph is a record of nodes and edges as in NostGraph.  An excerpt is  *)
(* <<path, length, truncated>>.                                            *)
(***************************************************************************)
EXTENDS Scan

BYTES_PER_TOKEN_LOW == 6
BYTES_PER_TOKEN_HIGH == 2
PACKET_OVERHEAD_TOKENS == 200
OUTPUT_TOKENS_LOW == 64
OUTPUT_TOKENS_HIGH == 512

\* A capability <<language, precision, facts>> is registered once, and only if it is one.
Registrable(registry, capability) ==
  capability[2] # "unsupported" /\ capability[3] # {} /\ capability[1] \notin DOMAIN registry
register(registry, capability) ==
  IF Registrable(registry, capability)
  THEN [language \in DOMAIN registry \union {capability[1]} |->
          IF language = capability[1] THEN capability[2] ELSE registry[language]]
  ELSE registry
precision(registry, language) == IF language \in DOMAIN registry THEN registry[language] ELSE "unsupported"

is_deterministic(class) == class \in {"deterministic semantic", "deterministic syntactic"}
eligible_for_ai(class) == class \in {"unsupported", "heuristic"}

\* Mutant: with AI in place of the analyzers, only what they cannot read is counted.
readsTheRest(mode, class) == eligible_for_ai(class)
reads(mode, class) == mode = "full" \/ eligible_for_ai(class)

Nothing == [low |-> 0, high |-> 0]
estimate_input(bytes, units) ==
  IF units = 0 THEN Nothing
  ELSE [low |-> bytes \div BYTES_PER_TOKEN_LOW + units * PACKET_OVERHEAD_TOKENS,
        high |-> bytes \div BYTES_PER_TOKEN_HIGH + units * PACKET_OVERHEAD_TOKENS]
estimate_output(units) == [low |-> units * OUTPUT_TOKENS_LOW, high |-> units * OUTPUT_TOKENS_HIGH]

\* The limits a run of these estimates could cross, the first of them told.
Crossed(limit, estimated) == limit # << >> /\ estimated.high > limit[1]
check(settings, input, output) ==
  CASE Crossed(settings.input, input) -> "max_input_tokens"
    [] ~Crossed(settings.input, input) /\ Crossed(settings.output, output) -> "max_output_tokens"
    [] OTHER -> "fits"

-----------------------------------------------------------------------------
(* The plan                                                                 *)

InLanguage(files, language) == SelectSeq(files, LAMBDA file : file.language = language)
BytesOf(files) == FoldLeft(LAMBDA sum, file : sum + file.bytes, 0, files)
Summary(files, registry, language) ==
  [language |-> language, files |-> Len(InLanguage(files, language)), bytes |-> BytesOf(InLanguage(files, language)),
   precision |-> precision(registry, language)]
Languages(files, registry) ==
  {Summary(files, registry, language) : language \in {files[i].language : i \in DOMAIN files}}

CountedFiles(summaries, field, Counts(_)) ==
  FoldLeft(LAMBDA sum, one : sum + one[field], 0, SetToSeq({one \in summaries : Counts(one.precision)}))
Candidates(summaries, mode, field) == CountedFiles(summaries, field, LAMBDA class : reads(mode, class))

InputOf(summaries, mode) ==
  IF mode = "off" THEN Nothing
  ELSE estimate_input(Candidates(summaries, mode, "bytes"), Candidates(summaries, mode, "files"))
OutputOf(summaries, mode) ==
  IF mode = "off" THEN Nothing ELSE estimate_output(Candidates(summaries, mode, "files"))

SkippedFor(skipped, reason) == Len(SelectSeq(skipped, LAMBDA one : one[2] = reason))
Skips(skipped) ==
  {<<reason, SkippedFor(skipped, reason)>> : reason \in {skipped[i][2] : i \in DOMAIN skipped}}

source_revision(files) == <<"tree", Each(files, LAMBDA file : <<file.path, file.digest>>)>>

PlanOf(files, skipped, summaries, settings) ==
  [source_revision |-> source_revision(files), scanned_files |-> Len(files),
   structural_files |-> CountedFiles(summaries, "files", is_deterministic),
   unsupported_files |-> CountedFiles(summaries, "files", LAMBDA class : class = "unsupported"),
   semantic_candidates |-> Candidates(summaries, settings.mode, "files"),
   estimated_input_tokens |-> InputOf(summaries, settings.mode),
   estimated_output_tokens |-> OutputOf(summaries, settings.mode),
   within_budget |-> check(settings, InputOf(summaries, settings.mode), OutputOf(summaries, settings.mode)),
   languages |-> summaries, skipped |-> Skips(skipped)]
plan(found, registry, settings) ==
  PlanOf(found[2], found[3], Languages(found[2], registry), settings)

-----------------------------------------------------------------------------
CONSTANTS
  Units,                    \* all source units, in order
  AnalyzerOwners,           \* the owners that are analyzers
  MAX_NEIGHBOURING_UNITS, MAX_EVIDENCE_SPANS, MAX_EXCERPT_BYTES

FirstOnly(items) == IF items = << >> THEN << >> ELSE <<items[1]>>

ByAnalyzer(contribution) == contribution.owner \in AnalyzerOwners
holds(node, unit) ==
  \E i \in DOMAIN node.contributions :
    node.contributions[i].unit = <<unit>> /\ ByAnalyzer(node.contributions[i])

\* The unit an analyzer derived a node from first.
unit_of(node) == FirstOnly(InTurn(SelectSeq(node.contributions, ByAnalyzer), LAMBDA one : one.unit))

TextUnder(property, key) ==
  IF property[1] = key /\ property[2][1] = "quoted" THEN <<property[2][2]>> ELSE << >>
property_text(node, key) == FirstOnly(InTurn(node.properties, LAMBDA one : TextUnder(one, key)))

is_directory(node) == "Directory" \in ToSet(node.labels)

Owned(graph, unit) == {node.id : node \in {one \in ToSet(graph.nodes) : holds(one, unit)}}

Summarized(node) ==
  [id |-> node.id, labels |-> node.labels, name |-> property_text(node, "name"), path |-> property_text(node, "path")]
Symbols(graph, owned) ==
  Each(SelectSeq(graph.nodes, LAMBDA node : node.id \in owned), Summarized)

IsLocal(edge) == edge.source[1] = "local" /\ edge.target[1] = "local"

\* Mutant: an edge wholly outside the unit is told too.
TouchesAnything(edge, owned) == IsLocal(edge)
Touches(edge, owned) == IsLocal(edge) /\ (edge.source[2] \in owned \/ edge.target[2] \in owned)
Relating(edge) == <<edge.source[2], edge.relation, edge.target[2]>>
StructuralEdges(graph, owned) ==
  SelectSeq(graph.edges, LAMBDA edge : Touches(edge, owned))

\* The other end, or the target if both are inside.
Outside(edge, owned) == IF edge.source[2] \in owned THEN edge.target[2] ELSE edge.source[2]
NodeNamed(graph, id) == FirstOnly(SelectSeq(graph.nodes, LAMBDA node : node.id = id))
IsContext(node, unit) == unit_of(node) \notin {<< >>, <<unit>>} /\ ~is_directory(node)
ContextOf(graph, edge, owned, unit) ==
  SelectSeq(NodeNamed(graph, Outside(edge, owned)), LAMBDA node : IsContext(node, unit))

\* The nodes at the other ends, one for each edge.
FarEnds(graph, owned, unit) ==
  InTurn(StructuralEdges(graph, owned), LAMBDA edge : ContextOf(graph, edge, owned, unit))
EndsIn(ends, unit) == SelectSeq(ends, LAMBDA node : unit_of(node) = <<unit>>)
Neighbour(ends, unit) ==
  [source_unit |-> unit, path |-> property_text(EndsIn(ends, unit)[1], "path"), records |-> Len(EndsIn(ends, unit))]
Neighbours(ends) ==
  Each(SelectSeq(Units, LAMBDA unit : EndsIn(ends, unit) # << >>), LAMBDA unit : Neighbour(ends, unit))

AtMost(items, most) == SubSeq(items, 1, IF Len(items) <= most THEN Len(items) ELSE most)

truncated(excerpt) ==
  IF excerpt[2] <= MAX_EXCERPT_BYTES THEN excerpt ELSE <<excerpt[1], MAX_EXCERPT_BYTES, TRUE>>

PacketOf(graph, owned, unit, excerpts) ==
  [source_unit |-> unit, symbols |-> Symbols(graph, owned),
   structural_edges |-> Each(StructuralEdges(graph, owned), Relating),
   selected_evidence_spans |-> Each(AtMost(excerpts, MAX_EVIDENCE_SPANS), truncated),
   neighboring_units |-> AtMost(Neighbours(FarEnds(graph, owned, unit)), MAX_NEIGHBOURING_UNITS)]
build_packet(graph, unit, excerpts) == PacketOf(graph, Owned(graph, unit), unit, excerpts)

record_count(packet) ==
  Len(packet.symbols) + Len(packet.structural_edges) + Len(packet.selected_evidence_spans)
  + Len(packet.neighboring_units)

=============================================================================
