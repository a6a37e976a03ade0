---------------------------- MODULE StoredForms -----------------------------
(***************************************************************************)
(* The documents, trees, graphs and files the runs try, as text and as     *)
(* stored, what the code makes of each, and what has to hold of that.      *)
(***************************************************************************)
EXTENDS Encoding, NostGraph, TLC

TheAlphabet == <<"", "1", "AB", "L", "M", "Placeholder", "R", "a", "ab", "ai:x", "b", "bad", "c1",
  "c2", "confidence", "confidence_score", "digest", "e1", "e2", "e9", "id", "k", "labels", "method",
  "n1", "n2", "n8", "n9", "p", "path", "producer", "producer_version", "range", "revision",
  "source", "u1", "user", "x1", "x2", "x3", "x8", "x9", "y">>
TheAiOwners == {"ai:x"}
TheNodeIds == {"n1", "n2", "n8", "n9"}
TheEdgeIds == {"e1", "e2", "e9"}
TheMintedNodes == <<"n8", "n9">>
TheMintedEdges == <<"e9">>
TheNames == "n1" :> "x1" @@ "n2" :> "x2" @@ "n8" :> "x8" @@ "n9" :> "x9"

-----------------------------------------------------------------------------
(* Graphs                                                                   *)

Proof(producer, confidence, score) ==
  [source |-> "a", digest |-> "b", revision |-> << >>, path |-> <<"p">>, range |-> << >>,
   producer |-> producer, version |-> "k", method |-> "deterministic",
   confidence |-> confidence, score |-> score]

Claim(owner, unit, proofs) == [owner |-> owner, unit |-> unit, evidence |-> proofs]

Analyzed == Claim("a", <<"u1">>, <<Proof("a", "extracted", << >>), Proof("p", "inferred", <<"1.0">>)>>)
Elsewhere == Claim("a", << >>, <<[Proof("a", "extracted", << >>) EXCEPT !.revision = <<"k">>, !.range = <<"1">>]>>)
Inferred == Claim("ai:x", << >>, <<Proof("p", "ambiguous", <<"0.5">>)>>)
Named == Claim("ai:x", << >>, <<Proof("ai:x", "extracted", << >>)>>)
Stated == Claim("user", << >>, << >>)

Deep == <<"object", <<<<"a", <<"whole", "7">>>>,
                      <<"b", <<"list", <<<<"true", "true">>, <<"quoted", "y">>>>>>>>>>>>
Flags == <<"list", <<<<"hex", "ab">>, <<"decimal", "1.0">>>>>>

Fielded == [name |-> "L", endpoints |-> << >>,
  fields |-> <<[key |-> "a", optional |-> TRUE, type |-> <<"array", <<"scalar", "bytes">>>>],
               [key |-> "k", optional |-> TRUE,
                type |-> <<"object", <<[key |-> "a", optional |-> FALSE,
                                        type |-> <<"scalar", "integer">>]>>>>]>>]
Relation == [name |-> "R", endpoints |-> <<[source |-> "L", target |-> "M"]>>, fields |-> << >>]

Here == [source |-> "a", alias |-> <<"y">>]
There == [source |-> "b", alias |-> << >>]

NodeWith(id, labels, properties, claims) ==
  [id |-> id, labels |-> labels, properties |-> properties, contributions |-> claims]

EdgeBetween(source, target, claims) ==
  [id |-> "e1", source |-> <<"local", source>>, target |-> <<"local", target>>, relation |-> "R",
   properties |-> << >>, contributions |-> claims]

Graph(schemas, labels, properties, claims, edge) ==
  [links |-> <<Here, There>>, schemas |-> schemas,
   nodes |-> <<NodeWith("n1", labels, properties, claims), NodeWith("n2", <<"M">>, << >>, << >>)>>,
   edges |-> edge]

Large == Graph(<<Fielded, Relation>>, <<"L", "M">>, <<<<"k", Deep>>, <<"p", Flags>>>>,
               <<Analyzed, Stated>>, <<EdgeBetween("n1", "n2", <<Inferred>>)>>)

LabelChoice == {<<"L">>, <<"M">>, <<"L", "R">>, <<"M", "R">>, <<"L", "M", "R">>}
ClaimChoice == {<< >>, <<Elsewhere, Analyzed>>, <<Inferred>>, <<Analyzed, Named, Stated>>}
SchemaChoice == {<< >>, <<Fielded>>, <<Fielded, Relation>>}
PropertyChoice == {<< >>, <<<<"k", Deep>>, <<"p", Flags>>>>}
EdgeChoice == {<< >>, <<EdgeBetween("n1", "n2", <<Named>>)>>}

GraphSamples ==
  {Graph(schemas, labels, properties, claims, edge) :
     schemas \in SchemaChoice, labels \in LabelChoice, properties \in PropertyChoice,
     claims \in ClaimChoice, edge \in EdgeChoice}

\* The graph that the text of a graph is read as, and what the text is reported for.
ReadBack(tree) == <<validate(tree[1]), to_graph(tree[1])>>
GraphOutcome(graph) == ReadBack(parse(format(from_graph(graph))))

-----------------------------------------------------------------------------
(* Texts: a formatted document with comments at one place in it             *)

LineComment == <<"line", "c1">>
BlockComment == <<"block", "c2">>

Inserted == {<<LineComment, NewLine>>, <<NewLine, LineComment, NewLine>>, <<BlockComment>>,
             <<BlockComment, LineComment, NewLine>>, <<NewLine, BlockComment>>}

LargeText == format(from_graph(Large))
PlacedAt(text, i, words) == SubSeq(text, 1, i) \o words \o SubSeq(text, i + 1, Len(text))
TextSamples == {PlacedAt(LargeText, i, words) : i \in 0 .. Len(LargeText), words \in Inserted}

Again(text, tree) == IF tree = << >> THEN <<text>> ELSE <<text, format(tree[1])>>
Formatted(text) == Again(text, parse(text))
Settled(texts) == IF Len(texts) = 1 THEN << >> ELSE Formatted(texts[2])

\* The text formatted, and that formatted again; nothing when the text is refused.
TextOutcome(text) == Settled(Formatted(text))

CommentsOf(text) == SelectSeq(text, LAMBDA word : word[1] \in CommentKind)
Times(text, comment) == Len(SelectSeq(text, LAMBDA word : word = comment))

-----------------------------------------------------------------------------
(* Trees: what somebody makes of a document with one or two edits           *)

LargeTree == from_graph(Large)

Unheard == NoComments
WithProperty(record, property) == [record EXCEPT !.properties = Append(@, property)]
Without(entries, key) == SelectSeq(entries, LAMBDA entry : entry.key # key)
PropertyOf(key, value) == Property(key, value, NoComments)

\* Each edit is a kind, a place and what is put there.
Edits ==
  {<<"node id", text>> : text \in {"n1", "e1", "bad", "n2"}}
  \union {<<"node name", text>> : text \in {"x1", "x3"}}
  \union {<<"unnamed", "">>, <<"edge id", "n1">>, <<"edge unnamed", "">>, <<"version", "5">>}
  \union {<<"target", text>> : text \in {"x3", "x2", "x1"}}
  \union {<<"source", text>> : text \in {"x3", "y", "b"}}
  \union {<<"owner", text>> : text \in {"a", "user", "ai:x", ""}}
  \union {<<"unit", "bad">>, <<"unproven", "">>, <<"labels", "k">>, <<"labels", "bad">>}
  \union {<<"drop", key>> : key \in {"source", "producer", "confidence", "producer_version"}}
  \union {<<"retext", key>> : key \in {"digest", "range", "method"}}
  \union {<<"value", text>> : text \in {"big", "007"}}
  \union {<<"link", text>> : text \in {"a", "k", "bad"}}

Restated(record, id) ==
  [record EXCEPT !.properties = Append(Without(@, "id"), PropertyOf("id", <<"quoted", id>>))]

\* What the edit makes of the one contribution of the edge.
ClaimEdited(claim, edit) ==
  CASE edit[1] = "owner" -> [claim EXCEPT !.owner = edit[2]]
    [] edit[1] = "unit" -> [claim EXCEPT !.unit = <<edit[2]>>]
    [] edit[1] = "unproven" -> [claim EXCEPT !.evidence = << >>]
    [] edit[1] = "drop" ->
         [claim EXCEPT !.evidence =
            [i \in DOMAIN @ |-> [@[i] EXCEPT !.fields = Without(@, edit[2])]]]
    [] OTHER ->
         [claim EXCEPT !.evidence =
            [i \in DOMAIN @ |->
               [@[i] EXCEPT !.fields = Append(@, EvidenceField(edit[2], <<"text", "bad", << >>>>, Unheard))]]]

NodeEdited(node, edit) ==
  CASE edit[1] = "node id" -> [node EXCEPT !.record = Restated(@, edit[2])]
    [] edit[1] = "node name" -> [node EXCEPT !.name = edit[2]]
    [] edit[1] = "unnamed" -> [node EXCEPT !.record.properties = Without(@, "id")]
    [] edit[1] = "labels" ->
         [node EXCEPT !.record = WithProperty(@, PropertyOf("labels", <<"list", <<<<"quoted", edit[2]>>>>>>))]
    [] OTHER -> [node EXCEPT !.record = WithProperty(@, PropertyOf("p", <<"whole", edit[2]>>))]

EdgeEdited(edge, edit) ==
  CASE edit[1] = "edge id" -> [edge EXCEPT !.record = Restated(@, edit[2])]
    [] edit[1] = "edge unnamed" -> [edge EXCEPT !.record.properties = Without(@, "id")]
    [] edit[1] = "target" -> [edge EXCEPT !.target = <<"local", edit[2], edit[2]>>]
    [] edit = <<"source", "y">> -> [edge EXCEPT !.source = <<"alias", "y", "x1">>]
    [] edit = <<"source", "b">> -> [edge EXCEPT !.source = <<"locator", "b", "x1">>]
    [] edit[1] = "source" -> [edge EXCEPT !.source = <<"local", edit[2], edit[2]>>]
    [] OTHER -> [edge EXCEPT !.record.contributions =
                   [i \in DOMAIN @ |-> ClaimEdited(@[i], edit)]]

Edited(tree, edit) ==
  CASE edit[1] = "version" -> [tree EXCEPT !.version = edit[2]]
    [] edit[1] = "link" ->
         [tree EXCEPT !.links = Append(@, LinkDeclaration(edit[2], << >>, NoComments))]
    [] edit[1] \in {"node id", "node name", "unnamed", "labels", "value"} ->
         [tree EXCEPT !.nodes[2] = NodeEdited(@, edit)]
    [] OTHER -> [tree EXCEPT !.edges[1] = EdgeEdited(@, edit)]

TreeSamples == {Edited(Edited(LargeTree, first), second) : first, second \in Edits}

TreeOutcome(tree) == <<has_errors(validate(tree)), to_graph(tree)>>

-----------------------------------------------------------------------------
(* What has to hold                                                         *)

\* A text that can be read loses and repeats no comment when it is formatted, wherever it stands.
CommentsKept(text, texts) ==
  texts = << >>
  \/ \A word \in ToSet(CommentsOf(text)) \union ToSet(CommentsOf(texts[1])) :
       Times(texts[1], word) = Times(text, word)

\* A block that is empty but for one comment, on the line of its opening brace.
HoldsOneComment(text) ==
  \E i, j \in DOMAIN text :
    /\ i < j /\ text[i] = Mark("{") /\ text[i + 1][1] \in CommentKind /\ text[j] = Mark("}")
    /\ \A k \in i + 2 .. j - 1 : text[k] = NewLine

\* A formatted text is formatted as itself.
TextSettles(texts) == texts = << >> \/ texts = <<texts[1], texts[1]>>

\* The text of a graph is read without an error, and as that graph.
TextIsGraph(graph, outcome) == outcome[1] \intersect ErrorCode = {} /\ outcome[2] = <<graph>>

Distinct(records) == \A i, j \in DOMAIN records : i # j => records[i].id # records[j].id
ClaimsIn(records) == AllOf(records, LAMBDA record : ToSet(record.contributions))

ProofsIn(claims) == FlattenSeq(Each(claims, LAMBDA claim : claim.evidence))
WrittenProofs(records) == FlattenSeq(Each(records, LAMBDA one : ProofsIn(one.record.contributions)))
KeptProofs(records) == FlattenSeq(Each(records, LAMBDA one : ProofsIn(one.contributions)))

\* Who made it up is named in the text, unless an analyzer says it of itself.
Attributed(claim, tree) ==
  \A i \in DOMAIN claim.evidence :
    claim.evidence[i].producer = claim.owner =>
      OwnerKind(claim.owner) = "analyzer"
      \/ \E k \in DOMAIN WrittenProofs(tree.edges) :
           evidence_text(WrittenProofs(tree.edges)[k].fields, "producer") = <<claim.owner>>

SoundGraph(graph, tree) ==
  /\ Distinct(graph.nodes) /\ Distinct(graph.edges)
  /\ \A i \in DOMAIN graph.edges :
       \E j, k \in DOMAIN graph.nodes :
         graph.edges[i].source[2] = graph.nodes[j].id /\ graph.edges[i].target[2] = graph.nodes[k].id
  /\ \A claim \in ClaimsIn(graph.nodes) \union ClaimsIn(graph.edges) :
       (OwnerKind(claim.owner) # "user" => claim.evidence # << >>) /\ Attributed(claim, tree)
  /\ Len(KeptProofs(graph.nodes)) = Len(WrittenProofs(tree.nodes))
  /\ Len(KeptProofs(graph.edges)) = Len(WrittenProofs(tree.edges))

\* A document without an error gives a graph that can be stored, or no graph.
GraphIsSound(tree, outcome) ==
  outcome[1] \/ outcome[2] = << >> \/ SoundGraph(outcome[2][1], tree)

TheStoredNames == {"L", "M", "R", "a", "b", "k", "p", "x", "y", "digest", "u1", "user"}
TheStoredTexts == TheStoredNames \union {"", "ai:x", "2020", "not a name", "true"}
TheValidAs ==
  [any |-> TheStoredTexts, name |-> TheStoredNames, locator |-> TheStoredTexts \ {""},
   filled |-> TheStoredTexts \ {""}, digest |-> {"b", "digest"}, moment |-> {"2020"},
   range |-> {"1"}, score |-> {"0.5", "1.0"}, confidence |-> {"inferred(0.5)"},
   method |-> {"ai_inferred"}, node |-> {"n1", "n2"}, edge |-> {"e1"}, unit |-> {"u1"}]

-----------------------------------------------------------------------------
(* Graphs                                                                   *)

RECURSIVE NestedList(_)
NestedList(depth) == IF depth = 0 THEN <<"true", "true">> ELSE <<"list", <<NestedList(depth - 1)>>>>
RECURSIVE NestedType(_)
NestedType(depth) ==
  IF depth = 0 THEN <<"scalar", "boolean">>
  ELSE <<"object", <<[key |-> "a", optional |-> FALSE, type |-> NestedType(depth - 1)]>>>>

\* What there is least of, what there is most of, and every kind of value.
ValueChoice ==
  {<<"list", << >>>>, <<"object", << >>>>, <<"list", <<<<"false", "false">>, <<"true", "true">>>>>>,
   <<"object", <<<<"k", <<"true", "true">>>>, <<"a", <<"hex", "">>>>>>>>,
   <<"moment", "2020">>, <<"quoted", "">>, <<"quoted", "not a name">>, <<"hex", "ab">>,
   <<"whole", "7">>, <<"decimal", "1.0">>, NestedList(Nesting)}

Bare(id) == [id |-> id, labels |-> << >>, properties |-> << >>, contributions |-> << >>]
HoldingTwice(value) == [Bare("n1") EXCEPT !.labels = <<"L">>, !.properties = <<<<"k", value>>, <<"a", value>>>>]

Joining(source, target) ==
  [id |-> "e1", source |-> source, target |-> target, relation |-> "R", properties |-> << >>,
   contributions |-> << >>]

GraphOf(nodes, edges, links, schemas) ==
  [links |-> links, schemas |-> schemas, nodes |-> nodes, edges |-> edges]

SchemaOf(fields) == [name |-> "L", endpoints |-> << >>, fields |-> fields]
FieldOf(type) == [key |-> "k", optional |-> FALSE, type |-> type]

StoredSamples ==
  GraphSamples
  \union {GraphOf(<<HoldingTwice(value), Bare("n2")>>, << >>, << >>, << >>) : value \in ValueChoice}
  \union {GraphOf(<< >>, <<Joining(source, target)>>, << >>, << >>) :
            source, target \in {<<"local", "n1">>, <<"external", "b", "n2">>}}
  \union {GraphOf(<< >>, << >>, links, << >>) : links \in {<< >>, <<There>>, <<Here, There, Here>>}}
  \union {GraphOf(<< >>, << >>, << >>, <<SchemaOf(fields)>>) :
            fields \in {<< >>, <<FieldOf(NestedType(Nesting))>>, <<FieldOf(<<"scalar", "boolean">>)>>}}

Opened(container) == IF container[1] = "read" THEN decode_graph(container[3]) ELSE << >>
Reopened(file) == IF file = << >> THEN << >> ELSE Opened(parse_container(file[1]))
StoredOutcome(graph) == Reopened(build(7, encode_graph(graph)))

-----------------------------------------------------------------------------
(* Damage                                                                   *)

Storing == GraphOf(<<HoldingTwice(<<"quoted", "p">>)>>, << >>, <<There, Here>>, << >>)
SectionsWritten == encode_graph(Storing)
WrittenFile == build(7, SectionsWritten)[1]

Shortened(file, length) ==
  [file EXCEPT !.length = length]

ForeignHeaders ==
  {[WrittenFile EXCEPT !.header.body.flags = 1], [WrittenFile EXCEPT !.header.body.reserved = 1]}
  \union {[WrittenFile EXCEPT !.header.body.count = n] : n \in {MaxSections + 1}}
  \union {[WrittenFile EXCEPT !.header.body.offset = n] : n \in {0, LastOffset - 1, 200}}

HeaderDamage ==
  {[WrittenFile EXCEPT !.header.body.magic = FALSE],
   [WrittenFile EXCEPT !.header.crc = crc32c(HeaderOf(9, 3, HEADER_LENGTH))]}
  \union {[WrittenFile EXCEPT !.header.body.version = n] : n \in {2, 4}}
  \union {[WrittenFile EXCEPT !.header.body.length = n] : n \in {32}}
  \union {[WrittenFile EXCEPT !.header.body.generation = n] : n \in {6, 8}}
  \union {[WrittenFile EXCEPT !.header.body.count = n] : n \in {0, 2, 4, MaxSections + 1}}
  \union {[WrittenFile EXCEPT !.header.body.offset = n] : n \in {0, 49, LastOffset}}
  \union {[WrittenFile EXCEPT !.header.body.flags = 1], [WrittenFile EXCEPT !.header.body.reserved = 1]}

\* What another writer sealed: a version, a flag, a count or a table of its own.
Resealed(file) == [file EXCEPT !.header.crc = crc32c(file.header.body)]

EntryDamaged(entry) ==
  {[entry EXCEPT !.kind = kind] : kind \in {"zero", "nodes", "links", "later"}}
  \union {[entry EXCEPT !.offset = n] : n \in {0, 96, 144, entry.offset + 4, LastOffset}}
  \union {[entry EXCEPT !.length = n] : n \in {0, entry.length - 4, entry.length + 1, LastOffset}}
  \union {[entry EXCEPT !.reserved = 1], [entry EXCEPT !.stored = crc32c(<<<<"text", "x">>>>)]}

WithCell(file, cell, content) ==
  [file EXCEPT !.cells = (@ \ {cell}) \union {<<cell[1], content>>}]

EntryCells == {cell \in WrittenFile.cells : cell[1] < TableEnd(Len(SectionsWritten))}
PayloadCells == WrittenFile.cells \ EntryCells

OtherCell(cell) ==
  IF cell[1] \in {"u8", "u32"} THEN {<<cell[1], n>> : n \in {0, 1, 2, 3, 9, NO_STRING}} \ {cell}
  ELSE {<<cell[1], "x">>}

PayloadDamaged(payload) ==
  UNION {{[payload EXCEPT ![i] = other] : other \in OtherCell(payload[i])} : i \in DOMAIN payload}

DamagedFiles ==
  {Shortened(WrittenFile, n) : n \in 0 .. WrittenFile.length - 1}
  \union HeaderDamage \union {Resealed(file) : file \in ForeignHeaders}
  \union UNION {{WithCell(WrittenFile, cell, entry) : entry \in EntryDamaged(cell[2])} : cell \in EntryCells}
  \union UNION {{WithCell(WrittenFile, cell, <<"payload", payload>>) :
                   payload \in PayloadDamaged(cell[2][2])} : cell \in PayloadCells}

-----------------------------------------------------------------------------
(* Payloads of another writer                                               *)

Varied ==
  {GraphOf(<<HoldingTwice(value)>>, <<Joining(<<"local", "n1">>, <<"external", "b", "n2">>)>>,
           <<Here>>, <<SchemaOf(<<FieldOf(NestedType(1))>>)>>) :
     value \in {<<"moment", "2020">>, <<"quoted", "not a name">>, <<"quoted", "">>}}
  \union {Graph(<< >>, <<"L">>, << >>, <<Elsewhere, Inferred>>, << >>)}
Deeper ==
  {GraphOf(<<HoldingTwice(NestedList(Nesting + 1))>>, << >>, << >>, << >>),
   GraphOf(<< >>, << >>, << >>, <<SchemaOf(<<FieldOf(NestedType(Nesting + 1))>>)>>)}

\* A number that says how many or which kind is not made a smaller one: what follows it would be
\* read from the middle of something.
OtherValue(cell) ==
  CASE cell[1] = "u32" -> {<<"u32", n>> : n \in (cell[2] + 1) .. 12} \union {<<"u32", 0>>}
    [] cell[1] = "u8" -> {<<"u8", 9>>}
    [] cell[1] = "f64" -> {<<"f64", "NaN">>}
    [] cell[1] = "f32" -> {<<"f32", "2.0">>}
    [] cell[1] = "range" -> {<<"range", "inverted">>}
    [] OTHER -> {}

CellChanges(payload) ==
  UNION {{[payload EXCEPT ![i] = other] : other \in OtherValue(payload[i])} : i \in DOMAIN payload}

SectionChanges(sections) ==
  {sections} \union UNION {{[sections EXCEPT ![i].payload = payload] :
                              payload \in CellChanges(sections[i].payload)} : i \in DOMAIN sections}

PayloadSamples ==
  UNION {SectionChanges(encode_graph(graph)) : graph \in Varied}
  \union {encode_graph(graph) : graph \in Deeper}

-----------------------------------------------------------------------------
(* What has to hold                                                         *)

\* A graph that is stored is read as that graph.
ReadsAsStored(graph, outcome) == outcome = <<graph>>

PayloadsOf(sections) == Each(sections, LAMBDA s : s.payload)

\* A damaged file is refused, or its payloads are those that were written.  The kinds are not
\* compared: no checksum covers the table.
RefusedOrUnharmed(outcome) ==
  outcome[1] = "refused" \/ (outcome[2] = 7 /\ PayloadsOf(outcome[3]) = PayloadsOf(SectionsWritten))

RECURSIVE Levels(_)
Levels(value) ==
  CASE value[1] = "list" -> 1 + Max({0} \union {Levels(value[2][i]) : i \in DOMAIN value[2]})
    [] value[1] = "object" -> 1 + Max({0} \union {Levels(value[2][i][2]) : i \in DOMAIN value[2]})
    [] OTHER -> 0

RECURSIVE NamesInValue(_)
NamesInValue(value) ==
  CASE value[1] = "list" -> AllOf(value[2], NamesInValue)
    [] value[1] = "object" -> AllOf(value[2], LAMBDA pair : {pair[1]} \union NamesInValue(pair[2]))
    [] OTHER -> {}

RECURSIVE NamesInType(_)
NamesInType(type) ==
  CASE type[1] = "array" -> NamesInType(type[2])
    [] type[1] = "object" -> AllOf(type[2], LAMBDA field : {field.key} \union NamesInType(field.type))
    [] OTHER -> {}

RECURSIVE TypeLevels(_)
TypeLevels(type) ==
  CASE type[1] = "array" -> 1 + TypeLevels(type[2])
    [] type[1] = "object" -> 1 + Max({0} \union {TypeLevels(type[2][i].type) : i \in DOMAIN type[2]})
    [] OTHER -> 0

RecordsOf(graph) == Each(graph.nodes, LAMBDA n : n.properties) \o Each(graph.edges, LAMBDA e : e.properties)
ProofsOf(graph) == KeptProofs(graph.nodes) \o KeptProofs(graph.edges)
PropertiesOf(graph) == <<"object", Flat(RecordsOf(graph))>>
TypesOf(graph) == <<"object", InTurn(graph.schemas, LAMBDA s : s.fields)>>

NamesUsed(graph) ==
  AllOf(graph.nodes, LAMBDA node : ToSet(node.labels))
  \union AllOf(graph.edges, LAMBDA edge : {edge.relation})
  \union AllOf(graph.links, LAMBDA link : ToSet(link.alias))
  \union AllOf(graph.schemas, LAMBDA s : {s.name})
  \union NamesInValue(PropertiesOf(graph)) \union NamesInType(TypesOf(graph))

LocatorsUsed(graph) ==
  AllOf(graph.links, LAMBDA link : {link.source}) \union AllOf(ProofsOf(graph), LAMBDA one : {one.source})
  \union AllOf(graph.edges, LAMBDA edge :
           {end[2] : end \in {e \in {edge.source, edge.target} : e[1] = "external"}})

ProofIsValid(one) ==
  /\ one.digest \in TheValidAs.digest
  /\ {one.producer, one.version} \union ToSet(one.revision) \union ToSet(one.path) \subseteq TheValidAs.filled
  /\ ToSet(one.range) \subseteq TheValidAs.range /\ ToSet(one.score) \subseteq TheValidAs.score

GraphIsValid(graph) ==
  /\ NamesUsed(graph) \subseteq TheStoredNames
  /\ LocatorsUsed(graph) \subseteq TheValidAs.locator
  /\ \A i \in DOMAIN ProofsOf(graph) : ProofIsValid(ProofsOf(graph)[i])
  /\ Levels(PropertiesOf(graph)) <= Nesting + 1
  /\ TypeLevels(TypesOf(graph)) <= Nesting + 1

\* Whatever is decoded is a graph the model allows.
DecodesValid(outcome) == outcome = << >> \/ GraphIsValid(outcome[1])

-----------------------------------------------------------------------------
(* Values, and the texts they are written as                                *)

Control == "control"
Accented == "accented"
Value == INSTANCE Values WITH
  XidStart <- {"a", "b", "f", "n", "T", "Z", Accented}, XidContinue <- {"a", "b", "f", "n", "0", "1", "_", Accented},
  LowerCase <- {"a", "b", "f", "n"},
  Scalar <- ("a" :> 97) @@ ("\"" :> 34) @@ (Control :> 27),
  Control <- {"\n", "\r", "\t", Control}, NotAscii <- {Accented}, MaxNumber <- 999

\* Every text that differs from this one in one place, or in its length by one.
Replaced(text, characters) == {[text EXCEPT ![i] = c] : i \in DOMAIN text, c \in characters}
NearTo(text, characters) ==
  {text, Front(text)} \union {Append(text, c) : c \in characters} \union Replaced(text, characters)
UpToLength(characters, n) == UNION {[1..k -> characters] : k \in 0..n}

SomeBytes == {[k \in 1..16 |-> 0], [k \in 1..16 |-> (17 * k) % 256], [k \in 1..16 |-> IF k = 7 THEN 112 ELSE 255]}
RecordKind == {"node", "edge", "unit"}
NearIds == NearTo(Value!IdText("node", [k \in 1..16 |-> (17 * k) % 256]), {"-", "0", "a", "A", Accented})

\* The parts of a number in order: a sign, digits, a fraction, an exponent.
DigitTexts == UpToLength({"0", "1"}, 4) \ {<< >>}
NumberTexts ==
  {text \in {sign \o whole \o fraction \o exponent :
     sign \in {<< >>, <<"-">>}, whole \in DigitTexts,
     fraction \in {<< >>} \union {<<".">> \o digits : digits \in DigitTexts},
     exponent \in {<< >>} \union {<<"e">> \o sign \o digits : sign \in {<< >>, <<"+">>, <<"-">>}, digits \in DigitTexts}} :
   Len(text) <= 4}

\* A time as its parts and its offset; a day that exists, by a table of the months.
Time(year, month, day, clock, zone) == [year |-> year, month |-> month, day |-> day, clock |-> clock, zone |-> zone]
TwoDigits(n) == <<ToString(n \div 10), ToString(n % 10)>>
TimeText(time) ==
  TwoDigits(time.year \div 100) \o TwoDigits(time.year % 100) \o <<"-">> \o TwoDigits(time.month) \o <<"-">> \o TwoDigits(time.day)
    \o <<"T">> \o TwoDigits(time.clock[1]) \o <<":">> \o TwoDigits(time.clock[2]) \o <<":">> \o TwoDigits(time.clock[3])
    \o (IF time.zone = "Z" THEN <<"Z">>
        ELSE <<".", "1", "+">> \o TwoDigits(time.zone[1]) \o <<":">> \o TwoDigits(time.zone[2]))
LastDay == <<31, 28, 31, 30, 31, 30, 31, 31, 30, 31, 30, 31>>
Exists(time) ==
  /\ time.month \in 1..12
  /\ time.day \in 1..LastDay[time.month] \/ (time.year \in {2000, 2024} /\ time.month = 2 /\ time.day = 29)
  /\ time.clock[1] < 24 /\ time.clock[2] < 60 /\ time.clock[3] <= 60
SomeTimes ==
  {Time(year, month, day, <<23, 59, 60>>, "Z") : year \in {1900, 2000, 2023, 2024}, month \in 0..13, day \in {0, 1, 28, 29, 30, 31, 32}}
  \union {Time(2024, 2, 29, clock, "Z") : clock \in {<<24, 0, 0>>, <<0, 60, 0>>, <<0, 0, 61>>, <<0, 0, 0>>}}
NearTimes == NearTo(TimeText([Time(2024, 2, 29, <<23, 59, 60>>, "Z") EXCEPT !.zone = <<23, 59>>]), {"0", "9", ":", Accented})

Positions == {Value!Position(row, column, offset) : row \in {0, 1, 12}, column \in {0, 7}, offset \in {0, 5, 30}}
NearRanges == NearTo(Value!RangeText([start |-> Value!Position(1, 10, 5), end |-> Value!Position(2, 1, 13)]), {"-", ":", "0", "+"})

FloatTexts == {"0", "-0", "0.8", "1", "1.4", "NaN", "x"}
ReadFloat(text) ==
  CASE text = <<"0">> -> <<<<1, 0>>>>
    [] text = <<"-0">> -> <<<<-1, 0>>>>
    [] text = <<"0.8">> -> <<<<1, 8>>>>
    [] text = <<"1">> -> <<<<1, 10>>>>
    [] text = <<"1.4">> -> <<<<1, 14>>>>
    [] text = <<"NaN">> -> <<<<"NaN">>>>
    [] OTHER -> << >>
ScoreIn == ("0" :> <<1, 0>>) @@ ("-0" :> <<1, 0>>) @@ ("0.8" :> <<1, 8>>) @@ ("1" :> <<1, 10>>)
ConfidenceTexts ==
  {<<word>> : word \in {"extracted", "inferred", "ambiguous", "certain"}}
  \union {<<word, "(", score, ")">> : word \in {"extracted", "inferred", "ambiguous"}, score \in FloatTexts}
  \union {<<"inferred", "(", "0.8">>, <<"inferred", "(", " ", "0.8", ")">>}

Floats == {<<-1, 3>>, <<-1, 0>>, <<1, 0>>, <<1, 3>>, <<1, 8>>, <<"NaN">>}
Digests == NearTo(<<"a", "1", ":">> \o [k \in 1..32 |-> "f"], {"A", ":", "0"}) \union {<<"a", ":">> \o [k \in 1..n |-> "b"] : n \in 30..34}

ValueSamples ==
  {<<"id", kind, bytes>> : kind \in RecordKind, bytes \in SomeBytes}
  \union {<<"near id", text>> : text \in NearIds}
  \union {<<"text", text>> : text \in UpToLength({"a", "u", "{", "\"", "\\", "\n", "\t", Control}, 3)}
  \union {<<"bytes", bytes>> : bytes \in UpToLength({0, 15, 16, 255}, 3)}
  \union {<<"number", text>> : text \in UpToLength({"-", "0", "1", ".", "e", "E", "+"}, 4)}
  \union {<<"time", time>> : time \in SomeTimes} \union {<<"near time", text>> : text \in NearTimes}
  \union {<<"range", start, end>> : start \in Positions, end \in Positions}
  \union {<<"near range", text>> : text \in NearRanges}
  \union {<<"confidence", text>> : text \in ConfidenceTexts}
  \union {<<"digest", text>> : text \in Digests}
  \union {<<"floats", a, b>> : a \in Floats, b \in Floats}
  \union {<<"minted", generation, other>> : generation \in {0, 1, 255}, other \in {0, 256}}

ValueOutcome(sample) ==
  CASE sample[1] = "id" -> [kind \in RecordKind |-> Value!IdFrom(kind, Value!IdText(sample[2], sample[3]))]
    [] sample[1] = "near id" -> Value!IdFrom("node", sample[2])
    [] sample[1] = "text" -> <<Value!escape_string(sample[2]), Value!read_string(Value!escape_string(sample[2]) \o <<"a">>, 1)>>
    [] sample[1] = "bytes" -> Value!read_bytes_literal(Value!BytesText(sample[2]), 1)
    [] sample[1] = "number" -> Value!read_number(sample[2], 1)
    [] sample[1] = "time" -> Value!validate_rfc3339(TimeText(sample[2]))
    [] sample[1] = "near time" -> Value!validate_rfc3339(sample[2])
    [] sample[1] = "range" -> Value!RangeFrom(Value!RangeText([start |-> sample[2], end |-> sample[3]]))
    [] sample[1] = "near range" -> Value!RangeFrom(sample[2])
    [] sample[1] = "confidence" -> Value!ConfidenceFrom(sample[2], ReadFloat)
    [] sample[1] = "digest" -> Value!ContentDigest(sample[2])
    [] sample[1] = "floats" -> <<Value!FiniteF64(sample[2]), Value!FiniteF64(sample[3])>>
    [] sample[1] = "minted" -> <<Value!Minted(sample[2], 3), Value!Minted(sample[3], 3)>>

RightRange(range) ==
  /\ 0 \notin {range.start.line, range.start.column, range.end.line, range.end.column}
  /\ Value!byte_length(range) >= 0

\* The longest number a text begins with; E stands for e.
AsNumber(text) == [k \in DOMAIN text |-> IF text[k] = "E" THEN "e" ELSE text[k]]
NumberIsLongest(text, end) ==
  \A n \in 0..Len(text) : (AsNumber(SubSeq(text, 1, n)) \in NumberTexts) => n < end

SameFloat(a, b) ==
  /\ Value!FiniteEqual(a, b) <=> Value!Hashed(a) = Value!Hashed(b)
  /\ Value!FiniteEqual(a, b) <=> Value!TotalOrder(a, b) /\ Value!TotalOrder(b, a)

ValueIsRead(sample, outcome) ==
  CASE sample[1] = "id" ->
         \A kind \in RecordKind : outcome[kind] = IF kind = sample[2] THEN <<"ok", sample[3]>> ELSE <<"MissingPrefix">>
    [] sample[1] = "near id" -> outcome[1] = "ok" => Value!IdText("node", outcome[2]) = sample[2]
    [] sample[1] = "text" ->
         /\ outcome[2] = <<"ok", sample[2], Len(outcome[1]) + 1>>
         /\ \A k \in DOMAIN outcome[1] : outcome[1][k] \notin {"\n", "\r", "\t", Control}
    [] sample[1] = "bytes" -> outcome = <<"ok", sample[2], 2 * Len(sample[2]) + 3>>
    [] sample[1] = "number" ->
         IF outcome[1] = "ok"
         THEN /\ outcome[2][2] = AsNumber(SubSeq(sample[2], 1, outcome[3] - 1))
              /\ outcome[2][2] \in NumberTexts /\ NumberIsLongest(sample[2], outcome[3])
              /\ outcome[2][1] = "integer" <=> \A k \in DOMAIN outcome[2][2] : outcome[2][2][k] \notin {".", "e"}
         ELSE AsNumber(sample[2]) \notin NumberTexts
    [] sample[1] = "time" -> outcome[1] = "ok" <=> Exists(sample[2])
    [] sample[1] = "near time" ->
         outcome[1] = "ok" => sample[2][5] = "-" /\ sample[2][14] = ":" /\ sample[2][25] = ":" /\ Len(sample[2]) = 27
    [] sample[1] = "range" ->
         LET range == [start |-> sample[2], end |-> sample[3]] IN
         IF RightRange(range) THEN outcome = <<"ok", range>> ELSE outcome[1] # "ok"
    [] sample[1] = "near range" -> outcome[1] = "ok" => RightRange(outcome[2])
    [] sample[1] = "confidence" ->
         LET word == sample[2][1]
             score == SelectSeq(sample[2], LAMBDA part : part \in FloatTexts) IN
         outcome[1] = "ok" <=>
           \/ sample[2] = <<"extracted">> /\ outcome[2] = <<"extracted">>
           \/ /\ word \in {"inferred", "ambiguous"} /\ Last(sample[2]) = ")"
              /\ score[1] \in DOMAIN ScoreIn /\ outcome[2] = <<word, ScoreIn[score[1]]>>
    [] sample[1] = "digest" ->
         outcome[1] = "ok" => /\ outcome[2].algorithm \o <<":">> \o outcome[2].hex = sample[2]
                              /\ Len(outcome[2].hex) % 2 = 0 /\ Len(outcome[2].hex) > 30
    [] sample[1] = "floats" ->
         outcome[1][1] = "ok" /\ outcome[2][1] = "ok" => SameFloat(outcome[1][2], outcome[2][2])
    [] sample[1] = "minted" ->
         /\ \A i, j \in 1..3 : i # j => outcome[1][i] # outcome[1][j]
         /\ sample[2] # sample[3] => \A i, j \in 1..3 : outcome[1][i] # outcome[2][j]

=============================================================================
