------------------------------ MODULE NostGraph ------------------------------
(***************************************************************************)
(* src/nost/validate.rs and src/nost/convert.rs: what a tree is reported   *)
(* for, the graph it stands for, and the tree a graph is written as.       *)
(***************************************************************************)
EXTENDS NostText

CONSTANTS
  NodeIds,        \* the texts that are a node's identifier,
  EdgeIds,        \* and an edge's
  MintedNode,     \* the identifiers the minter gives next, in sequence
  MintedEdge,
  NameOf          \* the declaration name an identifier is written as

Ungrammatical == {"bad", ""}     \* texts no locator, digest, range, unit or moment reads as
ErrorCode == {"VERSION_UNSUPPORTED", "DUPLICATE_LINK_SOURCE", "DUPLICATE_LINK_ALIAS",
              "DUPLICATE_SCHEMA_NAME", "DUPLICATE_PROPERTY_KEY", "DUPLICATE_DECLARATION_NAME",
              "DUPLICATE_ID", "INVALID_ID", "SCHEMA_CONFLICT", "UNKNOWN_LINK_ALIAS",
              "INVALID_EVIDENCE", "INTEGER_OUT_OF_RANGE", "NON_FINITE_NUMBER",
              "INVALID_DATETIME"}
LanguageVersion == "4"

KeyOf(entry) == entry.key
ValueOf(entry) == entry.value
NameIn(declaration) == declaration.name

\* Where the first entry with the key is.
Holding(entries, key) == {i \in DOMAIN entries : entries[i].key = key}
Holds(entries, key) == Holding(entries, key) # {}
First(entries, key) == entries[Min(Holding(entries, key))].value

-----------------------------------------------------------------------------
(* validate()                                                               *)

check_links(file) ==
  When(Repeats(Each(file.links, LAMBDA link : link.source)), "DUPLICATE_LINK_SOURCE")
  \union When(Repeats(Flat(Each(file.links, LAMBDA link : link.alias))), "DUPLICATE_LINK_ALIAS")

check_schema_keys(schema) == When(Repeats(Each(schema.fields, KeyOf)), "DUPLICATE_PROPERTY_KEY")

check_schemas(file) ==
  When(Repeats(Each(file.schemas, NameIn)), "DUPLICATE_SCHEMA_NAME")
  \union AllOf(file.schemas, check_schema_keys)

ScalarOf == [true |-> "boolean", false |-> "boolean", whole |-> "integer", decimal |-> "double",
             quoted |-> "string", hex |-> "bytes", moment |-> "datetime"]

RECURSIVE value_matches(_, _)
value_matches(value, type) ==
  CASE type[1] = "array" ->
         value[1] = "list" /\ \A i \in DOMAIN value[2] : value_matches(value[2][i], type[2])
    [] type[1] = "object" -> value[1] = "object"
    [] OTHER -> value[1] \in DOMAIN ScalarOf /\ ScalarOf[value[1]] = type[2]

RECURSIVE check_nested(_, _)

\* One field against the entries that may hold it.
check_field(field, entries) ==
  IF ~Holds(entries, field.key) THEN When(~field.optional, "SCHEMA_VIOLATION")
  ELSE IF value_matches(First(entries, field.key), field.type)
  THEN check_nested(field.type, First(entries, field.key))
  ELSE {"SCHEMA_VIOLATION"}

check_nested(type, value) ==
  CASE type[1] = "object" /\ value[1] = "object" ->
         AllOf(type[2], LAMBDA field : check_field(field, value[2]))
    [] type[1] = "array" /\ value[1] = "list" ->
         AllOf(value[2], LAMBDA item : check_nested(type[2], item))
    [] OTHER -> {}

\* The last declaration of a schema name is the one its records follow.
SchemasNamed(file, name) == {i \in DOMAIN file.schemas : file.schemas[i].name = name}
FieldsOf(file, name) ==
  IF SchemasNamed(file, name) = {} THEN << >> ELSE file.schemas[Max(SchemasNamed(file, name))].fields

\* The fields of all the schemas named: the first type a key has, required if any says so.
AllFields(file, names) == Flat(Each(names, LAMBDA name : FieldsOf(file, name)))
RECURSIVE BareType(_)
BareType(type) ==
  CASE type[1] = "object" ->
         <<"object", Each(type[2], LAMBDA field : [key |-> field.key, optional |-> field.optional,
                                                   type |-> BareType(field.type)])>>
    [] type[1] = "array" -> <<"array", BareType(type[2])>>
    [] OTHER -> type

SchemaConflict(fields) ==
  \E i \in DOMAIN fields :
    LET first == Min(Holding(fields, fields[i].key)) IN BareType(fields[i].type) # BareType(fields[first].type)

effective_schema(fields) ==
  {[fields[i] EXCEPT !.optional = \A j \in Holding(fields, fields[i].key) : fields[j].optional] :
     i \in {k \in DOMAIN fields : k = Min(Holding(fields, fields[k].key))}}

RECURSIVE check_value(_, _)
check_value(key, value) ==
  CASE value[1] = "whole" -> When(value[2] = "big", "INTEGER_OUT_OF_RANGE")
    [] value[1] = "decimal" ->
         When(value[2] = "1e999" \/ (key = "confidence_score" /\ value[2] = "2.0"),
              "NON_FINITE_NUMBER")
    [] value[1] = "moment" -> When(value[2] \in Ungrammatical, "INVALID_DATETIME")
    [] value[1] = "list" -> AllOf(value[2], LAMBDA item : check_value(key, item))
    [] value[1] = "object" ->
         When(Repeats(Each(value[2], KeyOf)), "DUPLICATE_PROPERTY_KEY")
         \union AllOf(value[2], LAMBDA entry : check_value(entry.key, entry.value))
    [] OTHER -> {}

IsTextList(value) == value[1] = "list" /\ \A i \in DOMAIN value[2] : value[2][i][1] = "quoted"

check_reserved_key(entry, ids) ==
  CASE entry.key = "id" ->
         When(entry.value[1] # "quoted" \/ entry.value[2] \notin ids, "INVALID_ID")
    [] entry.key = "labels" -> When(~IsTextList(entry.value), "SCHEMA_VIOLATION")
    [] OTHER -> {}

check_record(file, names, record, ids) ==
  When(Repeats(Each(record.properties, KeyOf)), "DUPLICATE_PROPERTY_KEY")
  \union AllOf(record.properties, LAMBDA entry : check_value(entry.key, entry.value)
                                                 \union check_reserved_key(entry, ids))
  \union When(SchemaConflict(AllFields(file, names)), "SCHEMA_CONFLICT")
  \union UNION {check_field(field, record.properties) :
                  field \in effective_schema(AllFields(file, names))}

IdText(entry) == IF entry.key = "id" /\ entry.value[1] = "quoted" /\ entry.value[2] \in NodeIds \union EdgeIds
                 THEN <<entry.value[2]>> ELSE << >>
IdsIn(record) == Flat(Each(record.properties, IdText))
RecordOf(declaration) == declaration.record
StatedIds(file) ==
  Flat(Each(file.nodes \o file.edges, LAMBDA declaration : IdsIn(declaration.record)))

\* Mutant: nothing looks whether an identifier is used twice.
RepeatsIdNever(file) == FALSE
RepeatsId(file) == Repeats(StatedIds(file))

\* A local endpoint has to carry the schema the relation asks of its side.
Misses(file, endpoint, required) ==
  \E i \in DOMAIN file.nodes :
    /\ endpoint[1] = "local" /\ file.nodes[i].name = endpoint[2]
    /\ \A j \in 1 .. i - 1 : file.nodes[j].name # endpoint[2]
    /\ required \notin ToSet(file.nodes[i].schemas)

check_edge_endpoint_constraint(file, edge) ==
  LET named == SchemasNamed(file, edge.relation)
      ends == file.schemas[Max(named)].endpoints
  IN  When(/\ named # {} /\ ends # << >>
           /\ \/ Misses(file, edge.source, ends[1].source)
              \/ Misses(file, edge.target, ends[1].target),
           "SCHEMA_VIOLATION")

check_declarations(file) ==
  When(Repeats(Each(file.nodes, NameIn)), "DUPLICATE_DECLARATION_NAME")
  \union When(RepeatsId(file), "DUPLICATE_ID")
  \union AllOf(file.nodes, LAMBDA node : check_record(file, node.schemas, node.record, NodeIds))
  \union AllOf(file.edges, LAMBDA edge :
           check_record(file, <<edge.relation>>, edge.record, EdgeIds)
           \union check_edge_endpoint_constraint(file, edge))

Aliases(file) == ToSet(Flat(Each(file.links, LAMBDA link : link.alias)))
Locators(file) == {file.links[i].source : i \in DOMAIN file.links}
Declared(file) == {file.nodes[i].name : i \in DOMAIN file.nodes}

check_endpoint(file, endpoint) ==
  CASE endpoint[1] = "local" -> When(endpoint[2] \notin Declared(file), "UNRESOLVED_ENDPOINT")
    [] endpoint[1] = "alias" -> When(endpoint[2] \notin Aliases(file), "UNKNOWN_LINK_ALIAS")
    [] OTHER -> When(endpoint[2] \notin Locators(file), "UNKNOWN_LINK_ALIAS")

check_endpoints(file) ==
  AllOf(file.edges, LAMBDA edge : check_endpoint(file, edge.source)
                                  \union check_endpoint(file, edge.target))

EvidenceKeys == {"source", "digest", "method", "confidence", "revision", "path", "range",
                 "producer", "producer_version"}
RequiredKeys == {"source", "digest", "method", "confidence"}
WordKeys == {"method", "confidence"}
Methods == {"deterministic", "ai_inferred", "user_declared"}

InUnit(score) == score # "2.0"

check_confidence(word, score) ==
  \/ word = "extracted" /\ score = << >>
  \/ word \in {"inferred", "ambiguous"} /\ score # << >> /\ InUnit(score[1])

check_evidence_value(key, value) ==
  \/ key \notin WordKeys /\ value[1] = "text"
  \/ key = "method" /\ value[1] = "word" /\ value[2] \in Methods /\ value[3] = << >>
  \/ key = "confidence" /\ value[1] = "word" /\ check_confidence(value[2], value[3])

KnownFields(fields) == SelectSeq(fields, LAMBDA field : field.key \in EvidenceKeys)
KeysOf(fields) == {fields[i].key : i \in DOMAIN fields}

InheritsProducer(owner) == OwnerKind(owner) = "analyzer"

check_evidence(evidence, inherits) ==
  When(\/ KeysOf(evidence.fields) \ EvidenceKeys # {}
       \/ \E i \in DOMAIN KnownFields(evidence.fields) :
            LET field == KnownFields(evidence.fields)[i]
            IN  ~check_evidence_value(field.key, field.value)
       \/ RequiredKeys \ KeysOf(evidence.fields) # {}
       \/ ~inherits /\ ~Holds(evidence.fields, "producer")
       \/ ~Holds(evidence.fields, "producer_version"),
       "INVALID_EVIDENCE")
  \union When(Repeats(Each(KnownFields(evidence.fields), KeyOf)), "DUPLICATE_PROPERTY_KEY")

check_contribution(contribution) ==
  When(\/ contribution.unit # << >> /\ contribution.unit[1] \in Ungrammatical
       \/ contribution.evidence = << >> /\ OwnerKind(contribution.owner) # "user",
       "INVALID_EVIDENCE")
  \union AllOf(contribution.evidence, LAMBDA evidence :
                 check_evidence(evidence, InheritsProducer(contribution.owner)))

check_contributions(file) ==
  AllOf(file.nodes \o file.edges, LAMBDA declaration :
          AllOf(declaration.record.contributions, check_contribution))

\* The codes the document is reported with.
validate(file) ==
  When(file.version # LanguageVersion, "VERSION_UNSUPPORTED")
  \union check_links(file) \union check_schemas(file) \union check_declarations(file)
  \union check_endpoints(file) \union check_contributions(file)

has_errors(found) == found \intersect ErrorCode # {}

-----------------------------------------------------------------------------
(* to_graph()                                                               *)

NumberKept(value) == ~(value[1] = "whole" /\ value[2] = "big") /\ ~(value[1] = "decimal" /\ value[2] = "1e999")

RECURSIVE Storable(_)
Storable(value) ==
  CASE value[1] = "list" -> \A i \in DOMAIN value[2] : Storable(value[2][i])
    [] value[1] = "object" -> \A i \in DOMAIN value[2] : Storable(value[2][i].value)
    [] value[1] = "moment" -> value[2] \notin Ungrammatical
    [] OTHER -> NumberKept(value)

\* FiniteF64::new() has one zero.
FiniteText(text) == IF text = "-0.0" THEN "0.0" ELSE DecimalText(text)

RECURSIVE property_value(_)
property_value(value) ==
  CASE value[1] = "list" -> <<"list", Each(value[2], property_value)>>
    [] value[1] = "object" ->
         <<"object", Each(value[2], LAMBDA entry : <<entry.key, property_value(entry.value)>>)>>
    [] value[1] = "whole" -> <<"whole", WholeText(value[2])>>
    [] value[1] = "decimal" -> <<"decimal", FiniteText(value[2])>>
    [] value[1] = "hex" -> <<"hex", HexText(value[2])>>
    [] OTHER -> value

\* The identifier a record ends with stating, when it states one.
IdOf(record) ==
  LET at == Holding(record.properties, "id") IN
  IF at = {} THEN << >> ELSE <<record.properties[Max(at)].value[2]>>

ExtraLabels(record) ==
  Flat(Each(record.properties, LAMBDA entry :
         IF entry.key = "labels" THEN Each(entry.value[2], LAMBDA item : item[2]) ELSE << >>))

Splits(record, ids) ==
  /\ \A i \in Holding(record.properties, "id") : record.properties[i].value[1] = "quoted"
  /\ IdOf(record) = << >> \/ IdOf(record)[1] \in ids
  /\ \A i \in Holding(record.properties, "labels") : IsTextList(record.properties[i].value)
  /\ \A i \in DOMAIN record.properties :
       record.properties[i].key \notin {"id", "labels"} => Storable(record.properties[i].value)

split_record(record) ==
  Each(SelectSeq(record.properties, LAMBDA entry : entry.key \notin {"id", "labels"}),
       LAMBDA entry : <<entry.key, property_value(entry.value)>>)

\* The names first, then the further labels, each once.
labels_for(names, extra) ==
  LET all == names \o extra
      fresh == {i \in DOMAIN all : \A j \in 1 .. i - 1 : all[j] # all[i]}
  IN  SortedBy(SetToSeq({all[i] : i \in fresh}), TextPlace)

evidence_text(fields, key) ==
  IF Holds(fields, key) /\ First(fields, key)[1] = "text" THEN <<First(fields, key)[2]>> ELSE << >>

evidence_word(fields, key) ==
  IF Holds(fields, key) /\ First(fields, key)[1] = "word" THEN <<First(fields, key)>> ELSE << >>

Reads(text) == text # << >> /\ text[1] \notin Ungrammatical
ReadsIfThere(text) == text = << >> \/ text[1] \notin Ungrammatical
FilledIfThere(text) == text = << >> \/ text[1] # ""
Filled(text) == text # << >> /\ text[1] # ""

\* The producer a block names, or the one its owner supplies.
ProducerOf(fields, inherited) ==
  IF evidence_text(fields, "producer") # << >> THEN evidence_text(fields, "producer") ELSE inherited

IsMethod(word) == word # << >> /\ word[1][2] \in Methods /\ word[1][3] = << >>
IsConfidence(word) == word # << >> /\ check_confidence(word[1][2], word[1][3])

EvidenceConverts(fields, inherited) ==
  /\ Reads(evidence_text(fields, "source")) /\ Reads(evidence_text(fields, "digest"))
  /\ FilledIfThere(evidence_text(fields, "revision")) /\ FilledIfThere(evidence_text(fields, "path"))
  /\ ReadsIfThere(evidence_text(fields, "range"))
  /\ Filled(ProducerOf(fields, inherited)) /\ Filled(evidence_text(fields, "producer_version"))
  /\ IsMethod(evidence_word(fields, "method")) /\ IsConfidence(evidence_word(fields, "confidence"))

ScoreOf(word) == IF word[3] = << >> THEN << >> ELSE <<DecimalText(word[3][1])>>

evidence(fields, inherited) ==
  [source |-> evidence_text(fields, "source")[1], digest |-> evidence_text(fields, "digest")[1],
   revision |-> evidence_text(fields, "revision"), path |-> evidence_text(fields, "path"),
   range |-> evidence_text(fields, "range"), producer |-> ProducerOf(fields, inherited)[1],
   version |-> evidence_text(fields, "producer_version")[1],
   method |-> evidence_word(fields, "method")[1][2],
   confidence |-> evidence_word(fields, "confidence")[1][2],
   score |-> ScoreOf(evidence_word(fields, "confidence")[1])]

Inherited(owner) == IF InheritsProducer(owner) THEN <<owner>> ELSE << >>

ContributionConverts(block) ==
  /\ block.owner # "" /\ ReadsIfThere(block.unit)
  /\ \A i \in DOMAIN block.evidence :
       EvidenceConverts(block.evidence[i].fields, Inherited(block.owner))

contribution(block) ==
  [owner |-> block.owner, unit |-> block.unit,
   evidence |-> Each(block.evidence, LAMBDA one : evidence(one.fields, Inherited(block.owner)))]

RecordConverts(record, ids) ==
  /\ Splits(record, ids)
  /\ \A i \in DOMAIN record.contributions : ContributionConverts(record.contributions[i])

\* A graph says nothing of what a name in a linked source stands for.
Convertible(file) ==
  /\ file.version = LanguageVersion
  /\ \A i \in DOMAIN file.links : file.links[i].source \notin Ungrammatical
  /\ \A i \in DOMAIN file.nodes :
       /\ RecordConverts(file.nodes[i].record, NodeIds)
       /\ ToSet(ExtraLabels(file.nodes[i].record)) \intersect Ungrammatical = {}
  /\ \A i \in DOMAIN file.edges :
       /\ RecordConverts(file.edges[i].record, EdgeIds)
       /\ file.edges[i].source[1] = "local" /\ file.edges[i].target[1] = "local"

schema(declaration) ==
  [name |-> declaration.name, endpoints |-> declaration.endpoints,
   fields |-> SortedBy(BareType(<<"object", declaration.fields>>)[2], KeyPlace)]

\* How many of the first i declarations state no identifier.
Unstated(declarations, i) == Cardinality({j \in 1 .. i : IdOf(declarations[j].record) = << >>})

IdAt(declarations, i, minted) ==
  IF IdOf(declarations[i].record) # << >> THEN IdOf(declarations[i].record)[1]
  ELSE minted[Unstated(declarations, i)]

\* The ends of the edges, in sequence, and those among them that name no declaration.
Ends(file) == Flat(Each(file.edges, LAMBDA edge : <<edge.source[2], edge.target[2]>>))
Unresolved(file, i) == Cardinality({j \in 1 .. i : Ends(file)[j] \notin Declared(file)})

PlaceholderId(file, k) == MintedNode[Unstated(file.nodes, Len(file.nodes)) + k]
Placeholders(file) ==
  [k \in 1 .. Unresolved(file, Len(Ends(file))) |->
     [id |-> PlaceholderId(file, k), labels |-> <<"Placeholder">>, properties |-> << >>,
      contributions |-> << >>]]

endpoint(file, i) ==
  LET named == {j \in DOMAIN file.nodes : file.nodes[j].name = Ends(file)[i]} IN
  IF named = {} THEN PlaceholderId(file, Unresolved(file, i))
  ELSE IdAt(file.nodes, Max(named), MintedNode)

PairPlace(pair) == <<Place[pair[1]]>>
IdPlace(record) == <<Place[record.id]>>

\* What a record's properties and contributions are put in order by.
Properties(record) == SortedBy(split_record(record), PairPlace)
Contributions(record) == SortedBy(Each(record.contributions, contribution), owner_key)

ToNode(file, i) ==
  [id |-> IdAt(file.nodes, i, MintedNode),
   labels |-> labels_for(file.nodes[i].schemas, ExtraLabels(file.nodes[i].record)),
   properties |-> Properties(file.nodes[i].record),
   contributions |-> Contributions(file.nodes[i].record)]

ToEdge(file, i) ==
  [id |-> IdAt(file.edges, i, MintedEdge), source |-> <<"local", endpoint(file, 2 * i - 1)>>,
   target |-> <<"local", endpoint(file, 2 * i)>>, relation |-> file.edges[i].relation,
   properties |-> Properties(file.edges[i].record),
   contributions |-> Contributions(file.edges[i].record)]

\* The graph in canonical order, or nothing when the document is refused.
to_graph(file) ==
  IF ~Convertible(file) THEN << >>
  ELSE <<[links |-> Each(file.links, LAMBDA link : [source |-> link.source, alias |-> link.alias]),
          schemas |-> SortedBy(Each(file.schemas, schema), NamePlace),
          nodes |-> SortedBy([i \in DOMAIN file.nodes |-> ToNode(file, i)] \o Placeholders(file),
                             IdPlace),
          edges |-> SortedBy([i \in DOMAIN file.edges |-> ToEdge(file, i)], IdPlace)]>>

-----------------------------------------------------------------------------
(* from_graph()                                                             *)

generated_name(id) == NameOf[id]

RECURSIVE written_field_type(_)
WrittenField(field) ==
  SchemaField(field.key, field.optional, written_field_type(field.type), NoComments)

written_field_type(type) ==
  CASE type[1] = "object" -> ObjectType(Each(type[2], WrittenField), << >>)
    [] type[1] = "array" -> <<"array", written_field_type(type[2])>>
    [] OTHER -> type

RECURSIVE value_of(_)
Written(pair) == Property(pair[1], value_of(pair[2]), NoComments)

value_of(value) ==
  CASE value[1] = "list" -> <<"list", Each(value[2], value_of)>>
    [] value[1] = "object" -> ObjectValue(Each(value[2], Written), << >>)
    [] OTHER -> value

TextField(key, text) == Each(text, LAMBDA t : EvidenceField(key, <<"text", t, << >>>>, NoComments))
WordField(key, word, score) == <<EvidenceField(key, <<"word", word, score>>, NoComments)>>

\* The producer that reading the block back supplies anyway is left out.
\* Mutant: it is left out for every owner that has its name.
NamedProducerUnlessOwner(one, owner) == IF one.producer = owner THEN << >> ELSE <<one.producer>>
NamedProducer(one, owner) == IF Inherited(owner) = <<one.producer>> THEN << >> ELSE <<one.producer>>

evidence_block(one, owner) ==
  EvidenceBlock(
    TextField("source", <<one.source>>) \o TextField("revision", one.revision)
    \o TextField("path", one.path) \o TextField("digest", <<one.digest>>)
    \o TextField("range", one.range) \o TextField("producer", NamedProducer(one, owner))
    \o TextField("producer_version", <<one.version>>)
    \o WordField("method", one.method, << >>) \o WordField("confidence", one.confidence, one.score),
    BareBlock)

contribution_block(claim) ==
  ContributionBlock(claim.owner, claim.unit,
                    Each(claim.evidence, LAMBDA one : evidence_block(one, claim.owner)), BareBlock)

LabelItem(label) == <<"quoted", label>>

record_body(id, properties, extra, contributions) ==
  RecordBody(
    <<Property("id", <<"quoted", id>>, NoComments)>>
    \o (IF extra = << >> THEN << >>
        ELSE <<Property("labels", <<"list", Each(extra, LabelItem)>>, NoComments)>>)
    \o Each(properties, Written),
    Each(contributions, contribution_block), BareBlock)

\* The labels a schema declares, or the first when none does.

NamedLabels(labels, declared) ==
  LET named == SelectSeq(labels, LAMBDA label : label \in declared)
  IN  IF named = << >> /\ labels # << >> THEN <<Head(labels)>> ELSE named

split_labels(labels, declared) ==
  SelectSeq(labels, LAMBDA label : label \notin ToSet(NamedLabels(labels, declared)))

LinksTo(graph, source) == {i \in DOMAIN graph.links : graph.links[i].source = source}
AliasOf(graph, source) ==
  IF LinksTo(graph, source) = {} THEN << >> ELSE graph.links[Min(LinksTo(graph, source))].alias

reference_endpoint(reference, graph) ==
  IF reference[1] = "local"
  THEN <<"local", generated_name(reference[2]), generated_name(reference[2])>>
  ELSE IF AliasOf(graph, reference[2]) # << >>
  THEN <<"alias", AliasOf(graph, reference[2])[1], generated_name(reference[3])>>
  ELSE <<"locator", reference[2], generated_name(reference[3])>>

DeclaredLabels(graph) == {graph.schemas[i].name : i \in DOMAIN graph.schemas}

FromSchema(one) ==
  SchemaDeclaration(one.name, one.endpoints, Each(one.fields, WrittenField), BareBlock)

FromNode(node, declared) ==
  NodeDeclaration(generated_name(node.id), NamedLabels(node.labels, declared),
                  record_body(node.id, node.properties, split_labels(node.labels, declared),
                              node.contributions))

FromEdge(edge, graph) ==
  EdgeDeclaration(reference_endpoint(edge.source, graph), reference_endpoint(edge.target, graph),
                  edge.relation, record_body(edge.id, edge.properties, << >>, edge.contributions))

from_graph(graph) ==
  SourceFile(LanguageVersion, NoComments,
             Each(graph.links, LAMBDA link : LinkDeclaration(link.source, link.alias, NoComments)),
             Each(graph.schemas, FromSchema),
             Each(graph.nodes, LAMBDA node : FromNode(node, DeclaredLabels(graph))),
             Each(graph.edges, LAMBDA edge : FromEdge(edge, graph)), << >>)

=============================================================================
