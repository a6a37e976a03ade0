----------------------------- MODULE ChangeDocument -----------------------------
(***************************************************************************)
(* Reading a change set from a document.                                   *)
(*                                                                         *)
(* A JSON value is a tuple that starts with its type: <<"object", the      *)
(* members as a function>>, <<"array", values>>, <<"string", text>>,       *)
(* <<"whole", number>>, <<"decimal", text>>, <<"boolean", b>>, <<"null">>. *)
(* What is read is a value or the fields that are wrong, in order.         *)
(***************************************************************************)
EXTENDS Reading

-----------------------------------------------------------------------------
(* What a change set may say, as far as the set alone decides it.  An       *)
(* operation is a tuple that starts with what it does: <<"node", labels,    *)
(* id, properties, unit, evidence>>, <<"edge", id, source, target,          *)
(* relation, properties, unit, evidence>>, <<"remove", owner, unit>>,       *)
(* <<"resolve", placeholder, outcome, unit, evidence>>, <<"link", source,   *)
(* alias>> or <<"unlink", source>>.  An error is <<what, about what>>.      *)

requires_evidence(owner) == owner # "user"

Operations(set, does) == SelectSeq(set.operations, LAMBDA operation : operation[1] = does)
Told(set, does, at) == InTurn(Operations(set, does), LAMBDA operation : operation[at])
ToldOnce(set, does, at) == Each(Operations(set, does), LAMBDA operation : operation[at])

Duplicated(items) == {items[i] : i \in {j \in DOMAIN items : \E k \in 1..(j - 1) : items[k] = items[j]}}
Errors(what, about) == {<<what, one>> : one \in about}

\* What is wrong with the numbers of the operations of which Broken holds.
At(set, what, Broken(_)) == Errors(what, {i \in DOMAIN set.operations : Broken(set.operations[i])})

IsNode(operation) == operation[1] = "node"
Keys(properties) == Each(properties, LAMBDA property : property[1])
OperationProperties(operation) ==
  CASE operation[1] = "node" -> operation[4] [] operation[1] = "edge" -> operation[6] [] OTHER -> << >>

Lacks(set, operation) ==
  /\ operation[1] \in {"node", "edge", "resolve"}
  /\ requires_evidence(set.owner) /\ operation[Len(operation)] = << >>

record_errors(set) ==
  At(set, "no label", LAMBDA one : IsNode(one) /\ one[2] = << >>)
  \union At(set, "repeated label", LAMBDA one : IsNode(one) /\ Repeats(one[2]))
  \union At(set, "repeated key", LAMBDA one : Repeats(Keys(OperationProperties(one))))
  \union At(set, "no evidence", LAMBDA one : Lacks(set, one))

ReplacedByItself(operation) == operation[1] = "resolve" /\ operation[3] = <<operation[2]>>

link_errors(set) ==
  Errors("link twice", Duplicated(ToldOnce(set, "link", 2)))
  \union Errors("alias twice", Duplicated(Told(set, "link", 3)))
  \union Errors("declared and removed", ToSet(ToldOnce(set, "link", 2)) \intersect ToSet(ToldOnce(set, "unlink", 2)))

validate_change_set(set) ==
  When(set.version # 1, <<"version">>) \union When(set.operations = << >>, <<"empty">>)
  \union record_errors(set)
  \union Errors("node twice", Duplicated(Told(set, "node", 3)))
  \union Errors("edge twice", Duplicated(Told(set, "edge", 2)))
  \union At(set, "not its own", LAMBDA one : one[1] = "remove" /\ one[2] # set.owner)
  \union At(set, "replaced by itself", ReplacedByItself)
  \union link_errors(set)

-----------------------------------------------------------------------------
(* Reading one                                                              *)

Read(value) == [errors |-> << >>, value |-> value]
Invalid(field) == [errors |-> <<field>>, value |-> << >>]
Succeeds(read) == read.errors = << >>
Fails(read) == ~Succeeds(read)

Member(value, key) == IF key \in DOMAIN value[2] THEN <<value[2][key]>> ELSE << >>
Typed(found, type) == found # << >> /\ found[1][1] = type
Absent(found) == found = << >> \/ Typed(found, "null")

\* The first of several that is wrong, or all that was read.
AllRead(reads) ==
  IF \E i \in DOMAIN reads : Fails(reads[i])
  THEN SelectSeq(reads, Fails)[1] ELSE Read(Each(reads, LAMBDA one : one.value))

ReadText(object, field, role) ==
  IF Typed(Member(object, field), "string") /\ Suits(Member(object, field)[1][2], role)
  THEN Read(Member(object, field)[1][2]) ELSE Invalid(field)

\* What is there has to be right.
ReadOptional(object, field, role) ==
  IF Member(object, field) = << >> THEN Read(<< >>)
  ELSE IF Fails(ReadText(object, field, role)) THEN Invalid(field)
  ELSE Read(<<ReadText(object, field, role).value>>)

ReadNullable(object, field, role) ==
  IF Absent(Member(object, field)) THEN Read(<< >>) ELSE ReadOptional(object, field, role)

\* What is not right is taken as absent.
ReadLenient(object, field, role) ==
  IF Fails(ReadText(object, field, role)) THEN Read(<< >>) ELSE Read(<<ReadText(object, field, role).value>>)

-----------------------------------------------------------------------------
(* Evidence                                                                 *)

\* Mutant: a confidence that cannot be read is the highest.
read_confidenceOrExtracted(object) ==
  IF Fails(ReadOptional(object, "confidence", "confidence")) THEN Read(<<"extracted">>)
  ELSE ReadOptional(object, "confidence", "confidence")
read_confidence(object) ==
  IF Member(object, "confidence") = << >> THEN Read(<<"extracted">>)
  ELSE ReadOptional(object, "confidence", "confidence")

read_proof(value) ==
  IF value[1] # "object" THEN Invalid("evidence")
  ELSE AllRead(<<ReadText(value, "source", "locator"), ReadLenient(value, "resolved_revision", "filled"),
                 ReadLenient(value, "path", "filled"), ReadText(value, "content_digest", "digest"),
                 ReadOptional(value, "range", "range"), ReadText(value, "producer", "filled"),
                 ReadText(value, "producer_version", "filled"), ReadText(value, "method", "method"),
                 read_confidence(value)>>)

RequiredOf(owner, read) ==
  IF Succeeds(read) /\ requires_evidence(owner) /\ read.value = << >> THEN Invalid("evidence") ELSE read
ReadProof(object, owner) ==
  IF ~Typed(Member(object, "evidence"), "array") THEN Invalid("evidence")
  ELSE RequiredOf(owner, AllRead(Each(Member(object, "evidence")[1][2], read_proof)))

-----------------------------------------------------------------------------
(* Operations                                                               *)

\* Every label that is wrong is told.
read_label(value) == IF value[1] = "string" /\ Suits(value[2], "name") THEN Read(value[2]) ELSE Invalid("labels")
LabelsRead(reads) ==
  [errors |-> InTurn(reads, LAMBDA one : one.errors), value |-> Each(reads, LAMBDA one : one.value)]
read_labels(object) ==
  IF ~Typed(Member(object, "labels"), "array") THEN Invalid("labels")
  ELSE LabelsRead(Each(Member(object, "labels")[1][2], read_label))

read_property(value, key) ==
  IF Suits(key, "name") /\ value[1] \in {"boolean", "string", "whole", "decimal"}
  THEN Read(<<key, value>>) ELSE Invalid("properties")
PropertiesRead(object) ==
  AllRead(Each(SetToSeq(DOMAIN object[2]), LAMBDA key : read_property(object[2][key], key)))
read_document_properties(object) ==
  CASE Absent(Member(object, "properties")) -> Read(<< >>)
    [] Typed(Member(object, "properties"), "object") -> PropertiesRead(Member(object, "properties")[1])
    [] OTHER -> Invalid("properties")

EndpointIn(object, field) ==
  IF Fails(ReadText(object, "local", "node")) \/ Fails(ReadNullable(object, "source", "locator"))
  THEN Invalid(field)
  ELSE Read(<<ReadText(object, "local", "node").value>> \o ReadNullable(object, "source", "locator").value)
read_endpoint(object, field) ==
  IF Typed(Member(object, field), "object") THEN EndpointIn(Member(object, field)[1], field)
  ELSE Invalid(field)

OutcomeIn(object) ==
  CASE Member(object, "replacement") # << >> /\ Succeeds(ReadText(object, "replacement", "node")) ->
         Read(<<ReadText(object, "replacement", "node").value>>)
    [] Member(object, "replacement") = << >> /\ Member(object, "preserved") = <<<<"boolean", TRUE>>>> -> Read(<< >>)
    [] OTHER -> Invalid("outcome")
read_outcome(object) ==
  IF Typed(Member(object, "outcome"), "object") THEN OutcomeIn(Member(object, "outcome")[1]) ELSE Invalid("outcome")

Does(kind, read) == IF Fails(read) THEN read ELSE Read(<<kind>> \o read.value)

read_operation(object, owner) ==
  CASE ~Typed(Member(object, "operation"), "string") -> Invalid("operation")
    [] Member(object, "operation") = <<<<"string", "upsert_node">>>> ->
         Does("node", AllRead(<<read_labels(object), ReadNullable(object, "id", "node"), read_document_properties(object),
                                ReadText(object, "source_unit", "unit"), ReadProof(object, owner)>>))
    [] Member(object, "operation") = <<<<"string", "upsert_edge">>>> ->
         Does("edge", AllRead(<<ReadNullable(object, "id", "edge"), read_endpoint(object, "source"),
                                read_endpoint(object, "target"), ReadText(object, "relation", "name"),
                                read_document_properties(object), ReadText(object, "source_unit", "unit"),
                                ReadProof(object, owner)>>))
    [] Member(object, "operation") = <<<<"string", "remove_contribution">>>> ->
         Does("remove", AllRead(<<Read(owner), ReadText(object, "source_unit", "unit")>>))
    [] Member(object, "operation") = <<<<"string", "resolve_placeholder">>>> ->
         Does("resolve", AllRead(<<ReadText(object, "placeholder", "node"), read_outcome(object),
                                   ReadText(object, "source_unit", "unit"), ReadProof(object, owner)>>))
    [] Member(object, "operation") = <<<<"string", "upsert_link">>>> ->
         Does("link", AllRead(<<ReadText(object, "source", "locator"), ReadNullable(object, "alias", "name")>>))
    [] Member(object, "operation") = <<<<"string", "remove_link">>>> ->
         Does("unlink", AllRead(<<ReadText(object, "source", "locator")>>))
    [] OTHER -> Invalid("operation")

OperationRead(value, owner) ==
  IF value[1] # "object" THEN Invalid("operation") ELSE read_operation(value, owner)

-----------------------------------------------------------------------------
(* The document                                                             *)

ReadOperations(document, owner) ==
  IF Typed(Member(document, "operations"), "array")
  THEN Each(Member(document, "operations")[1][2], LAMBDA value : OperationRead(value, owner))
  ELSE << >>

IsCount(found) == Typed(found, "whole") /\ found[1][2] >= 0
OwnerRead(document) ==
  IF Succeeds(ReadText(document, "owner", "filled")) THEN ReadText(document, "owner", "filled").value ELSE "user"
SnapshotRead(document) ==
  IF Succeeds(ReadText(document, "source_snapshot", "filled"))
  THEN ReadText(document, "source_snapshot", "filled").value ELSE "unknown"
GenerationRead(document) ==
  IF IsCount(Member(document, "base_generation")) THEN Member(document, "base_generation")[1][2] ELSE 0

ChangeSet(document, reads) ==
  [version |-> 1, generation |-> GenerationRead(document), owner |-> OwnerRead(document),
   snapshot |-> SnapshotRead(document),
   operations |-> Each(SelectSeq(reads, Succeeds), LAMBDA one : one.value)]

DocumentErrors(document, reads) ==
  When(~IsCount(Member(document, "base_generation")), <<"base_generation">>)
  \union When(Fails(ReadText(document, "owner", "filled")), <<"owner">>)
  \union When(Fails(ReadText(document, "source_snapshot", "filled")), <<"source_snapshot">>)
  \union When(~Typed(Member(document, "operations"), "array"), <<"operations">>)
  \union UNION {{<<field, i>> : field \in ToSet(reads[i].errors)} : i \in DOMAIN reads}
  \union validate_change_set(ChangeSet(document, reads))

Parsed(document, reads) ==
  IF DocumentErrors(document, reads) = {} THEN <<"read", ChangeSet(document, reads)>>
  ELSE <<"refused", DocumentErrors(document, reads)>>

Refusing(error) == <<"refused", {error}>>

\* A version that cannot be read is all that is told.
parse_document(text) ==
  CASE text = << >> -> Refusing(<<"not JSON">>)
    [] text # << >> /\ ~Typed(text, "object") -> Refusing(<<"root">>)
    [] OTHER ->
      CASE ~IsCount(Member(text[1], "change_set_version")) -> Refusing(<<"change_set_version">>)
        [] IsCount(Member(text[1], "change_set_version")) /\ Member(text[1], "change_set_version")[1][2] # 1 ->
             Refusing(<<"version">>)
        [] OTHER -> Parsed(text[1], ReadOperations(text[1], OwnerRead(text[1])))

=============================================================================
