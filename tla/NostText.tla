------------------------------ MODULE NostText ------------------------------
(***************************************************************************)
(* src/nost/lexer.rs, src/nost/parser.rs and the tree of src/nost/mod.rs:  *)
(* how a .nost document is read without losing a comment.                  *)
(*                                                                         *)
(* A document is the sequence of its lexemes <<kind, text>>, white space   *)
(* and comments included.  A parser takes a state and returns the next     *)
(* one: the tokens, the index of the current one, the comments that wait   *)
(* for something to lead, and what Reading has in every reader.            *)
(*                                                                         *)
(* src/nost/format.rs: the canonical text of a tree, as the sequence of    *)
(* its lexemes.  A line ends with a NewLine; the indent and the spaces     *)
(* between two words carry nothing and are left out.                       *)
(***************************************************************************)
EXTENDS Reading

CONSTANT MaxDepth      \* MAX_NESTING_DEPTH

NewLine == <<"space", "newline">>
Mark(spelling) == <<spelling, spelling>>

CommentKind == {"line", "block"}
Reserved == {"as", "bytes", "datetime", "edge", "false", "node", "schema", "true"}
ScalarName == {"boolean", "integer", "double", "string", "bytes", "datetime"}
NotUnsigned == {"-1", "big"}      \* the whole numbers that are no u32
LiteralKind == {"true", "false", "whole", "decimal", "quoted", "hex", "moment"}

-----------------------------------------------------------------------------
(* The tree                                                                 *)

Comments(leading, trailing) == [leading |-> leading, trailing |-> trailing]
NoComments == Comments(<< >>, << >>)

\* What a block holds, with the comments before it, after its brace and at its end.
Block(leading, trailing, last) == [leading |-> leading, trailing |-> trailing, last |-> last]
BareBlock == Block(<< >>, << >>, << >>)

Property(key, value, comments) == [key |-> key, value |-> value, comments |-> comments]

SchemaField(key, optional, type, comments) ==
  [key |-> key, optional |-> optional, type |-> type, comments |-> comments]

ObjectValue(entries, last) == <<"object", entries, last>>
ObjectType(fields, last) == <<"object", fields, last>>

EvidenceField(key, value, comments) == Property(key, value, comments)

EvidenceBlock(fields, block) == [fields |-> fields, block |-> block]

ContributionBlock(owner, unit, evidence, block) ==
  [owner |-> owner, unit |-> unit, evidence |-> evidence, block |-> block]

RecordBody(properties, contributions, block) ==
  [properties |-> properties, contributions |-> contributions, block |-> block]

NodeDeclaration(name, schemas, record) ==
  [name |-> name, schemas |-> schemas, record |-> record]

EdgeDeclaration(source, target, relation, record) ==
  [source |-> source, target |-> target, relation |-> relation, record |-> record]

SchemaDeclaration(name, endpoints, fields, block) ==
  [name |-> name, endpoints |-> endpoints, fields |-> fields, block |-> block]

LinkDeclaration(source, alias, comments) ==
  [source |-> source, alias |-> alias, comments |-> comments]

SourceFile(version, comments, links, schemas, nodes, edges, last) ==
  [version |-> version, comments |-> comments, links |-> links, schemas |-> schemas,
   nodes |-> nodes, edges |-> edges, last |-> last]

\* The levels of a value, of a tree that is lists and objects with scalars below.
RECURSIVE ValueDepth(_)
ValueDepth(value) ==
  CASE value[1] = "list" -> 1 + Max({0} \union {ValueDepth(value[2][i]) : i \in DOMAIN value[2]})
    [] value[1] = "object" ->
         1 + Max({0} \union {ValueDepth(value[2][i].value) : i \in DOMAIN value[2]})
    [] OTHER -> 0

RECURSIVE TypeDepth(_)
TypeDepth(type) ==
  CASE type[1] = "array" -> 1 + TypeDepth(type[2])
    [] type[1] = "object" -> 1 + Max({0} \union {TypeDepth(type[2][i].type) : i \in DOMAIN type[2]})
    [] OTHER -> 0

-----------------------------------------------------------------------------
(* Tokens                                                                   *)

\* Whether only white space follows the last line end, after the first i lexemes.
AtLineStart(source) ==
  LET after[i \in 0 .. Len(source)] ==
        IF i = 0 THEN TRUE
        ELSE IF source[i] = NewLine THEN TRUE
        ELSE source[i][1] = "space" /\ after[i - 1]
  IN  after

tokenize(source) ==
  LET start == AtLineStart(source) IN
  [i \in DOMAIN source |-> [kind |-> source[i][1], text |-> source[i][2], own |-> start[i - 1]]]

State(tokens) == [tokens |-> tokens, at |-> 1, pending |-> << >>, ok |-> TRUE, out |-> << >>]

Kind(s) == IF s.at <= Len(s.tokens) THEN s.tokens[s.at].kind ELSE "eof"
TextAt(s) == s.tokens[s.at].text
CommentAt(s, i) == <<s.tokens[i].kind, s.tokens[i].text>>

Step(s) == [s EXCEPT !.at = @ + 1]
Taken(s) == Out(Step(s), TextAt(s))

\* Every comment on the way waits for what comes next.
RECURSIVE skip_trivia(_)
skip_trivia(s) ==
  IF Kind(s) = "space" THEN skip_trivia(Step(s))
  ELSE IF Kind(s) \in CommentKind
  THEN skip_trivia([Step(s) EXCEPT !.pending = Append(@, CommentAt(s, s.at))])
  ELSE s

TakesTrailing(token) == token.kind \in CommentKind /\ ~token.own

RECURSIVE SolidFrom(_, _)
SolidFrom(s, i) ==
  IF i <= Len(s.tokens) /\ s.tokens[i].kind = "space" THEN SolidFrom(s, i + 1) ELSE i

TrailingAt(s, i) ==
  IF i <= Len(s.tokens) /\ TakesTrailing(s.tokens[i])
  THEN [s EXCEPT !.at = i + 1, !.out = <<CommentAt(s, i)>>] ELSE Out(s, << >>)

\* The comment on the same line, when one is next.
take_trailing(s) == TrailingAt(s, SolidFrom(s, s.at))

take_pending(s) == [s EXCEPT !.pending = << >>, !.out = s.pending]

TakeIf(s, kind) == IF Kind(s) = kind THEN Taken(s) ELSE Wrong(s)
expect(s, kind) == TakeIf(skip_trivia(s), kind)

EatHere(s, kind) == IF Kind(s) = kind THEN Out(Step(s), TRUE) ELSE Out(s, FALSE)
eat(s, kind) == EatHere(skip_trivia(s), kind)

\* Goes on past a token of the kind.
Past(s, kind, Next(_)) == Then(expect(s, kind), LAMBDA text, next : Next(next))

EntryEnd(s, separated, trailing) ==
  Out(s, [separated |-> separated, trailing |-> trailing])

\* The comma after an entry, and the comment on either side of it.
finish_entry(s) ==
  Then(take_trailing(s), LAMBDA before, here :
    Then(eat(here, ","), LAMBDA separated, comma :
      IF before # << >> THEN EntryEnd(comma, separated, before)
      ELSE Then(take_trailing(comma), LAMBDA trailing, end : EntryEnd(end, separated, trailing))))

expect_identifier(s) == expect(s, "name")
expect_string(s) == expect(s, "quoted")

\* What Read reads, when the current token is of the kind.
Optional(s, kind, Read(_)) ==
  IF Kind(s) = kind THEN Then(Read(s), LAMBDA read, end : Out(end, <<read>>)) ELSE Out(s, << >>)

\* What begins with the kind, time after time, each read with the comments that lead it.
Every(s, kind, Read(_, _)) ==
  LET RECURSIVE from(_, _)
      from(here, done) ==
        IF here.ok /\ Kind(here) = kind
        THEN Then(Read(take_pending(here), here.pending), LAMBDA read, end :
               from(skip_trivia(end), Append(done, read)))
        ELSE Out(here, done)
  IN  from(skip_trivia(s), << >>)

\* The brace that ends a block: what waits there is the block's own.
Closed(s, Read(_)) ==
  Then(take_pending(s), LAMBDA last, end : Past(end, "}", LAMBDA next : Out(next, Read(last))))

-----------------------------------------------------------------------------
(* Values                                                                   *)

parse_endpoint_here(s) ==
  IF Kind(s) = "quoted"
  THEN Past(Taken(s), "::", LAMBDA at :
         Then(expect_identifier(at), LAMBDA name, end :
           Out(end, <<"locator", TextAt(s), name>>)))
  ELSE Then(expect_identifier(s), LAMBDA first, after :
         IF Kind(skip_trivia(after)) = "::"
         THEN Past(after, "::", LAMBDA at :
                Then(expect_identifier(at), LAMBDA name, end : Out(end, <<"alias", first, name>>)))
         ELSE Out(skip_trivia(after), <<"local", first, first>>))

parse_endpoint(s) == parse_endpoint_here(skip_trivia(s))

parse_scalar(s) ==
  IF Kind(s) \in LiteralKind THEN Out(Step(s), <<Kind(s), TextAt(s)>>) ELSE Wrong(s)

RECURSIVE parse_value_expression(_), parse_items(_, _), parse_property_entries(_, _)

\* One item or more; no comma before the bracket.
parse_items(s, done) ==
  Then(parse_value_expression(s), LAMBDA item, end :
    Then(eat(end, ","), LAMBDA comma, next :
      IF ~comma THEN Out(next, Append(done, item))
      ELSE IF Kind(skip_trivia(next)) = "]" THEN Wrong(next)
      ELSE parse_items(next, Append(done, item))))

parse_list(s) ==
  Then(IF Kind(skip_trivia(s)) = "]" THEN Out(s, << >>) ELSE parse_items(s, << >>),
       LAMBDA items, end : Past(end, "]", LAMBDA next : Out(next, <<"list", items>>)))

parse_object_value(s) ==
  Then(parse_property_entries(s, << >>), LAMBDA entries, end :
    Closed(end, LAMBDA last : ObjectValue(entries, last)))

ExpressionHere(s) ==
  CASE Kind(s) = "[" -> parse_list(Step(s))
    [] Kind(s) = "{" -> parse_object_value(Step(s))
    [] OTHER -> parse_scalar(s)

parse_value_expression(s) == ExpressionHere(skip_trivia(s))

WithinDepth(depth) == depth <= MaxDepth

parse_value(s) ==
  Then(parse_value_expression(s), LAMBDA value, end :
    IF WithinDepth(ValueDepth(value)) THEN end ELSE Wrong(end))

\* A key, a value and what ends the entry.
parse_entry(s, leading, Read(_)) ==
  Then(expect_identifier(s), LAMBDA key, named :
    Past(named, ":", LAMBDA colon :
      Then(Read(colon), LAMBDA value, read :
        Then(finish_entry(read), LAMBDA entry, end :
          Out(end, [property |-> Property(key, value, Comments(leading, entry.trailing)),
                    separated |-> entry.separated])))))

\* Properties, with or without a comma between two.
PropertiesFrom(here, done) ==
  IF Kind(here) = "name"
  THEN Then(parse_entry(take_pending(here), here.pending, parse_value), LAMBDA entry, end :
         parse_property_entries(end, Append(done, entry.property)))
  ELSE Out(here, done)

parse_property_entries(s, done) == PropertiesFrom(skip_trivia(s), done)

-----------------------------------------------------------------------------
(* Records                                                                  *)

EvidenceWord(s, word) ==
  IF Kind(s) # "(" THEN Out(s, <<"word", word, << >>>>)
  ELSE Then(skip_trivia(Step(s)), LAMBDA bracket, at :
         IF Kind(at) \notin {"whole", "decimal"} THEN Wrong(at)
         ELSE Past(Step(at), ")", LAMBDA end : Out(end, <<"word", word, <<TextAt(at)>>>>)))

EvidenceValueHere(s) ==
  IF Kind(s) = "quoted" THEN Out(Step(s), <<"text", TextAt(s), << >>>>)
  ELSE Then(expect_identifier(s), LAMBDA word, end : EvidenceWord(skip_trivia(end), word))

parse_evidence_value(s) == EvidenceValueHere(skip_trivia(s))

\* Fields, until one that no comma follows.
RECURSIVE EvidenceFields(_, _)

EvidenceFieldsFrom(here, done) ==
  IF Kind(here) # "name" THEN Out(here, done)
  ELSE Then(parse_entry(take_pending(here), here.pending, parse_evidence_value),
            LAMBDA entry, end :
              IF entry.separated THEN EvidenceFields(end, Append(done, entry.property))
              ELSE Out(end, Append(done, entry.property)))

EvidenceFields(s, done) == EvidenceFieldsFrom(skip_trivia(s), done)

\* A brace, the comment after it, and what Read makes of the block.
Braced(s, Read(_, _)) ==
  Past(s, "{", LAMBDA brace : Then(take_trailing(brace), LAMBDA trailing, at : Read(trailing, at)))

parse_evidence(s, leading) ==
  Past(s, "@evidence", LAMBDA directive :
    Braced(directive, LAMBDA trailing, at :
      Then(EvidenceFields(at, << >>), LAMBDA fields, end :
        Closed(end, LAMBDA last : EvidenceBlock(fields, Block(leading, trailing, last))))))

parse_unit(s) == expect_string(Step(s))

parse_unit_here(s) ==
  IF Kind(s) = "name" /\ TextAt(s) = "unit" THEN Optional(s, "name", parse_unit)
  ELSE Out(s, << >>)

parse_contribution(s, leading) ==
  Past(s, "@by", LAMBDA directive :
    Then(expect_string(directive), LAMBDA owner, owned :
      Then(parse_unit_here(skip_trivia(owned)), LAMBDA unit, head :
        Braced(head, LAMBDA trailing, at :
          Then(Every(at, "@evidence", parse_evidence), LAMBDA evidence, end :
            Closed(end, LAMBDA last :
              ContributionBlock(owner, unit, evidence, Block(leading, trailing, last))))))))

parse_record_body(s, leading) ==
  Braced(s, LAMBDA trailing, at :
    Then(parse_property_entries(at, << >>), LAMBDA properties, listed :
      Then(Every(listed, "@by", parse_contribution), LAMBDA contributions, end :
        Closed(end, LAMBDA last :
          RecordBody(properties, contributions, Block(leading, trailing, last))))))

RECURSIVE Names(_, _)
Names(s, done) ==
  Then(expect_identifier(s), LAMBDA name, named :
    Then(eat(named, ","), LAMBDA comma, next :
      IF comma THEN Names(next, Append(done, name)) ELSE Out(next, Append(done, name))))

parse_node(s, leading) ==
  Past(s, "node", LAMBDA word :
    Then(expect_identifier(word), LAMBDA name, named :
      Past(named, ":", LAMBDA colon :
        Then(Names(colon, << >>), LAMBDA schemas, head :
          Then(parse_record_body(head, leading), LAMBDA record, end :
            Out(end, NodeDeclaration(name, schemas, record)))))))

parse_edge(s, leading) ==
  Past(s, "edge", LAMBDA word :
    Then(parse_endpoint(word), LAMBDA source, from :
      Past(from, "->", LAMBDA arrow :
        Then(parse_endpoint(arrow), LAMBDA target, to :
          Past(to, ":", LAMBDA colon :
            Then(expect_identifier(colon), LAMBDA relation, head :
              Then(parse_record_body(head, leading), LAMBDA record, end :
                Out(end, EdgeDeclaration(source, target, relation, record)))))))))

-----------------------------------------------------------------------------
(* Schemas                                                                  *)

RECURSIVE parse_type_expression(_), parse_field_entries(_, _)

parse_object_type(s) ==
  Then(parse_field_entries(s, << >>), LAMBDA fields, end :
    Closed(end, LAMBDA last : ObjectType(fields, last)))

parse_scalar_type(s) ==
  IF Kind(s) \in {"name", "bytes", "datetime"} /\ TextAt(s) \in ScalarName
  THEN Out(Step(s), <<"scalar", TextAt(s)>>) ELSE Wrong(s)

SuffixAt(s) == s

\* The suffixes sit directly against the type, so that a comment after it stays.
RECURSIVE Suffixed(_, _)
Suffixed(s, type) ==
  IF Kind(s) = "["
  THEN Past(Step(s), "]", LAMBDA end : Suffixed(SuffixAt(end), <<"array", type>>))
  ELSE Out(s, type)

TypeHere(s) ==
  Then(IF Kind(s) = "{" THEN parse_object_type(Step(s)) ELSE parse_scalar_type(s),
       LAMBDA type, end : Suffixed(SuffixAt(end), type))

parse_type_expression(s) == TypeHere(skip_trivia(s))

parse_field_type(s) ==
  Then(parse_type_expression(s), LAMBDA type, end :
    IF WithinDepth(TypeDepth(type)) THEN end ELSE Wrong(end))

parse_field(s, leading) ==
  Then(expect_identifier(s), LAMBDA key, named :
    Then(eat(named, "?"), LAMBDA optional, mark :
      Past(mark, ":", LAMBDA colon :
        Then(parse_field_type(colon), LAMBDA type, read :
          Then(finish_entry(read), LAMBDA entry, end :
            Out(end, SchemaField(key, optional, type, Comments(leading, entry.trailing))))))))

FieldsFrom(here, done) ==
  IF Kind(here) = "name"
  THEN Then(parse_field(take_pending(here), here.pending), LAMBDA field, end :
         parse_field_entries(end, Append(done, field)))
  ELSE Out(here, done)

parse_field_entries(s, done) == FieldsFrom(skip_trivia(s), done)

\* `(source -> target)`, past the parenthesis.
EndpointConstraint(s) ==
  Then(expect_identifier(Step(s)), LAMBDA source, from :
    Past(from, "->", LAMBDA arrow :
      Then(expect_identifier(arrow), LAMBDA target, to :
        Past(to, ")", LAMBDA end : Out(end, [source |-> source, target |-> target])))))

parse_schema(s, leading) ==
  Past(s, "schema", LAMBDA word :
    Then(expect_identifier(word), LAMBDA name, named :
      Then(Optional(skip_trivia(named), "(", EndpointConstraint), LAMBDA endpoints, head :
        Braced(head, LAMBDA trailing, at :
          Then(parse_field_entries(at, << >>), LAMBDA fields, end :
            Closed(end, LAMBDA last :
              SchemaDeclaration(name, endpoints, fields, Block(leading, trailing, last))))))))

-----------------------------------------------------------------------------
(* The document                                                             *)

parse_alias(s) == expect_identifier(Step(s))

\* The comment after a link without an alias is skipped on the way to `as`.
parse_link(s, leading) ==
  Past(s, "@link", LAMBDA directive :
    Then(expect_string(directive), LAMBDA source, located :
      Then(Optional(skip_trivia(located), "as", parse_alias), LAMBDA alias, named :
        Then(take_trailing(named), LAMBDA trailing, end :
          Out(end, LinkDeclaration(source, alias, Comments(leading, trailing)))))))

\* Schemas, nodes and edges in the order they are written.
RECURSIVE Declarations(_, _)
Declarations(here, done) ==
  IF Kind(here) = "schema"
  THEN Then(parse_schema(take_pending(here), here.pending), LAMBDA schema, end :
         Declarations(skip_trivia(end), [done EXCEPT !.schemas = Append(@, schema)]))
  ELSE IF Kind(here) = "node"
  THEN Then(parse_node(take_pending(here), here.pending), LAMBDA node, end :
         Declarations(skip_trivia(end), [done EXCEPT !.nodes = Append(@, node)]))
  ELSE IF Kind(here) = "edge"
  THEN Then(parse_edge(take_pending(here), here.pending), LAMBDA edge, end :
         Declarations(skip_trivia(end), [done EXCEPT !.edges = Append(@, edge)]))
  ELSE Out(here, done)

NoDeclarations == [schemas |-> << >>, nodes |-> << >>, edges |-> << >>]

Document(s) ==
  Past(take_pending(s), "@nost", LAMBDA directive :
    Then(expect(directive, "whole"), LAMBDA version, head :
      Then(IF version \in NotUnsigned THEN Wrong(head) ELSE take_trailing(head),
           LAMBDA trailing, after :
        Then(Every(after, "@link", parse_link), LAMBDA links, linked :
          Then(Declarations(linked, NoDeclarations), LAMBDA body, end :
            IF Kind(end) # "eof" THEN Wrong(end)
            ELSE Out(end, SourceFile(version, Comments(s.pending, trailing), links, body.schemas,
                                     body.nodes, body.edges, end.pending)))))))

\* The tree, or nothing when the text is not one of the grammar.
parse(source) == Accepted(Document(skip_trivia(State(tokenize(source)))))

-----------------------------------------------------------------------------
(* The canonical text                                                       *)

CONSTANTS
  Alphabet,      \* every text in the order of its characters
  AiOwner        \* the owner names that begin with `ai:`

Place == [text \in ToSet(Alphabet) |-> CHOOSE i \in DOMAIN Alphabet : Alphabet[i] = text]

\* The order of two keys, the first number that differs deciding.
Before(a, b) == \E n \in DOMAIN a : a[n] < b[n] /\ \A m \in 1 .. n - 1 : a[m] = b[m]

\* A stable sort.
SortedBy(items, Key(_)) ==
  LET key == [i \in DOMAIN items |-> Key(items[i])] \o << >>
      place == [i \in DOMAIN items |->
                  Cardinality({j \in DOMAIN items :
                                 Before(key[j], key[i]) \/ (key[j] = key[i] /\ j < i)})] \o << >>
  IN  [k \in DOMAIN items |-> items[CHOOSE i \in DOMAIN items : place[i] = k - 1]] \o << >>

\* Each of the entries as Write(entry, separator) has it, commas between them only.
SeparatedLines(entries, Write(_, _)) ==
  Flat([i \in DOMAIN entries |->
          Write(entries[i], IF i = Len(entries) THEN << >> ELSE <<Mark(",")>>)])

line(words) == Append(words, NewLine)
blank == <<NewLine>>

render_comment(comment) == comment

\* Comments on lines of their own.
CommentLines(comments) == Flat([i \in DOMAIN comments |-> line(<<render_comment(comments[i])>>)])

with_trailing(words, comments) == words \o comments.trailing

Quoted(text) == <<"quoted", text>>
Name(text) == <<"name", text>>

-----------------------------------------------------------------------------
(* Values                                                                   *)

\* What a number that can be read is written as; any other stays as it is.
WholeText(text) == CASE text = "007" -> "7" [] text = "-0" -> "0" [] OTHER -> text
DecimalText(text) == CASE text = "1.50" -> "1.5" [] text = "1" -> "1.0" [] OTHER -> text

HexText(text) == IF text = "AB" THEN "ab" ELSE text

RECURSIVE contains_object(_)
contains_object(value) ==
  \/ value[1] = "object"
  \/ value[1] = "list" /\ \E i \in DOMAIN value[2] : contains_object(value[2][i])

RECURSIVE render_inline(_)
render_inline(value) ==
  CASE value[1] = "true" \/ value[1] = "false" -> <<Mark(value[1])>>
    [] value[1] = "whole" -> <<<<"whole", WholeText(value[2])>>>>
    [] value[1] = "decimal" -> <<<<"decimal", DecimalText(value[2])>>>>
    [] value[1] = "hex" -> <<<<"hex", HexText(value[2])>>>>
    [] value[1] = "list" ->
         <<Mark("[")>>
         \o Flat([i \in DOMAIN value[2] |->
                    (IF i = 1 THEN << >> ELSE <<Mark(",")>>) \o render_inline(value[2][i])])
         \o <<Mark("]")>>
    [] value[1] = "object" -> <<Mark("{"), Mark("}")>>
    [] OTHER -> <<<<value[1], value[2]>>>>

KeyPlace(entry) == <<Place[entry.key]>>

RECURSIVE render_value(_)

EntryLines(entry, separator) ==
  CommentLines(entry.comments.leading)
  \o line(with_trailing(<<Name(entry.key), Mark(":")>> \o render_value(entry.value) \o separator,
                        entry.comments))

render_object(entries, last) ==
  IF entries = << >> /\ last = << >> THEN <<Mark("{"), Mark("}")>>
  ELSE line(<<Mark("{")>>) \o SeparatedLines(SortedBy(entries, KeyPlace), EntryLines)
       \o CommentLines(last) \o <<Mark("}")>>

ItemLine(item, separator) == line(render_value(item) \o separator)

render_value(value) ==
  CASE ~contains_object(value) -> render_inline(value)
    [] value[1] = "list" ->
         line(<<Mark("[")>>) \o SeparatedLines(value[2], ItemLine) \o <<Mark("]")>>
    [] OTHER -> render_object(value[2], value[3])

RECURSIVE contains_object_type(_)
contains_object_type(type) ==
  type[1] = "object" \/ (type[1] = "array" /\ contains_object_type(type[2]))

ScalarLexeme(name) == IF name \in Reserved THEN Mark(name) ELSE Name(name)

RECURSIVE render_field_type(_)

FieldLines(field, separator) ==
  CommentLines(field.comments.leading)
  \o line(with_trailing(<<Name(field.key)>> \o (IF field.optional THEN <<Mark("?")>> ELSE << >>)
                        \o <<Mark(":")>> \o render_field_type(field.type) \o separator,
                        field.comments))

render_object_type(fields, last) ==
  IF fields = << >> /\ last = << >> THEN <<Mark("{"), Mark("}")>>
  ELSE line(<<Mark("{")>>) \o SeparatedLines(SortedBy(fields, KeyPlace), FieldLines)
       \o CommentLines(last) \o <<Mark("}")>>

render_field_type(type) ==
  CASE type[1] = "scalar" -> <<ScalarLexeme(type[2])>>
    [] type[1] = "array" -> render_field_type(type[2]) \o <<Mark("["), Mark("]")>>
    [] OTHER -> render_object_type(type[2], type[3])

-----------------------------------------------------------------------------
(* Blocks                                                                   *)

render_endpoint(endpoint) ==
  CASE endpoint[1] = "local" -> <<Name(endpoint[2])>>
    [] endpoint[1] = "alias" -> <<Name(endpoint[2]), Mark("::"), Name(endpoint[3])>>
    [] OTHER -> <<Quoted(endpoint[2]), Mark("::"), Name(endpoint[3])>>

\* A block on one line when nothing is in it, and its trailing comment on the first.
\* Mutant: the comment after the brace of an empty block is forgotten.
write_blockForgets(head, block, body) ==
  IF body = << >> THEN line(head \o <<Mark("{"), Mark("}")>>)
  ELSE line(with_trailing(Append(head, Mark("{")), block)) \o body \o line(<<Mark("}")>>)

write_block(head, block, body) ==
  IF body = << >> THEN line(with_trailing(head \o <<Mark("{"), Mark("}")>>, block))
  ELSE line(with_trailing(Append(head, Mark("{")), block)) \o body \o line(<<Mark("}")>>)

EvidenceValueText(value) ==
  CASE value[1] = "text" -> <<Quoted(value[2])>>
    [] value[3] = << >> -> <<Name(value[2])>>
    [] OTHER -> <<Name(value[2]), Mark("("), <<"decimal", DecimalText(value[3][1])>>, Mark(")")>>

EvidenceLines(field, separator) ==
  CommentLines(field.comments.leading)
  \o line(with_trailing(<<Name(field.key), Mark(":")>> \o EvidenceValueText(field.value)
                        \o separator, field.comments))

write_evidence(evidence) ==
  CommentLines(evidence.block.leading)
  \o write_block(<<Mark("@evidence")>>, evidence.block,
                 SeparatedLines(SortedBy(evidence.fields, KeyPlace), EvidenceLines)
                 \o CommentLines(evidence.block.last))

\* The comments at the end of a block, a blank line before them when blocks precede.
LastLines(blocks, last) ==
  (IF blocks # << >> /\ last # << >> THEN blank ELSE << >>) \o CommentLines(last)

\* Blocks, a blank line between two.
BlankBetween(blocks, Write(_)) ==
  Flat([i \in DOMAIN blocks |-> (IF i = 1 THEN << >> ELSE blank) \o Write(blocks[i])])

UnitWords(unit) == IF unit = << >> THEN << >> ELSE <<Name("unit"), Quoted(unit[1])>>

write_contribution(contribution) ==
  CommentLines(contribution.block.leading)
  \o write_block(<<Mark("@by"), Quoted(contribution.owner)>> \o UnitWords(contribution.unit),
                 contribution.block,
                 BlankBetween(contribution.evidence, write_evidence)
                 \o LastLines(contribution.evidence, contribution.block.last))

OwnerKind(owner) == IF owner = "user" THEN "user" ELSE IF owner \in AiOwner THEN "ai" ELSE "analyzer"
OwnerRank(owner) == CASE OwnerKind(owner) = "analyzer" -> 0
                      [] OwnerKind(owner) = "ai" -> 1
                      [] OTHER -> 2

UnitPlace(unit) == IF unit = << >> THEN 0 ELSE Place[unit[1]]

owner_key(contribution) ==
  <<OwnerRank(contribution.owner), Place[contribution.owner], UnitPlace(contribution.unit)>>

sorted_contributions(contributions) == SortedBy(contributions, owner_key)

BlankBefore(contribution) == blank \o write_contribution(contribution)

write_record_body(head, record) ==
  CommentLines(record.block.leading)
  \o write_block(head, record.block,
       SeparatedLines(SortedBy(record.properties, KeyPlace), EntryLines)
       \o Flat([i \in DOMAIN record.contributions |->
                  BlankBefore(sorted_contributions(record.contributions)[i])])
       \o LastLines(record.contributions, record.block.last))

EndpointWords(endpoints) ==
  IF endpoints = << >> THEN << >>
  ELSE <<Mark("("), Name(endpoints[1].source), Mark("->"), Name(endpoints[1].target), Mark(")")>>

write_schema(schema) ==
  CommentLines(schema.block.leading)
  \o write_block(<<Mark("schema"), Name(schema.name)>> \o EndpointWords(schema.endpoints),
                 schema.block,
                 SeparatedLines(SortedBy(schema.fields, KeyPlace), FieldLines)
                 \o CommentLines(schema.block.last))

TextPlace(text) == <<Place[text]>>

NameList(names) ==
  Flat([i \in DOMAIN names |->
          (IF i = 1 THEN << >> ELSE <<Mark(",")>>) \o <<Name(names[i])>>])

write_node(node) ==
  write_record_body(<<Mark("node"), Name(node.name), Mark(":")>>
                    \o NameList(SortedBy(node.schemas, TextPlace)), node.record)

write_edge(edge) ==
  write_record_body(<<Mark("edge")>> \o render_endpoint(edge.source) \o <<Mark("->")>>
                    \o render_endpoint(edge.target) \o <<Mark(":"), Name(edge.relation)>>,
                    edge.record)

-----------------------------------------------------------------------------
(* The document                                                             *)

AliasWords(alias) == IF alias = << >> THEN << >> ELSE <<Mark("as"), Name(alias[1])>>

write_link(link) ==
  CommentLines(link.comments.leading)
  \o line(with_trailing(<<Mark("@link"), Quoted(link.source)>> \o AliasWords(link.alias),
                        link.comments))

\* A quoted locator sorts before a name.
EndpointPlace(endpoint) ==
  IF endpoint[1] = "locator" THEN <<0, Place[endpoint[2]], Place[endpoint[3]]>>
  ELSE <<1, Place[endpoint[2]], IF endpoint[1] = "local" THEN 0 ELSE Place[endpoint[3]]>>

\* The identifier a record states, as a number; none is before all.
StatedIn(properties) ==
  {i \in DOMAIN properties : properties[i].key = "id"}
StatedPlace(value) == IF value[1] = "quoted" THEN Place[value[2]] ELSE 0
stated_id(properties) ==
  IF StatedIn(properties) = {} THEN 0
  ELSE StatedPlace(properties[Min(StatedIn(properties))].value)

EdgePlace(edge) ==
  EndpointPlace(edge.source) \o EndpointPlace(edge.target)
  \o <<Place[edge.relation], stated_id(edge.record.properties)>>

NamePlace(declaration) == <<Place[declaration.name]>>
SourcePlace(link) == <<Place[link.source]>>

SchemaLines(schema) == blank \o write_schema(schema)
NodeLines(node) == blank \o write_node(node)
EdgeLines(edge) == blank \o write_edge(edge)

format(file) ==
  CommentLines(file.comments.leading)
  \o line(with_trailing(<<Mark("@nost"), <<"whole", file.version>>>>, file.comments))
  \o (IF file.links = << >> THEN << >> ELSE blank)
  \o InTurn(SortedBy(file.links, SourcePlace), write_link)
  \o InTurn(SortedBy(file.schemas, NamePlace), SchemaLines)
  \o InTurn(SortedBy(file.nodes, NamePlace), NodeLines)
  \o InTurn(SortedBy(file.edges, EdgePlace), EdgeLines)
  \o (IF file.last = << >> THEN << >> ELSE blank \o CommentLines(file.last))

=============================================================================
