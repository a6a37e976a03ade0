------------------------------ MODULE Encoding ------------------------------
(***************************************************************************)
(* src/container.rs: the envelope of a database file, written by build()   *)
(* and checked by parse() before anything in it is believed.               *)
(*                                                                         *)
(* A file is its length, its header and the cells that begin at a byte     *)
(* offset: an entry of the section table, or a payload <<"payload", p>>.   *)
(* A payload is the sequence of its cells <<kind, value>>.                 *)
(*                                                                         *)
(* src/encoding.rs: a graph as the payloads of a container's sections, and *)
(* back.                                                                   *)
(*                                                                         *)
(* A payload is a sequence of cells <<kind, value>>; what is read as       *)
(* another kind than it was written as is refused.  While a graph is       *)
(* written, a text stands for itself as <<"intern", text>>; its place in   *)
(* the string table replaces it in the end.                                *)
(***************************************************************************)
EXTENDS Reading, FiniteSets

CONSTANTS
  LastOffset,      \* the largest number a u64 holds
  MaxSections      \* MAX_SECTION_COUNT

HEADER_LENGTH == 48
SECTION_ENTRY_LENGTH == 32
FORMAT_VERSION == 3
KnownKinds == {"strings", "nodes", "edges", "links", "schemas"}

WidthOf == [u8 |-> 1, u32 |-> 4, f32 |-> 4, u64 |-> 8, i64 |-> 8, f64 |-> 8, id |-> 16,
            range |-> 32, text |-> 1, raw |-> 1]

\* The bytes of a payload.
Bytes(payload) ==
  LET upto[i \in 0 .. Len(payload)] ==
        IF i = 0 THEN 0 ELSE upto[i - 1] + WidthOf[payload[i][1]]
  IN  upto[Len(payload)]

\* Two contents have one checksum only if they are one content.
crc32c(content) == <<"crc", content>>

Section(kind, payload) == [kind |-> kind, payload |-> payload]

HeaderOf(generation, count, offset) ==
  [magic |-> TRUE, version |-> FORMAT_VERSION, length |-> HEADER_LENGTH, generation |-> generation,
   offset |-> offset, count |-> count, flags |-> 0, reserved |-> 0]

EntryOf(section, offset) ==
  [kind |-> section.kind, reserved |-> 0, offset |-> offset, length |-> Bytes(section.payload),
   stored |-> crc32c(section.payload)]

-----------------------------------------------------------------------------
(* build()                                                                  *)

TableEnd(count) == HEADER_LENGTH + SECTION_ENTRY_LENGTH * count

\* Where the i-th section begins, and past the last where the file ends.
OffsetOf(sections, i) ==
  LET upto[k \in 1 .. i] ==
        IF k = 1 THEN TableEnd(Len(sections)) ELSE upto[k - 1] + Bytes(sections[k - 1].payload)
  IN  upto[i]

EntryAt(i) == HEADER_LENGTH + SECTION_ENTRY_LENGTH * (i - 1)

Sealed(header) == [body |-> header, crc |-> crc32c(header)]

\* push_section() for each, and build(): nothing when a kind comes twice or there are too many.
build(generation, sections) ==
  IF Repeats(Each(sections, LAMBDA s : s.kind)) \/ Len(sections) > MaxSections THEN << >>
  ELSE <<[length |-> OffsetOf(sections, Len(sections) + 1),
          header |-> Sealed(HeaderOf(generation, Len(sections), HEADER_LENGTH)),
          cells |->
            {<<EntryAt(i), EntryOf(sections[i], OffsetOf(sections, i))>> : i \in DOMAIN sections}
            \union {<<OffsetOf(sections, i), <<"payload", sections[i].payload>>>> :
                      i \in {k \in DOMAIN sections : sections[k].payload # << >>}}]>>

-----------------------------------------------------------------------------
(* parse()                                                                  *)

Refusal(reason) == <<"refused", reason>>
Sum(a, b) == IF a + b > LastOffset THEN << >> ELSE <<a + b>>

\* The header's checks in the order they are made: what the first one to fail reports.
HeaderFault(file) ==
  LET header == file.header.body
      end == Sum(header.offset, SECTION_ENTRY_LENGTH * header.count)
  IN  CASE file.length < HEADER_LENGTH -> "TooShort"
        [] ~header.magic -> "BadMagic"
        [] header.version # FORMAT_VERSION -> "UnsupportedVersion"
        [] header.length # HEADER_LENGTH -> "WrongHeaderLength"
        [] crc32c(header) # file.header.crc -> "HeaderChecksum"
        [] header.flags # 0 -> "UndefinedFlag"
        [] header.reserved # 0 -> "ReservedNotZero"
        [] header.count > MaxSections -> "SectionCount"
        [] end = << >> -> "TableOutOfBounds"
        [] header.offset < HEADER_LENGTH \/ end[1] > file.length -> "TableOutOfBounds"
        [] OTHER -> "none"

EntriesIn(file) ==
  [i \in 1 .. file.header.body.count |->
     CHOOSE entry \in {cell[2] : cell \in {c \in file.cells :
                         c[1] = file.header.body.offset + SECTION_ENTRY_LENGTH * (i - 1)}} : TRUE]
  \o << >>

EndOf(entry) == Sum(entry.offset, entry.length)

\* What is wrong with the i-th entry, given those before it.
EntryFault(file, entries, i) ==
  CASE entries[i].reserved # 0 -> "ReservedNotZero"
    [] entries[i].kind = "zero" -> "InvalidSectionKind"
    [] EndOf(entries[i]) = << >> -> "SectionOutOfBounds"
    [] entries[i].offset < HEADER_LENGTH \/ EndOf(entries[i])[1] > file.length ->
         "SectionOutOfBounds"
    [] \E j \in 1 .. i - 1 : entries[j].kind = entries[i].kind -> "DuplicateSectionKind"
    [] OTHER -> "none"

TableFaults(file, entries) ==
  SelectSeq([i \in DOMAIN entries |-> EntryFault(file, entries, i)] \o << >>,
            LAMBDA fault : fault # "none")

\* The header, the table and the sections that take any room.
Regions(file, entries) ==
  <<<<0, HEADER_LENGTH>>,
    <<file.header.body.offset,
      file.header.body.offset + SECTION_ENTRY_LENGTH * file.header.body.count>>>>
  \o Each(SelectSeq(entries, LAMBDA entry : entry.length > 0),
          LAMBDA entry : <<entry.offset, entry.offset + entry.length>>)

Overlap(regions) ==
  \E i, j \in DOMAIN regions :
    i < j /\ regions[i][1] < regions[j][2] /\ regions[j][1] < regions[i][2]

\* The bytes of the file between the two offsets: a payload, if it is all of one.
Slice(file, entry) ==
  LET there == {cell \in file.cells :
                  cell[1] = entry.offset /\ cell[2][1] = "payload"
                  /\ Bytes(cell[2][2]) = entry.length}
  IN  IF entry.length = 0 THEN << >>
      ELSE IF there = {} THEN <<<<"text", "other bytes">>>>
      ELSE (CHOOSE cell \in there : TRUE)[2][2]

\* Mutant: the length alone is compared.
MatchesInLength(file, entry) == Bytes(Slice(file, entry)) = entry.length
Matches(file, entry) == crc32c(Slice(file, entry)) = entry.stored

SectionsRead(file, entries) ==
  IF TableFaults(file, entries) # << >> THEN Refusal(TableFaults(file, entries)[1])
  ELSE IF Overlap(Regions(file, entries)) THEN Refusal("SectionOverlap")
  ELSE IF \E i \in DOMAIN entries : ~Matches(file, entries[i])
  THEN Refusal("SectionChecksum")
  ELSE <<"read", file.header.body.generation,
         Each(entries, LAMBDA entry : Section(entry.kind, Slice(file, entry)))>>

parse_container(file) ==
  IF HeaderFault(file) # "none" THEN Refusal(HeaderFault(file))
  ELSE SectionsRead(file, EntriesIn(file))

\* The payload of the section of that kind, when the container has one.
SectionOf(sections, kind) ==
  Each(SelectSeq(sections, LAMBDA s : s.kind = kind), LAMBDA s : s.payload)

-----------------------------------------------------------------------------
(* The payloads                                                             *)

CONSTANT Nesting  \* MAX_NESTING_DEPTH

NO_STRING == LastOffset

ValueTag == [true |-> 1, false |-> 1, whole |-> 2, decimal |-> 3, quoted |-> 4, hex |-> 5,
             moment |-> 6, list |-> 7, object |-> 8]
TypeTag == [scalar |-> 1, array |-> 2, object |-> 3]
OWNER_NAME == 4
MethodTag == [deterministic |-> 1, ai_inferred |-> 2, user_declared |-> 3]
ConfidenceTag == [extracted |-> 1, inferred |-> 2, ambiguous |-> 3]
ScalarTag == [boolean |-> 1, integer |-> 2, double |-> 3, string |-> 4, bytes |-> 5,
              datetime |-> 6]

-----------------------------------------------------------------------------
(* Writing                                                                  *)

u8(n) == <<<<"u8", n>>>>
put_u32(n) == <<<<"u32", n>>>>
intern(text) == <<<<"intern", text>>>>
optional(text) == IF text = << >> THEN put_u32(NO_STRING) ELSE intern(text[1])
Plain(kind, text) == IF text = "" THEN << >> ELSE <<<<kind, text>>>>
Id(id) == <<<<"id", id>>>>

\* The items after their number.
put_all(items, Put(_)) == put_u32(Len(items)) \o InTurn(items, Put)

RECURSIVE put_value(_)
put_entry(pair) == intern(pair[1]) \o put_value(pair[2])

put_value(value) ==
  u8(ValueTag[value[1]])
  \o CASE value[1] = "list" -> put_all(value[2], put_value)
       [] value[1] = "object" -> put_all(value[2], put_entry)
       [] value[1] = "true" -> u8(1)
       [] value[1] = "false" -> u8(0)
       [] value[1] = "whole" -> <<<<"i64", value[2]>>>>
       [] value[1] = "decimal" -> <<<<"f64", value[2]>>>>
       [] value[1] = "hex" -> put_u32(Len(Plain("raw", value[2]))) \o Plain("raw", value[2])
       [] OTHER -> intern(value[2])

put_properties(properties) == put_all(properties, put_entry)

RECURSIVE put_field_type(_)
put_field(field) ==
  intern(field.key) \o put_field_type(field.type) \o put_u32(IF field.optional THEN 0 ELSE 1)

put_field_type(type) ==
  u8(TypeTag[type[1]])
  \o CASE type[1] = "scalar" -> put_u32(ScalarTag[type[2]])
       [] type[1] = "array" -> put_field_type(type[2])
       [] OTHER -> put_all(type[2], put_field)

put_range(range) == IF range = << >> THEN u8(0) ELSE u8(1) \o <<<<"range", range[1]>>>>

put_evidence(one) ==
  intern(one.source) \o optional(one.revision) \o optional(one.path) \o intern(one.digest)
  \o put_range(one.range) \o intern(one.producer) \o intern(one.version)
  \o u8(MethodTag[one.method]) \o u8(ConfidenceTag[one.confidence])
  \o Each(one.score, LAMBDA score : <<"f32", score>>)

UnitBytes(unit) == IF unit = << >> THEN Id("nil") ELSE Id(unit[1])

put_contribution(claim) ==
  u8(OWNER_NAME) \o intern(claim.owner) \o UnitBytes(claim.unit)
  \o put_all(claim.evidence, put_evidence)

put_reference(reference) ==
  IF reference[1] = "local" THEN u8(1) \o Id(reference[2])
  ELSE u8(2) \o intern(reference[2]) \o Id(reference[3])

put_node(node) ==
  Id(node.id) \o put_all(node.labels, intern) \o put_properties(node.properties)
  \o put_all(node.contributions, put_contribution)

put_edge(edge) ==
  Id(edge.id) \o put_reference(edge.source) \o put_reference(edge.target)
  \o intern(edge.relation) \o put_properties(edge.properties)
  \o put_all(edge.contributions, put_contribution)

put_link(link) == intern(link.source) \o optional(link.alias)

put_endpoints(ends) ==
  IF ends = << >> THEN put_u32(0)
  ELSE put_u32(1) \o intern(ends[1].source) \o intern(ends[1].target)

put_schema(schema) ==
  intern(schema.name) \o put_endpoints(schema.endpoints) \o put_all(schema.fields, put_field)

\* The texts in the order they are first written.
Interned(cells) ==
  LET texts == Each(SelectSeq(cells, LAMBDA cell : cell[1] = "intern"), LAMBDA cell : cell[2])
      first == {i \in DOMAIN texts : \A j \in 1 .. i - 1 : texts[j] # texts[i]}
  IN  [k \in 1 .. Cardinality(first) |->
         texts[CHOOSE i \in first : Cardinality({j \in first : j <= i}) = k]] \o << >>

PlaceIn(table, text) == (CHOOSE i \in DOMAIN table : table[i] = text) - 1

Placed(cells, table) ==
  Each(cells, LAMBDA cell :
         IF cell[1] = "intern" THEN <<"u32", PlaceIn(table, cell[2])>> ELSE cell)

put_string(text) == put_u32(Len(Plain("text", text))) \o Plain("text", text)

\* A section only for what there is; the string table always.
PlacedSection(kind, items, Put(_), table) ==
  IF items = << >> THEN << >> ELSE <<Section(kind, Placed(put_all(items, Put), table))>>

Sections(graph, table) ==
  <<Section("strings", put_all(table, put_string))>>
  \o PlacedSection("nodes", graph.nodes, put_node, table)
  \o PlacedSection("edges", graph.edges, put_edge, table)
  \o PlacedSection("links", graph.links, put_link, table)
  \o PlacedSection("schemas", graph.schemas, put_schema, table)

encode_graph(graph) ==
  Sections(graph, Interned(InTurn(graph.nodes, put_node) \o InTurn(graph.edges, put_edge)
                           \o InTurn(graph.links, put_link) \o InTurn(graph.schemas, put_schema)))

-----------------------------------------------------------------------------
(* Reading                                                                  *)

Reader(payload, table) ==
  [cells |-> payload, at |-> 1, table |-> table, ok |-> TRUE, out |-> << >>]

remaining(s) == Bytes(SubSeq(s.cells, s.at, Len(s.cells)))

take(s, kind) ==
  IF s.at <= Len(s.cells) /\ s.cells[s.at][1] = kind
  THEN Out([s EXCEPT !.at = @ + 1], s.cells[s.at][2]) ELSE Wrong(s)

\* A text of n bytes.
take_plain(s, kind, n) == IF n = 0 THEN Out(s, "") ELSE take(s, kind)

InTable(s, index) == index < Len(s.table)

\* The text the next index stands for, if its constructor takes it.
read_text(s, role) ==
  Then(take(s, "u32"), LAMBDA index, next :
    IF InTable(s, index) /\ Suits(s.table[index + 1], role)
    THEN Out(next, s.table[index + 1]) ELSE Wrong(next))

read_optional(s, role) ==
  Then(take(s, "u32"), LAMBDA index, next :
    IF index = NO_STRING THEN Out(next, << >>)
    ELSE Then(read_text(s, role), LAMBDA text, end : Out(end, <<text>>)))

\* No more than the bytes that remain could hold.
count(s, minimum) ==
  Then(take(s, "u32"), LAMBDA n, next :
    IF n > remaining(next) \div minimum THEN Wrong(next) ELSE next)

Repeated(s, n, Read(_)) ==
  LET RECURSIVE from(_, _)
      from(here, done) ==
        IF here.ok /\ Len(done) < n
        THEN Then(Read(here), LAMBDA read, next : from(next, Append(done, read)))
        ELSE Out(here, done)
  IN  from(s, << >>)

Counted(s, minimum, Read(_)) ==
  Then(count(s, minimum), LAMBDA n, next : Repeated(next, n, Read))

Finished(s) == IF s.ok /\ remaining(s) = 0 THEN s ELSE Wrong(s)

\* The name among those of the tags that has this one.
NameOfTag(tags, tag) == CHOOSE name \in DOMAIN tags : tags[name] = tag
TagIn(tags, tag) == \E name \in DOMAIN tags : tags[name] = tag

read_tag(s, kind, tags) ==
  Then(take(s, kind), LAMBDA tag, next :
    IF TagIn(tags, tag) THEN Out(next, NameOfTag(tags, tag)) ELSE Wrong(next))

\* Bytes that are no UTF-8 are no text.
read_string(s) ==
  Then(take(s, "u32"), LAMBDA n, next :
    Then(take_plain(next, "text", n), LAMBDA text, end :
      IF Suits(text, "any") THEN end ELSE Wrong(end)))

Finite(text) == text \notin {"NaN", "inf"}

read_scalar(s, tag, next) ==
  CASE tag = 1 -> Then(take(next, "u8"), LAMBDA n, end :
                    Out(end, IF n = 0 THEN <<"false", "false">> ELSE <<"true", "true">>))
    [] tag = 2 -> Then(take(next, "i64"), LAMBDA n, end : Out(end, <<"whole", n>>))
    [] tag = 3 -> Then(take(next, "f64"), LAMBDA n, end :
                    IF Finite(n) THEN Out(end, <<"decimal", n>>) ELSE Wrong(end))
    [] tag = 4 -> Then(read_text(next, "any"), LAMBDA text, end : Out(end, <<"quoted", text>>))
    [] tag = 5 -> Then(take(next, "u32"), LAMBDA n, at :
                    Then(take_plain(at, "raw", n), LAMBDA raw, end : Out(end, <<"hex", raw>>)))
    [] tag = 6 -> Then(read_text(next, "moment"), LAMBDA text, end : Out(end, <<"moment", text>>))
    [] OTHER -> Wrong(next)

RECURSIVE read_value(_, _)

read_entry(s, depth) ==
  Then(read_text(s, "name"), LAMBDA key, next :
    Then(read_value(next, depth), LAMBDA value, end : Out(end, <<key, value>>)))

\* `depth` is how many lists and objects are already open.
Enters(depth) == depth + 1 <= Nesting

read_container(s, tag, depth) ==
  IF ~Enters(depth) THEN Wrong(s)
  ELSE IF tag = 7
  THEN Then(Counted(s, 2, LAMBDA at : read_value(at, depth + 1)), LAMBDA items, end :
         Out(end, <<"list", items>>))
  ELSE Then(Counted(s, 6, LAMBDA at : read_entry(at, depth + 1)), LAMBDA entries, end :
         Out(end, <<"object", entries>>))

read_value(s, depth) ==
  Then(take(s, "u8"), LAMBDA tag, next :
    IF tag \in {7, 8} THEN read_container(next, tag, depth) ELSE read_scalar(s, tag, next))

read_properties(s) == Counted(s, 6, LAMBDA at : read_entry(at, 0))

read_range(s) ==
  Then(take(s, "u8"), LAMBDA flag, next :
    IF flag = 0 THEN Out(next, << >>)
    ELSE Then(take(next, "range"), LAMBDA range, end :
           IF Suits(range, "range") THEN Out(end, <<range>>) ELSE Wrong(end)))

read_score(s, confidence) ==
  IF confidence = "extracted" THEN Out(s, << >>)
  ELSE Then(take(s, "f32"), LAMBDA score, end :
         IF Suits(score, "score") THEN Out(end, <<score>>) ELSE Wrong(end))

\* Where it was found, then who found it and how.
read_origin(s) ==
  Then(read_text(s, "locator"), LAMBDA source, s1 :
    Then(read_optional(s1, "filled"), LAMBDA revision, s2 :
      Then(read_optional(s2, "filled"), LAMBDA path, s3 :
        Then(read_text(s3, "digest"), LAMBDA digest, s4 :
          Then(read_range(s4), LAMBDA range, end :
            Out(end, [source |-> source, digest |-> digest, revision |-> revision,
                      path |-> path, range |-> range]))))))

read_evidence(s) ==
  Then(read_origin(s), LAMBDA origin, s1 :
    Then(read_text(s1, "filled"), LAMBDA producer, s2 :
      Then(read_text(s2, "filled"), LAMBDA version, s3 :
        Then(read_tag(s3, "u8", MethodTag), LAMBDA method, s4 :
          Then(read_tag(s4, "u8", ConfidenceTag), LAMBDA confidence, s5 :
            Then(read_score(s5, confidence), LAMBDA score, end :
              Out(end, [source |-> origin.source, digest |-> origin.digest,
                        revision |-> origin.revision, path |-> origin.path,
                        range |-> origin.range, producer |-> producer, version |-> version,
                        method |-> method, confidence |-> confidence, score |-> score])))))))

decode_owner(s) ==
  Then(take(s, "u8"), LAMBDA tag, next :
    IF tag = OWNER_NAME THEN read_text(next, "filled") ELSE Wrong(next))

read_contribution(s) ==
  Then(decode_owner(s), LAMBDA owner, s1 :
    Then(take(s1, "id"), LAMBDA unit, s2 :
      Then(Counted(s2, 24, read_evidence), LAMBDA proofs, end :
        Out(end, [owner |-> owner, unit |-> IF unit = "nil" THEN << >> ELSE <<unit>>,
                  evidence |-> proofs]))))

read_contributions(s) == Counted(s, 21, read_contribution)

read_reference(s) ==
  Then(take(s, "u8"), LAMBDA tag, next :
    CASE tag = 1 -> Then(take(next, "id"), LAMBDA id, end : Out(end, <<"local", id>>))
      [] tag = 2 -> Then(read_text(next, "locator"), LAMBDA source, at :
                      Then(take(at, "id"), LAMBDA id, end : Out(end, <<"external", source, id>>)))
      [] OTHER -> Wrong(next))

read_name(s) == read_text(s, "name")

read_node(s) ==
  Then(take(s, "id"), LAMBDA id, s1 :
    Then(Counted(s1, 4, read_name), LAMBDA labels, s2 :
      Then(read_properties(s2), LAMBDA properties, s3 :
        Then(read_contributions(s3), LAMBDA claims, end :
          Out(end, [id |-> id, labels |-> labels, properties |-> properties,
                    contributions |-> claims])))))

read_edge(s) ==
  Then(take(s, "id"), LAMBDA id, s1 :
    Then(read_reference(s1), LAMBDA source, s2 :
      Then(read_reference(s2), LAMBDA target, s3 :
        Then(read_name(s3), LAMBDA relation, s4 :
          Then(read_properties(s4), LAMBDA properties, s5 :
            Then(read_contributions(s5), LAMBDA claims, end :
              Out(end, [id |-> id, source |-> source, target |-> target, relation |-> relation,
                        properties |-> properties, contributions |-> claims])))))))

read_link(s) ==
  Then(read_text(s, "locator"), LAMBDA source, next :
    Then(read_optional(next, "name"), LAMBDA alias, end :
      Out(end, [source |-> source, alias |-> alias])))

RECURSIVE read_field_type(_, _)

read_flag(s) == Then(take(s, "u32"), LAMBDA n, next : IF n \in {0, 1} THEN next ELSE Wrong(next))

read_field(s, depth) ==
  Then(read_name(s), LAMBDA key, s1 :
    Then(read_field_type(s1, depth), LAMBDA type, s2 :
      Then(read_flag(s2), LAMBDA required, end :
        Out(end, [key |-> key, optional |-> required = 0, type |-> type]))))

MIN_FIELD_BYTES == 13

read_field_type(s, depth) ==
  Then(read_tag(s, "u8", TypeTag), LAMBDA tag, next :
    IF tag = "scalar"
    THEN Then(read_tag(next, "u32", ScalarTag), LAMBDA name, end : Out(end, <<"scalar", name>>))
    ELSE IF ~Enters(depth) THEN Wrong(next)
    ELSE IF tag = "array"
    THEN Then(read_field_type(next, depth + 1), LAMBDA type, end : Out(end, <<"array", type>>))
    ELSE Then(Counted(next, MIN_FIELD_BYTES, LAMBDA at : read_field(at, depth + 1)),
              LAMBDA fields, end : Out(end, <<"object", fields>>)))

read_endpoints(s) ==
  Then(read_flag(s), LAMBDA flag, next :
    IF flag = 0 THEN Out(next, << >>)
    ELSE Then(read_name(next), LAMBDA source, at :
           Then(read_name(at), LAMBDA target, end :
             Out(end, <<[source |-> source, target |-> target]>>))))

read_schema(s) ==
  Then(read_name(s), LAMBDA name, s1 :
    Then(read_endpoints(s1), LAMBDA endpoints, s2 :
      Then(Counted(s2, MIN_FIELD_BYTES, LAMBDA at : read_field(at, 0)), LAMBDA fields, end :
        Out(end, [name |-> name, endpoints |-> endpoints, fields |-> fields]))))

-----------------------------------------------------------------------------
(* decode_graph()                                                           *)

\* The records of one section, none when there is no such section.
Records(payloads, table, minimum, Read(_)) ==
  IF payloads = << >> THEN <<<< >>>>
  ELSE Accepted(Finished(Counted(Reader(payloads[1], table), minimum, Read)))

TableOf(payload) == Accepted(Finished(Counted(Reader(payload, << >>), 4, read_string)))

\* The string table; an empty one when no section that needs it is there.
StringsOf(sections) ==
  IF SectionOf(sections, "strings") # << >> THEN TableOf(SectionOf(sections, "strings")[1])
  ELSE IF \A kind \in {"nodes", "edges", "links"} : SectionOf(sections, kind) = << >>
  THEN <<<< >>>> ELSE << >>

\* The one graph of four lists of records, if all of them could be read.
Assembled(nodes, edges, links, schemas) ==
  IF << >> \in {nodes, edges, links, schemas} THEN << >>
  ELSE <<[links |-> links[1], schemas |-> schemas[1], nodes |-> nodes[1], edges |-> edges[1]]>>

decode_with(sections, table) ==
  Assembled(Records(SectionOf(sections, "nodes"), table, 28, read_node),
            Records(SectionOf(sections, "edges"), table, 40, read_edge),
            Records(SectionOf(sections, "links"), table, 8, read_link),
            Records(SectionOf(sections, "schemas"), table, 12, read_schema))

\* The graph, or nothing.
decode_graph(sections) ==
  IF StringsOf(sections) = << >> THEN << >> ELSE decode_with(sections, StringsOf(sections)[1])

=============================================================================
