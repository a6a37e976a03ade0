------------------------------ MODULE RustItems ------------------------------
(***************************************************************************)
(* The Rust analyzer (analyze/rust.rs): which items the tokens of a file   *)
(* declare, what they hold and refer to, and what the file imports.        *)
(*                                                                         *)
(* t is the tokens and i a place in them.  A reading step returns the next *)
(* place, or a record of it with what was read; something that may be      *)
(* absent is a sequence of at most one.  Ranges are left out.              *)
(***************************************************************************)
EXTENDS SourceLexer

(* Looking at one token. *)

TokenAt(t, i) == IF i \in DOMAIN t THEN t[i] ELSE <<"end">>
Keyword(t, i, word) == TokenAt(t, i) = Ident(<<word>>)
AnyKeyword(t, i) == TokenAt(t, i)[1] = "ident"
HasName(t, i) == TokenAt(t, i)[1] \in {"ident", "raw"}
Name(t, i) == TokenAt(t, i)[2]
IsPunct(t, i, c) == TokenAt(t, i) = Punct(c)
Opens(t, i) == TokenAt(t, i)[1] = "open"
OpensWith(t, i, c) == TokenAt(t, i) = <<"open", c>>
Closes(t, i) == TokenAt(t, i)[1] = "close"
Ends(t, i) == TokenAt(t, i)[1] \in {"end", "close"}
Eaten(t, i, c) == IF IsPunct(t, i, c) THEN i + 1 ELSE i
PastClose(t, i) == IF Closes(t, i) THEN i + 1 ELSE i

(* Passing over what is not looked into. *)

RECURSIVE GroupEnd(_, _, _)
GroupEnd(t, i, depth) ==
  IF depth = 0 \/ i > Len(t) THEN i
  ELSE GroupEnd(t, i + 1, CASE Opens(t, i) -> depth + 1 [] Closes(t, i) -> depth - 1 [] OTHER -> depth)
PastGroup(t, i) == IF Opens(t, i) THEN GroupEnd(t, i + 1, 1) ELSE i

RECURSIVE PastAttributes(_, _)
PastAttributes(t, i) ==
  LET bracket == Eaten(t, i + 1, "!") IN
  IF IsPunct(t, i, "#") /\ OpensWith(t, bracket, "[") THEN PastAttributes(t, PastGroup(t, bracket)) ELSE i

IsModifier(t, i) == \E word \in {"fn", "unsafe", "extern", "async"} : Keyword(t, i + 1, word)
RECURSIVE PastQualifiers(_, _)
PastQualifiers(t, i) ==
  CASE Keyword(t, i, "pub") -> PastQualifiers(t, IF OpensWith(t, i + 1, "(") THEN PastGroup(t, i + 1) ELSE i + 1)
    [] \E word \in {"async", "unsafe", "default", "move"} : Keyword(t, i, word) -> PastQualifiers(t, i + 1)
    [] (Keyword(t, i, "const") \/ Keyword(t, i, "static")) /\ IsModifier(t, i) -> PastQualifiers(t, i + 1)
    [] Keyword(t, i, "extern") -> PastQualifiers(t, IF TokenAt(t, i + 1) = Literal THEN i + 2 ELSE i + 1)
    [] OTHER -> i

RECURSIVE GenericsEnd(_, _, _, _)
\* A close that opened before the `<` means there were no generics: back to where they were expected.
GenericsEnd(t, i, depth, entry) ==
  CASE depth = 0 \/ i > Len(t) -> i
    [] Closes(t, i) -> entry
    [] IsPunct(t, i, "<") -> GenericsEnd(t, i + 1, depth + 1, entry)
    [] IsPunct(t, i, ">") -> GenericsEnd(t, i + 1, depth - 1, entry)
    [] Opens(t, i) -> GenericsEnd(t, PastGroup(t, i), depth, entry)
    [] OTHER -> GenericsEnd(t, i + 1, depth, entry)
PastGenerics(t, i) == IF IsPunct(t, i, "<") THEN GenericsEnd(t, i + 1, 1, i) ELSE i

PathSeparator(t, i) == IsPunct(t, i, ":") /\ IsPunct(t, i + 1, ":")
RECURSIVE PathFrom(_, _, _, _)
\* In an item a bare `<` begins generic arguments; in an expression it is less-than, and `::<` begins them.
PathFrom(t, i, bare_generics, segments) ==
  LET named == Eaten(t, Eaten(t, i, ":"), ":")
      next == IF bare_generics THEN PastGenerics(t, named + 1) ELSE named + 1
      turbofish == IF IsPunct(t, next + 2, "<") THEN PastGenerics(t, next + 2) ELSE next
      extended == Append(segments, Name(t, named)) IN
  CASE ~HasName(t, named) -> [at |-> named, segments |-> segments]
    [] ~PathSeparator(t, next) -> [at |-> next, segments |-> extended]
    [] ~PathSeparator(t, turbofish) -> [at |-> turbofish, segments |-> extended]
    [] OTHER -> PathFrom(t, turbofish, bare_generics, extended)
Path(t, i) == PathFrom(t, i, TRUE, << >>)
ExpressionPath(t, i) == PathFrom(t, i, FALSE, << >>)

LastOf(segments) == IF segments = << >> THEN << >> ELSE <<Last(segments)>>
RECURSIVE TypeName(_, _)
TypeName(t, i) ==
  LET path == Path(t, i) IN
  CASE \/ IsPunct(t, i, "&") \/ IsPunct(t, i, "*") \/ TokenAt(t, i)[1] = "lifetime"
       \/ Keyword(t, i, "mut") \/ Keyword(t, i, "dyn") -> TypeName(t, i + 1)
    [] OpensWith(t, i, "[") \/ OpensWith(t, i, "(") -> [at |-> PastGroup(t, i), name |-> << >>]
    [] OTHER -> [at |-> path.at, name |-> LastOf(path.segments)]

\* Behind the `;` or the group that ends what is not known; at least one token is taken.
PastUnknownItem(t, i) ==
  LET end == FirstOf(t, i, {j \in DOMAIN t : IsPunct(t, j, ";") \/ Opens(t, j) \/ Closes(t, j)}) IN
  CASE IsPunct(t, end, ";") -> end + 1
    [] Opens(t, end) -> PastGroup(t, end)
    [] Closes(t, end) /\ end = i -> end + 1
    [] OTHER -> end

AtBody(t, i) == OpensWith(t, i, "{") \/ IsPunct(t, i, ";") \/ Ends(t, i)
RECURSIVE BodyOrEnd(_, _)
BodyOrEnd(t, i) ==
  IF AtBody(t, i) THEN i ELSE BodyOrEnd(t, IF Opens(t, i) THEN PastGroup(t, i) ELSE i + 1)
PastWhereClause(t, i) == IF Keyword(t, i, "where") THEN BodyOrEnd(t, i) ELSE i
PastSupertraits(t, i) ==
  IF ~IsPunct(t, i, ":") THEN i
  ELSE FirstOf(t, i, {j \in DOMAIN t : AtBody(t, j) \/ Keyword(t, j, "where")})

(* What is declared. *)

NewItem(kind, name) ==
  [kind |-> kind, name |-> name, target |-> << >>, implements |-> << >>, references |-> << >>, children |-> << >>]
Found(i, items) == [at |-> i, items |-> items, imports |-> << >>]
Nothing(i) == Found(i, << >>)
\* What was found behind the name at i, if there is one.
IfNamed(t, i, found) == IF HasName(t, i) THEN found ELSE Nothing(i)

(* Bodies: every name( is a reference, and .name( one on a receiver. *)

CallOf(t, i, path) ==
  LET reference == [name |-> Last(path.segments), qualifier |-> Front(path.segments),
                    is_method |-> IsPunct(t, i - 1, ".")] IN
  CASE path.segments # << >> /\ IsPunct(t, path.at, "!") -> [at |-> PastGroup(t, path.at + 1), references |-> << >>]
    [] path.segments # << >> /\ OpensWith(t, path.at, "(") -> [at |-> path.at, references |-> <<reference>>]
    [] OTHER -> [at |-> path.at, references |-> << >>]
CallSite(t, i) == CallOf(t, i, ExpressionPath(t, i))

RECURSIVE BodyFrom(_, _, _, _)
PastCall(t, i, depth, references, call) ==
  BodyFrom(t, IF call.at = i THEN i + 1 ELSE call.at, depth, references \o call.references)
BodyFrom(t, i, depth, references) ==
  CASE depth = 0 \/ i > Len(t) -> [at |-> i, references |-> references]
    [] Opens(t, i) -> BodyFrom(t, i + 1, depth + 1, references)
    [] Closes(t, i) -> BodyFrom(t, i + 1, depth - 1, references)
    [] HasName(t, i) -> PastCall(t, i, depth, references, CallSite(t, i))
    [] OTHER -> BodyFrom(t, i + 1, depth, references)

Function(t, i, container) ==
  LET generic == PastGenerics(t, i + 2)
      open == BodyOrEnd(t, IF OpensWith(t, generic, "(") THEN PastGroup(t, generic) ELSE generic)
      body == BodyFrom(t, open + 1, 1, << >>)
      item == NewItem(IF container \in {"impl", "trait"} THEN "method" ELSE "function", Name(t, i + 1)) IN
  IfNamed(t, i + 1,
    IF OpensWith(t, open, "{") THEN Found(body.at, <<[item EXCEPT !.references = body.references]>>)
    ELSE Found(Eaten(t, open, ";"), <<item>>))

(* Types and their fields. *)

RECURSIVE CommaEnd(_, _, _)
\* Behind the next comma that separates two fields; a `>` that never opened is not counted.
CommaEnd(t, i, angle) ==
  CASE Ends(t, i) -> i
    [] IsPunct(t, i, ",") /\ angle = 0 -> i + 1
    [] IsPunct(t, i, "<") -> CommaEnd(t, i + 1, angle + 1)
    [] IsPunct(t, i, ">") -> CommaEnd(t, i + 1, IF angle = 0 THEN 0 ELSE angle - 1)
    [] Opens(t, i) -> CommaEnd(t, PastGroup(t, i), angle)
    [] OTHER -> CommaEnd(t, i + 1, angle)
PastComma(t, i) == CommaEnd(t, i, 0)

RECURSIVE FieldsFrom(_, _, _)
FieldsFrom(t, i, fields) ==
  LET start == PastAttributes(t, i)
      named == PastQualifiers(t, start) IN
  CASE Ends(t, start) -> Found(start, fields)
    [] ~HasName(t, named) -> FieldsFrom(t, IF named = start THEN named + 1 ELSE named, fields)
    [] ~IsPunct(t, named + 1, ":") -> FieldsFrom(t, PastComma(t, named + 1), fields)
    [] OTHER -> FieldsFrom(t, PastComma(t, named + 2), Append(fields, NewItem("field", Name(t, named))))
Fields(t, i) == FieldsFrom(t, i, << >>)

Record(t, i, kind) ==
  LET open == PastWhereClause(t, PastGenerics(t, i + 2))
      fields == Fields(t, open + 1)
      item == NewItem(kind, Name(t, i + 1)) IN
  IfNamed(t, i + 1,
    IF OpensWith(t, open, "{") THEN Found(PastClose(t, fields.at), <<[item EXCEPT !.children = fields.items]>>)
    ELSE Found(Eaten(t, IF OpensWith(t, open, "(") THEN PastGroup(t, open) ELSE open, ";"), <<item>>))

RECURSIVE VariantsFrom(_, _, _)
VariantsFrom(t, i, variants) ==
  LET start == PastAttributes(t, i)
      fields == Fields(t, start + 2)
      variant == NewItem("field", Name(t, start)) IN
  CASE Ends(t, start) -> Found(start, variants)
    [] ~HasName(t, start) -> VariantsFrom(t, start + 1, variants)
    [] OpensWith(t, start + 1, "{") ->
         VariantsFrom(t, PastComma(t, PastClose(t, fields.at)),
                      Append(variants, [variant EXCEPT !.children = fields.items]))
    [] OTHER ->
         VariantsFrom(t, PastComma(t, IF OpensWith(t, start + 1, "(") THEN PastGroup(t, start + 1) ELSE start + 1),
                      Append(variants, variant))
Enumeration(t, i) ==
  LET open == PastWhereClause(t, PastGenerics(t, i + 2))
      variants == VariantsFrom(t, open + 1, << >>)
      item == NewItem("enum", Name(t, i + 1)) IN
  IfNamed(t, i + 1,
    IF OpensWith(t, open, "{") THEN Found(PastClose(t, variants.at), <<[item EXCEPT !.children = variants.items]>>)
    ELSE Found(open, <<item>>))

Alias(t, i) ==
  IfNamed(t, i + 1, Found(PastUnknownItem(t, PastGenerics(t, i + 2)), <<NewItem("type", Name(t, i + 1))>>))
Constant(t, i) ==
  LET named == IF Keyword(t, i + 1, "mut") THEN i + 2 ELSE i + 1 IN
  IfNamed(t, named, Found(PastUnknownItem(t, named + 1), <<NewItem("constant", Name(t, named))>>))

(* What is imported. *)

Imported(path, alias) == IF path = << >> THEN << >> ELSE <<[path |-> path, alias |-> alias]>>
AliasAt(t, i) == IF HasName(t, i) THEN <<Name(t, i)>> ELSE << >>
PastName(t, i) == IF HasName(t, i) THEN i + 1 ELSE i

RECURSIVE ImportGroup(_, _, _, _, _)
\* Every name a group brings in, behind the prefix the group hangs from.
ImportGroup(t, i, depth, prefix, segments) ==
  LET flush(alias) == IF segments = << >> THEN << >> ELSE Imported(prefix \o segments, alias) IN
  CASE depth = 0 \/ i > Len(t) -> << >>
    [] Opens(t, i) -> ImportGroup(t, i + 1, depth + 1, prefix, segments)
    [] Closes(t, i) ->
         IF depth = 1 THEN flush(<< >>) ELSE ImportGroup(t, i + 1, depth - 1, prefix, segments)
    [] IsPunct(t, i, ",") -> flush(<< >>) \o ImportGroup(t, i + 1, depth, prefix, << >>)
    [] Keyword(t, i, "as") ->
         flush(AliasAt(t, i + 1)) \o ImportGroup(t, PastName(t, i + 1), depth, prefix, << >>)
    [] HasName(t, i) -> ImportGroup(t, i + 1, depth, prefix, Append(segments, Name(t, i)))
    [] OTHER -> ImportGroup(t, i + 1, depth, prefix, segments)

RECURSIVE ImportFrom(_, _, _, _)
ImportFrom(t, i, prefix, imports) ==
  CASE i > Len(t) \/ IsPunct(t, i, ";") ->
         [at |-> Eaten(t, i, ";"), items |-> << >>, imports |-> imports \o Imported(prefix, << >>)]
    [] OpensWith(t, i, "{") ->
         ImportFrom(t, PastGroup(t, i), << >>, imports \o ImportGroup(t, i + 1, 1, prefix, << >>))
    [] IsPunct(t, i, "*") ->
         ImportFrom(t, i + 1, << >>, imports \o Imported(Append(prefix, <<"*">>), << >>))
    [] Keyword(t, i, "as") ->
         ImportFrom(t, PastName(t, i + 1), << >>, imports \o Imported(prefix, AliasAt(t, i + 1)))
    [] HasName(t, i) -> ImportFrom(t, i + 1, Append(prefix, Name(t, i)), imports)
    [] OTHER -> ImportFrom(t, i + 1, prefix, imports)
ImportItem(t, i) == ImportFrom(t, i + 1, << >>, << >>)

(* What holds other items. *)

RECURSIVE ItemsFrom(_, _, _, _)
Items(t, i, container) == ItemsFrom(t, i, container, Nothing(i))

\* An item whose body, if it has one at open, holds items of its own.
Holding(t, open, item) ==
  LET held == Items(t, open + 1, item.kind) IN
  [at |-> PastClose(t, held.at), items |-> <<[item EXCEPT !.children = held.items]>>, imports |-> held.imports]

\* An item that may do without a body.
Holder(t, open, item) ==
  IF OpensWith(t, open, "{") THEN Holding(t, open, item) ELSE Found(Eaten(t, open, ";"), <<item>>)

Module(t, i) == IfNamed(t, i + 1, Holder(t, i + 2, NewItem("module", Name(t, i + 1))))
TraitItem(t, i) ==
  IfNamed(t, i + 1,
    Holder(t, PastWhereClause(t, PastSupertraits(t, PastGenerics(t, i + 2))), NewItem("trait", Name(t, i + 1))))

\* impl Type {..} or impl Trait for Type {..}, named after the type.
Implementing(t, first, second) ==
  LET of_trait == Keyword(t, first.at, "for")
      target == IF of_trait THEN second.name ELSE first.name
      open == PastWhereClause(t, IF of_trait THEN second.at ELSE first.at)
      item == [NewItem("impl", IF target = << >> THEN <<"impl">> ELSE target[1]) EXCEPT
                 !.target = target, !.implements = IF of_trait THEN first.name ELSE << >>] IN
  IF OpensWith(t, open, "{") THEN Holding(t, open, item) ELSE Found(open, <<item>>)
Implementation(t, i) ==
  LET first == TypeName(t, PastGenerics(t, i + 1)) IN Implementing(t, first, TypeName(t, first.at + 1))

PastMacro(t, i) ==
  LET named == IF AnyKeyword(t, i + 2) THEN i + 3 ELSE i + 2 IN Eaten(t, PastGroup(t, named), ";")

ReadItem(t, entry, container) ==
  LET i == PastQualifiers(t, entry) IN
  CASE HasName(t, i) /\ IsPunct(t, i + 1, "!") -> Nothing(PastMacro(t, i))
    [] ~AnyKeyword(t, i) -> Nothing(i)
    [] Keyword(t, i, "mod") -> Module(t, i)
    [] Keyword(t, i, "fn") -> Function(t, i, container)
    [] Keyword(t, i, "struct") -> Record(t, i, "struct")
    [] Keyword(t, i, "union") -> Record(t, i, "union")
    [] Keyword(t, i, "enum") -> Enumeration(t, i)
    [] Keyword(t, i, "trait") -> TraitItem(t, i)
    [] Keyword(t, i, "impl") -> Implementation(t, i)
    [] Keyword(t, i, "type") -> Alias(t, i)
    [] Keyword(t, i, "const") \/ Keyword(t, i, "static") -> Constant(t, i)
    [] Keyword(t, i, "use") -> ImportItem(t, i)
    [] OTHER -> Nothing(entry)

\* Items until the enclosing group closes; what is no item is passed over.
PastItem(t, start, container, found, read) ==
  ItemsFrom(t, IF read.at = start THEN PastUnknownItem(t, start) ELSE read.at, container,
            [found EXCEPT !.items = @ \o read.items, !.imports = @ \o read.imports])
ItemsFrom(t, i, container, found) ==
  LET start == PastAttributes(t, i) IN
  IF Ends(t, start) THEN [found EXCEPT !.at = start]
  ELSE PastItem(t, start, container, found, ReadItem(t, start, container))

analyze(text) == Items(tokenize("rust", text), 1, "file")

=============================================================================
