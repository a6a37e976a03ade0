------------------------------- MODULE Cypher -------------------------------
(***************************************************************************)
(* src/cypher.rs: the parser of the query subset.  A source text is given  *)
(* as the sequence of its spellings; tokenize() tells what each one is and *)
(* parse() reads the tokens by recursive descent.  A value that may be     *)
(* absent is a sequence of at most one element, and a parser returns       *)
(* <<"ok", what it read, the index of the next token>> or a refusal.       *)
(***************************************************************************)
EXTENDS Outcome

CONSTANTS
  Literal,     \* what a literal or a parameter spells: a function to tokens
  Scrap        \* the spellings no token begins with

WriteWord == {"CREATE", "MERGE", "SET", "REMOVE", "DELETE", "DETACH"}

ExcludedWord == {"FOREACH", "LOAD", "CSV", "CASE", "WHEN", "THEN", "ELSE", "END", "EXISTS",
                 "USE", "INDEX", "CONSTRAINT"}

Word == WriteWord \union ExcludedWord \union
        {"MATCH", "OPTIONAL", "WHERE", "WITH", "RETURN", "DISTINCT", "ORDER", "BY", "ASC", "DESC",
         "SKIP", "LIMIT", "UNWIND", "UNION", "ALL", "AS", "AND", "OR", "NOT", "IN", "TRUE",
         "FALSE", "NULL", "CALL", "YIELD", "ON"}

Symbol == {"(", ")", "[", "]", "{", "}", ",", ".", "..", ":", "|", "*", "+", "-", "/", "%", "=",
           "<>", "<", "<=", ">", ">=", "->", "<-"}

ExcludedFunction == {"shortestpath", "allshortestpaths"}

Aggregate == {"count", "sum", "avg", "min", "max", "collect"}

Eof == <<"eof">>

Token(spelling) ==
  IF spelling \in DOMAIN Literal THEN Literal[spelling]
  ELSE IF spelling \in Word THEN <<"word", spelling>>
  ELSE IF spelling \in Symbol THEN <<"symbol", spelling>>
  ELSE <<"identifier", spelling>>

Ok(value, at) == <<"ok", value, at>>
Refused(code) == <<"refused", code>>

Then(read, Next(_, _)) == IF read[1] = "ok" THEN Next(read[2], read[3]) ELSE read

Kind(tokens, at) == IF at <= Len(tokens) THEN tokens[at] ELSE Eof
IsSymbol(tokens, at, spelling) == Kind(tokens, at) = <<"symbol", spelling>>
IsWord(tokens, at, spelling) == Kind(tokens, at) = <<"word", spelling>>
IsName(tokens, at) == Kind(tokens, at)[1] = "identifier"

expect(tokens, at, spelling) ==
  IF IsSymbol(tokens, at, spelling) THEN Ok(spelling, at + 1) ELSE Refused(Semantic)

expect_name(tokens, at) ==
  IF IsName(tokens, at) THEN Ok(tokens[at][2], at + 1) ELSE Refused(Semantic)

\* A name when there is one.
OptionalName(tokens, at) ==
  IF IsName(tokens, at) THEN Ok(<<tokens[at][2]>>, at + 1) ELSE Ok(<< >>, at)

\* One or more of what Read reads, separated by a symbol.
Separated(tokens, at, symbol, Read(_, _)) ==
  LET RECURSIVE from(_)
      from(i) ==
        Then(Read(tokens, i), LAMBDA first, next :
          IF IsSymbol(tokens, next, symbol)
          THEN Then(from(next + 1), LAMBDA rest, end : Ok(<<first>> \o rest, end))
          ELSE Ok(<<first>>, next))
  IN  from(at)

RECURSIVE contains_aggregate(_)
contains_aggregate(e) ==
  CASE e[1] = "call" -> e[2] \in Aggregate \/ \E i \in DOMAIN e[3] : contains_aggregate(e[3][i])
    [] e[1] = "list" -> \E i \in DOMAIN e[2] : contains_aggregate(e[2][i])
    [] e[1] = "not" -> contains_aggregate(e[2])
    [] e[1] = "binary" -> contains_aggregate(e[3]) \/ contains_aggregate(e[4])
    [] OTHER -> FALSE

reject_aggregate(read) ==
  Then(read, LAMBDA e, at : IF contains_aggregate(e) THEN Refused(Semantic) ELSE read)

-----------------------------------------------------------------------------
(* Expressions                                                              *)

Comparison == {<<"symbol", s>> : s \in {"=", "<>", "<", "<=", ">", ">="}} \union {<<"word", "IN">>}

RECURSIVE parse_or(_, _)

parse_expression(tokens, at) == parse_or(tokens, at)

StarArgument == <<"variable", "*">>

\* One argument of a call of `name`.
Argument(name, tokens, at) ==
  IF IsSymbol(tokens, at, "*") THEN Ok(StarArgument, at + 1)
  ELSE IF name \in Aggregate THEN reject_aggregate(parse_expression(tokens, at))
  ELSE parse_expression(tokens, at)

\* A bracketed, possibly empty, sequence of what Read reads.
Enclosed(tokens, at, close, Read(_, _)) ==
  IF IsSymbol(tokens, at, close) THEN Ok(<< >>, at + 1)
  ELSE Then(Separated(tokens, at, ",", Read), LAMBDA items, next :
         Then(expect(tokens, next, close), LAMBDA c, end : Ok(items, end)))

\* `at` is at the opening parenthesis.
parse_call(tokens, at, name) ==
  IF \/ name \in ExcludedFunction
     \/ name \in Aggregate /\ IsWord(tokens, at + 1, "DISTINCT")
  THEN Refused(Unsupported)
  ELSE Then(Enclosed(tokens, at + 1, ")", LAMBDA t, i : Argument(name, t, i)),
            LAMBDA arguments, end : Ok(<<"call", name, arguments>>, end))

parse_identifier_expression(tokens, at) ==
  LET first == tokens[at][2] IN
  IF IsSymbol(tokens, at + 1, ".")
  THEN Then(expect_name(tokens, at + 2), LAMBDA second, next :
         IF IsSymbol(tokens, next, "(") THEN parse_call(tokens, next, first \o "." \o second)
         ELSE IF IsSymbol(tokens, next, "[") \/ IsSymbol(tokens, next, ".")
         THEN Refused(Unsupported)
         ELSE Ok(<<"property", first, second>>, next))
  ELSE IF IsSymbol(tokens, at + 1, "(") THEN parse_call(tokens, at + 1, first)
  ELSE Ok(<<"variable", first>>, at + 1)

parse_list(tokens, at) ==
  IF \/ IsSymbol(tokens, at + 1, "(")
     \/ IsName(tokens, at + 1) /\ IsWord(tokens, at + 2, "IN")
  THEN Refused(Unsupported)
  ELSE Then(Enclosed(tokens, at + 1, "]", parse_expression),
            LAMBDA items, end : Ok(<<"list", items>>, end))

RECURSIVE parse_primary(_, _)
parse_primary(tokens, at) ==
  LET token == Kind(tokens, at) IN
  CASE token = <<"symbol", "-">> ->
         Then(parse_primary(tokens, at + 1), LAMBDA inner, end :
           Ok(IF inner[1] \in {"integer", "float"} THEN <<inner[1], 0 - inner[2]>>
              ELSE <<"binary", "-", <<"integer", 0>>, inner>>, end))
    [] token[1] \in {"integer", "float", "text", "parameter"} -> Ok(token, at + 1)
    [] token[1] = "huge" -> Refused(Semantic)
    [] token = <<"word", "TRUE">> -> Ok(<<"boolean", TRUE>>, at + 1)
    [] token = <<"word", "FALSE">> -> Ok(<<"boolean", FALSE>>, at + 1)
    [] token = <<"word", "NULL">> -> Ok(<<"null">>, at + 1)
    [] token = <<"symbol", "*">> -> Refused(Unsupported)
    [] token = <<"symbol", "(">> ->
         Then(parse_expression(tokens, at + 1), LAMBDA inner, next :
           Then(expect(tokens, next, ")"), LAMBDA c, end : Ok(inner, end)))
    [] token = <<"symbol", "[">> -> parse_list(tokens, at)
    [] token[1] = "identifier" -> parse_identifier_expression(tokens, at)
    [] OTHER -> Refused(Semantic)

\* Operands with operators of the set between them, grouped to the left.
Grouped(tokens, at, operators, Operand(_, _)) ==
  LET RECURSIVE more(_, _)
      more(left, i) ==
        IF Kind(tokens, i) \in operators
        THEN Then(Operand(tokens, i + 1), LAMBDA right, next :
               more(<<"binary", tokens[i][2], left, right>>, next))
        ELSE Ok(left, i)
  IN  Then(Operand(tokens, at), more)

parse_additive(tokens, at) ==
  Grouped(tokens, at, {<<"symbol", s>> : s \in {"+", "-", "*", "/", "%"}}, parse_primary)

parse_comparison(tokens, at) ==
  Then(parse_additive(tokens, at), LAMBDA left, next :
    IF Kind(tokens, next) \in Comparison
    THEN Then(parse_additive(tokens, next + 1), LAMBDA right, end :
           Ok(<<"binary", tokens[next][2], left, right>>, end))
    ELSE Ok(left, next))

RECURSIVE parse_not(_, _)
parse_not(tokens, at) ==
  IF IsWord(tokens, at, "NOT")
  THEN Then(parse_not(tokens, at + 1), LAMBDA inner, end : Ok(<<"not", inner>>, end))
  ELSE parse_comparison(tokens, at)

parse_and(tokens, at) ==
  Grouped(tokens, at, {<<"word", "AND">>}, parse_not)

parse_or(tokens, at) ==
  Grouped(tokens, at, {<<"word", "OR">>}, parse_and)

-----------------------------------------------------------------------------
(* Patterns                                                                 *)

MapEntry(tokens, at) ==
  Then(expect_name(tokens, at), LAMBDA key, next :
    Then(expect(tokens, next, ":"), LAMBDA c, value :
      Then(reject_aggregate(parse_expression(tokens, value)), LAMBDA e, end :
        Ok(<<key, e>>, end))))

parse_property_map(tokens, at) ==
  IF ~ IsSymbol(tokens, at, "{") THEN Ok(<< >>, at)
  ELSE Then(Enclosed(tokens, at + 1, "}", MapEntry), LAMBDA entries, end :
         IF \E i, j \in DOMAIN entries : i < j /\ entries[i][1] = entries[j][1]
         THEN Refused(Semantic)
         ELSE Ok(entries, end))

RECURSIVE Labels(_, _)
Labels(tokens, at) ==
  IF ~ IsSymbol(tokens, at, ":") THEN Ok(<< >>, at)
  ELSE Then(expect_name(tokens, at + 1), LAMBDA label, next :
         Then(Labels(tokens, next), LAMBDA rest, end : Ok(<<label>> \o rest, end)))

parse_node(tokens, at) ==
  Then(expect(tokens, at, "("), LAMBDA o, inside :
    Then(OptionalName(tokens, inside), LAMBDA variable, afterName :
      Then(Labels(tokens, afterName), LAMBDA labels, afterLabels :
        Then(parse_property_map(tokens, afterLabels), LAMBDA properties, close :
          Then(expect(tokens, close, ")"), LAMBDA c, end :
            Ok([variable |-> variable, labels |-> labels, properties |-> properties], end))))))

\* `at` is at the star.
parse_length(tokens, at) ==
  LET bounds == <<Kind(tokens, at + 1), Kind(tokens, at + 2), Kind(tokens, at + 3)>> IN
  IF \/ bounds[1][1] # "integer"
     \/ bounds[2] # <<"symbol", "..">>
     \/ bounds[3][1] # "integer"
  THEN Refused(Unsupported)
  ELSE IF bounds[3][2] < bounds[1][2] THEN Refused(Semantic)
  ELSE Ok(<<[minimum |-> bounds[1][2], maximum |-> bounds[3][2]]>>, at + 4)

Types(tokens, at) ==
  IF IsSymbol(tokens, at, ":") THEN Separated(tokens, at + 1, "|", expect_name) ELSE Ok(<< >>, at)

\* The end of a relationship in brackets.
Arrow(incoming, tokens, at) ==
  IF IsSymbol(tokens, at, "->") THEN Ok("outgoing", at + 1)
  ELSE IF ~ IsSymbol(tokens, at, "-") THEN Refused(Semantic)
  ELSE Ok(IF incoming THEN "incoming" ELSE "either", at + 1)

Relationship(variable, types, direction, length, properties) ==
  [variable |-> variable, types |-> types, direction |-> direction, length |-> length,
   properties |-> properties]

BareArrow(incoming, tokens, at) ==
  LET bare(direction, end) == Ok(Relationship(<< >>, << >>, direction, << >>, << >>), end) IN
  IF IsSymbol(tokens, at, "->") THEN bare("outgoing", at + 1)
  ELSE IF incoming THEN bare("incoming", at)
  ELSE IF IsSymbol(tokens, at, "-") THEN bare("either", at + 1)
  ELSE Refused(Semantic)

\* `at` is at `-` or `<-`.
parse_relationship(tokens, at) ==
  LET incoming == IsSymbol(tokens, at, "<-") IN
  IF ~ IsSymbol(tokens, at + 1, "[") THEN BareArrow(incoming, tokens, at + 1)
  ELSE
    Then(OptionalName(tokens, at + 2), LAMBDA variable, afterName :
      Then(Types(tokens, afterName), LAMBDA types, star :
        Then(IF IsSymbol(tokens, star, "*") THEN parse_length(tokens, star) ELSE Ok(<< >>, star),
             LAMBDA length, afterLength :
          Then(parse_property_map(tokens, afterLength), LAMBDA properties, close :
            Then(expect(tokens, close, "]"), LAMBDA c, arrow :
              Then(Arrow(incoming, tokens, arrow), LAMBDA direction, end :
                Ok(Relationship(variable, types, direction, length, properties), end)))))))

RECURSIVE Steps(_, _)
Steps(tokens, at) ==
  IF ~ (IsSymbol(tokens, at, "-") \/ IsSymbol(tokens, at, "<-")) THEN Ok(<< >>, at)
  ELSE Then(parse_relationship(tokens, at), LAMBDA relationship, next :
         Then(parse_node(tokens, next), LAMBDA node, after :
           Then(Steps(tokens, after), LAMBDA rest, end :
             Ok(<<[relationship |-> relationship, node |-> node]>> \o rest, end))))

parse_pattern(tokens, at) ==
  LET named == IsName(tokens, at) /\ IsSymbol(tokens, at + 1, "=") IN
  Then(parse_node(tokens, IF named THEN at + 2 ELSE at), LAMBDA start, next :
    Then(Steps(tokens, next), LAMBDA steps, end :
      Ok([path_variable |-> IF named THEN <<tokens[at][2]>> ELSE << >>,
          start |-> start, steps |-> steps], end)))

parse_write_pattern(tokens, at) ==
  Then(parse_pattern(tokens, at), LAMBDA pattern, end :
    LET step(i) == pattern.steps[i].relationship
        \* The first step that may not be written decides what the refusal says.
        wrong == {i \in DOMAIN pattern.steps :
                    \/ step(i).length # << >>
                    \/ step(i).direction = "either"
                    \/ Len(step(i).types) # 1}
    IN  IF pattern.path_variable # << >> THEN Refused(Unsupported)
        ELSE IF wrong = {} THEN Ok(pattern, end)
        ELSE IF step(Min(wrong)).length # << >> THEN Refused(Unsupported)
        ELSE Refused(Semantic))

-----------------------------------------------------------------------------
(* Clauses                                                                  *)

\* What comes after `word`, when it is there.
AfterWord(tokens, at, word, Read(_, _)) ==
  IF IsWord(tokens, at, word)
  THEN Then(Read(tokens, at + 1), LAMBDA value, end : Ok(<<value>>, end))
  ELSE Ok(<< >>, at)

ScalarExpression(tokens, at) == reject_aggregate(parse_expression(tokens, at))

parse_match(tokens, at) ==
  LET optional == IsWord(tokens, at, "OPTIONAL") IN
  IF optional /\ ~ IsWord(tokens, at + 1, "MATCH") THEN Refused(Semantic)
  ELSE Then(Separated(tokens, IF optional THEN at + 2 ELSE at + 1, ",", parse_pattern),
            LAMBDA patterns, next :
         Then(AfterWord(tokens, next, "WHERE", ScalarExpression), LAMBDA predicate, end :
           Ok(<<"match", optional, patterns, predicate>>, end)))

ProjectionItem(tokens, at) ==
  Then(parse_expression(tokens, at), LAMBDA e, next :
    Then(AfterWord(tokens, next, "AS", expect_name), LAMBDA alias, end :
      Ok([expression |-> e, alias |-> alias], end)))

SortItem(tokens, at) ==
  Then(parse_expression(tokens, at), LAMBDA e, next :
    LET descending == IsWord(tokens, next, "DESC") IN
    Ok([expression |-> e, descending |-> descending],
       IF descending \/ IsWord(tokens, next, "ASC") THEN next + 1 ELSE next))

OrderBy(tokens, at) ==
  IF ~ IsWord(tokens, at, "ORDER") THEN Ok(<< >>, at)
  ELSE IF ~ IsWord(tokens, at + 1, "BY") THEN Refused(Semantic)
  ELSE Separated(tokens, at + 2, ",", SortItem)

parse_row_count(tokens, at, word) == AfterWord(tokens, at, word, ScalarExpression)

parse_projection(tokens, at, allow_where) ==
  LET distinct == IsWord(tokens, at, "DISTINCT") IN
  Then(Separated(tokens, IF distinct THEN at + 1 ELSE at, ",", ProjectionItem),
       LAMBDA items, where :
    IF IsWord(tokens, where, "WHERE") /\ ~ allow_where THEN Refused(Semantic)
    ELSE
      Then(AfterWord(tokens, where, "WHERE", parse_expression), LAMBDA predicate, order :
        Then(OrderBy(tokens, order), LAMBDA order_by, skipAt :
          Then(parse_row_count(tokens, skipAt, "SKIP"), LAMBDA skip, limitAt :
            Then(parse_row_count(tokens, limitAt, "LIMIT"), LAMBDA limit, end :
              Ok([distinct |-> distinct, items |-> items, predicate |-> predicate,
                  order_by |-> order_by, skip |-> skip, limit |-> limit], end))))))

parse_unwind(tokens, at) ==
  Then(ScalarExpression(tokens, at + 1), LAMBDA list, next :
    IF ~ IsWord(tokens, next, "AS") THEN Refused(Semantic)
    ELSE Then(expect_name(tokens, next + 1), LAMBDA variable, end :
           Ok(<<"unwind", list, variable>>, end)))

YieldItem(tokens, at) ==
  Then(expect_name(tokens, at), LAMBDA column, next :
    Then(AfterWord(tokens, next, "AS", expect_name), LAMBDA alias, end :
      Ok([column |-> column, alias |-> alias], end)))

RECURSIVE DottedName(_, _)
DottedName(tokens, at) ==
  Then(expect_name(tokens, at), LAMBDA name, next :
    IF ~ IsSymbol(tokens, next, ".") THEN Ok(name, next)
    ELSE Then(DottedName(tokens, next + 1), LAMBDA rest, end : Ok(name \o "." \o rest, end)))

parse_procedure_call(tokens, at) ==
  IF IsSymbol(tokens, at + 1, "{") THEN Refused(Unsupported)
  ELSE
    Then(DottedName(tokens, at + 1), LAMBDA name, open :
      Then(expect(tokens, open, "("), LAMBDA o, inside :
        Then(Enclosed(tokens, inside, ")", ScalarExpression), LAMBDA arguments, next :
          Then(IF IsWord(tokens, next, "YIELD")
               THEN Separated(tokens, next + 1, ",", YieldItem) ELSE Ok(<< >>, next),
               LAMBDA yields, end : Ok(<<"call", name, arguments, yields>>, end)))))

parse_set_item(tokens, at) ==
  Then(expect_name(tokens, at), LAMBDA variable, next :
    IF IsSymbol(tokens, next, ":")
    THEN Then(expect_name(tokens, next + 1), LAMBDA label, end :
           Ok(<<"label", variable, label>>, end))
    ELSE IF IsSymbol(tokens, next, "=") \/ IsSymbol(tokens, next, "+") THEN Refused(Unsupported)
    ELSE Then(expect(tokens, next, "."), LAMBDA d, keyAt :
           Then(expect_name(tokens, keyAt), LAMBDA key, equal :
             Then(expect(tokens, equal, "="), LAMBDA q, valueAt :
               Then(ScalarExpression(tokens, valueAt), LAMBDA value, end :
                 Ok(<<"property", variable, key, value>>, end))))))

parse_remove_item(tokens, at) ==
  Then(expect_name(tokens, at), LAMBDA variable, next :
    IF IsSymbol(tokens, next, ":")
    THEN Then(expect_name(tokens, next + 1), LAMBDA label, end :
           Ok(<<"label", variable, label>>, end))
    ELSE Then(expect(tokens, next, "."), LAMBDA d, keyAt :
           Then(expect_name(tokens, keyAt), LAMBDA key, end :
             Ok(<<"property", variable, key>>, end))))

DeleteTargets(tokens, at, detach) ==
  Then(Separated(tokens, at, ",", parse_expression), LAMBDA targets, end :
    Ok(<<"delete", detach, targets>>, end))

parse_write(tokens, at) ==
  LET word == tokens[at][2]
      some(Read(_, _), name) ==
        Then(Separated(tokens, at + 1, ",", Read), LAMBDA items, end : Ok(<<name, items>>, end))
  IN
  CASE word = "CREATE" -> some(parse_write_pattern, "create")
    [] word = "MERGE" ->
         Then(parse_write_pattern(tokens, at + 1), LAMBDA pattern, end :
           IF IsWord(tokens, end, "ON") THEN Refused(Unsupported)
           ELSE Ok(<<"merge", pattern>>, end))
    [] word = "SET" -> some(parse_set_item, "set")
    [] word = "REMOVE" -> some(parse_remove_item, "remove")
    [] word = "DELETE" -> DeleteTargets(tokens, at + 1, FALSE)
    [] word = "DETACH" ->
         IF IsWord(tokens, at + 1, "DELETE") THEN DeleteTargets(tokens, at + 2, TRUE)
         ELSE Refused(Semantic)

is_writing(clause) == clause[1] \in {"create", "merge", "set", "remove", "delete"}

PartIsWriting(part) == \E i \in DOMAIN part.clauses : is_writing(part.clauses[i])

parse_clause(tokens, at) ==
  CASE Kind(tokens, at) \in {<<"word", "MATCH">>, <<"word", "OPTIONAL">>} -> parse_match(tokens, at)
    [] IsWord(tokens, at, "UNWIND") -> parse_unwind(tokens, at)
    [] IsWord(tokens, at, "WITH") ->
         Then(parse_projection(tokens, at + 1, TRUE), LAMBDA p, end : Ok(<<"with", p>>, end))
    [] IsWord(tokens, at, "CALL") -> parse_procedure_call(tokens, at)
    [] Kind(tokens, at) \in {<<"word", w>> : w \in WriteWord} -> parse_write(tokens, at)

ClauseWord == {<<"word", w>> : w \in {"MATCH", "OPTIONAL", "UNWIND", "WITH", "CALL"} \union WriteWord}

RECURSIVE Clauses(_, _)
Clauses(tokens, at) ==
  IF Kind(tokens, at) \notin ClauseWord THEN Ok(<< >>, at)
  ELSE Then(parse_clause(tokens, at), LAMBDA clause, next :
         Then(Clauses(tokens, next), LAMBDA rest, end : Ok(<<clause>> \o rest, end)))

parse_part(tokens, at) ==
  Then(Clauses(tokens, at), LAMBDA clauses, next :
    Then(AfterWord(tokens, next, "RETURN", LAMBDA t, i : parse_projection(t, i, FALSE)),
         LAMBDA result, end :
      LET part == [clauses |-> clauses, result |-> result] IN
      IF /\ result = << >>
         /\ ~ PartIsWriting(part)
         /\ clauses = << >> \/ Last(clauses)[1] # "call"
      THEN Refused(Semantic)
      ELSE Ok(part, end)))

RECURSIVE Parts(_, _)
Parts(tokens, at) ==
  Then(parse_part(tokens, at), LAMBDA part, next :
    IF ~ IsWord(tokens, next, "UNION") THEN Ok([parts |-> <<part>>, union_all |-> << >>], next)
    ELSE LET all == IsWord(tokens, next + 1, "ALL") IN
         Then(Parts(tokens, IF all THEN next + 2 ELSE next + 1), LAMBDA rest, end :
           Ok([parts |-> <<part>> \o rest.parts, union_all |-> <<all>> \o rest.union_all], end)))

\* An unaliased column is named by its own text; two items have one name when
\* their texts agree, and a text has no parentheses.
RECURSIVE render(_)
render(e) ==
  CASE e[1] = "binary" -> render(e[3]) \o <<e[2]>> \o render(e[4])
    [] e[1] = "not" -> <<"NOT">> \o render(e[2])
    [] e[1] = "call" -> <<e[2], "(">> \o FlattenSeq([i \in DOMAIN e[3] |-> render(e[3][i])]) \o <<")">>
    [] e[1] = "list" -> <<"[">> \o FlattenSeq([i \in DOMAIN e[2] |-> render(e[2][i])]) \o <<"]">>
    [] e[1] = "property" -> <<e[2], ".", e[3]>>
    [] e[1] = "variable" -> <<e[2]>>
    [] OTHER -> e

column_name(item) == IF item.alias # << >> THEN item.alias ELSE render(item.expression)

column_names(items) == [i \in DOMAIN items |-> column_name(items[i])]

tokenize(source) ==
  IF \E i \in DOMAIN source : source[i] \in Scrap THEN Refused(Semantic)
  ELSE Ok([i \in DOMAIN source |-> Token(source[i])], 1)

\* A construct outside the subset refuses the query wherever it stands.
Excluded(tokens) ==
  \E i \in DOMAIN tokens :
    \/ tokens[i] \in {<<"word", w>> : w \in ExcludedWord}
    \/ /\ tokens[i] \in {<<"identifier", f>> : f \in ExcludedFunction}
       /\ IsSymbol(tokens, i + 1, "(")

parse(source) ==
  Then(tokenize(source), LAMBDA tokens, first :
    IF Excluded(tokens) THEN Refused(Unsupported)
    ELSE Then(Parts(tokens, 1), LAMBDA query, end :
      LET columns(i) == IF query.parts[i].result = << >> THEN << >>
                        ELSE column_names(query.parts[i].result[1].items)
      IN  IF end <= Len(tokens) THEN Refused(Semantic)
          ELSE IF Len(query.parts) > 1 /\ \E i \in DOMAIN query.parts : PartIsWriting(query.parts[i])
          THEN Refused(Unsupported)
          ELSE IF /\ query.parts[1].result # << >>
                  /\ \E i \in DOMAIN query.parts : columns(i) # columns(1)
          THEN Refused(Semantic)
          ELSE Ok(query, end)))

required_labels(query) ==
  LET clauses == UNION {ToSet(query.parts[i].clauses) : i \in DOMAIN query.parts}
      patterns == UNION {ToSet(c[3]) : c \in {d \in clauses : d[1] = "match"}}
  IN  UNION {ToSet(p.start.labels) \union
             UNION {ToSet(p.steps[i].node.labels) : i \in DOMAIN p.steps} : p \in patterns}

=============================================================================
