----------------------------- MODULE SourceLexer -----------------------------
(***************************************************************************)
(* The seven lexers of analyze/: how a text is cut into tokens, far enough *)
(* that no delimiter inside a comment or a literal is taken for one.       *)
(*                                                                         *)
(* A text is a sequence of characters; a word of several letters may stand *)
(* as one of them.  A token is a tuple that begins with its kind.  Lines,  *)
(* columns and offsets are left out.  A state of a lexer is how far it has *)
(* come (at), what it has cut, and what its language needs to know beside: *)
(* whether a line starts here, how many brackets and which blocks are open.*)
(* Each step takes one token, or one stretch of what lies between tokens.  *)
(***************************************************************************)
EXTENDS Naturals, Sequences, FiniteSets, SequencesExt

CONSTANTS Letter, Digit

NL == "\n"
Quote == "\""
Backslash == "\\"
Backquote == "backquote"
Spaces == {" ", "\t", "\r"}
Whitespace == Spaces \cup {NL}
Alphanumeric == Letter \cup Digit
Continuing == Alphanumeric \cup {"_"}
Starting == Letter \cup {"_"}

OpeningOf == [c \in {"{", "(", "["} |-> c]
ClosingOf == ("}" :> "{") @@ (")" :> "(") @@ ("]" :> "[")

Ident(name) == <<"ident", name>>
Text(content) == <<"text", content>>
Literal == <<"literal">>
Punct(c) == <<"punct", c>>

(* Looking ahead. *)

At(text, i) == IF i \in DOMAIN text THEN text[i] ELSE "end"
Char(text, i) == IF i \in DOMAIN text THEN <<text[i]>> ELSE << >>
Stands(text, i, form) == \A k \in DOMAIN form : At(text, i + k - 1) = form[k]

\* The first place from i on that is one of these, or the place after the last.
FirstOf(text, i, places) ==
  LET ahead == {j \in places : j >= i} IN
  IF ahead = {} THEN Len(text) + 1 ELSE CHOOSE j \in ahead : \A k \in ahead : j <= k
FirstIn(text, i, characters) == FirstOf(text, i, {j \in DOMAIN text : text[j] \in characters})
PastAll(text, i, characters) == FirstOf(text, i, {j \in DOMAIN text : text[j] \notin characters})
LineEnd(text, i) == FirstIn(text, i, {NL})
\* The place behind the next occurrence of form.
Through(text, i, form) ==
  LET found == FirstOf(text, i, {j \in DOMAIN text : Stands(text, j, form)}) IN
  IF found > Len(text) THEN found ELSE found + Len(form)

Reached(i, content, closed) == [at |-> i, content |-> content, closed |-> closed]

RECURSIVE QuotedFrom(_, _, _, _, _)
\* What is quoted from i on, up to `closing`, the end of the text or one of `stops`.  A backslash
\* takes the character after it into the content and is left out itself.
QuotedFrom(text, i, closing, stops, content) ==
  IF i > Len(text) THEN Reached(Len(text) + 1, content, FALSE)
  ELSE IF Stands(text, i, closing) THEN Reached(i + Len(closing), content, TRUE)
  ELSE IF text[i] \in stops THEN Reached(i, content, FALSE)
  ELSE IF text[i] = Backslash
       THEN QuotedFrom(text, i + 2, closing, stops, content \o Char(text, i + 1))
  ELSE QuotedFrom(text, i + 1, closing, stops, Append(content, text[i]))
Quoted(text, i, quote, stops) == QuotedFrom(text, i + 1, <<quote>>, stops, << >>)

RECURSIVE NestedComment(_, _, _)
NestedComment(text, i, depth) ==
  IF depth = 0 \/ i > Len(text) THEN i
  ELSE IF Stands(text, i, <<"/", "*">>) THEN NestedComment(text, i + 2, depth + 1)
  ELSE IF Stands(text, i, <<"*", "/">>) THEN NestedComment(text, i + 2, depth - 1)
  ELSE NestedComment(text, i + 1, depth)

(* One step: what is passed over, and what is cut. *)

Start == [at |-> 1, tokens |-> << >>, line_start |-> TRUE, brackets |-> 0, indents |-> <<0>>]
PassTo(s, next) == [s EXCEPT !.at = next]
Cut(s, token, next) == [s EXCEPT !.at = next, !.tokens = Append(@, token), !.line_start = FALSE]
CutText(s, read) == Cut(s, Text(read.content), read.at)
CutLiteral(s, read) == Cut(s, Literal, read.at)
CutWord(text, s, next) == Cut(s, Ident(SubSeq(text, s.at, next - 1)), next)
Delimits(c) == c \in DOMAIN OpeningOf \cup DOMAIN ClosingOf
CutDelimiter(s, c) ==
  Cut(s, IF c \in DOMAIN OpeningOf THEN <<"open", c>> ELSE <<"close", ClosingOf[c]>>, s.at + 1)
Previous(s) == IF s.tokens = << >> THEN <<"none">> ELSE Last(s.tokens)

(* Rust (rust_lexer.rs). *)

RustKinds == {"ident", "raw", "literal", "lifetime", "open", "close", "punct"}

RustString(text, i) == Quoted(text, i, Quote, {}).at
RustCharacter(text, i) == Quoted(text, i, "'", {NL}).at

\* Behind a raw string whose quote is at i: no escapes, only a quote with as many hashes ends it.
RawEnd(text, i, hashes) == Through(text, i + 1, <<Quote>> \o [k \in 1..hashes |-> "#"])

PastWord(text, i) == PastAll(text, i, Continuing)

\* The prefix (r, b or br) ends before i, and hashes may follow.
RustRaw(text, s, i) ==
  LET ahead == PastAll(text, i, {"#"}) IN
  IF At(text, ahead) = Quote THEN Cut(s, Literal, RawEnd(text, ahead, ahead - i))
  ELSE IF i = s.at + 1 /\ ahead = i + 1 /\ At(text, ahead) \in Starting
       THEN LET next == PastWord(text, ahead) IN Cut(s, <<"raw", SubSeq(text, ahead, next - 1)>>, next)
  ELSE CutWord(text, s, PastWord(text, s.at))

RustByte(text, s) ==
  CASE At(text, s.at + 1) = Quote -> Cut(s, Literal, RustString(text, s.at + 1))
    [] At(text, s.at + 1) = "'" -> Cut(s, Literal, RustCharacter(text, s.at + 1))
    [] OTHER -> RustRaw(text, s, s.at + 2)

\* Mutant: every apostrophe begins a character, and a lifetime hides what follows it.
RustApostropheIsCharacter(text, s) == Cut(s, Literal, RustCharacter(text, s.at))

\* 'a is a lifetime, 'a' is a character, and what follows the name tells.
RustApostrophe(text, s) ==
  LET next == PastWord(text, s.at + 1) IN
  IF At(text, s.at + 1) \in Starting /\ At(text, next) # "'"
  THEN Cut(s, <<"lifetime", SubSeq(text, s.at + 1, next - 1)>>, next)
  ELSE Cut(s, Literal, RustCharacter(text, s.at))

NumberEnd(text, i) == PastAll(text, i, Continuing \cup {"."})

RustStep(text, s) ==
  LET c == text[s.at] IN
  CASE c \in Whitespace -> PassTo(s, s.at + 1)
    [] Stands(text, s.at, <<"/", "/">>) -> PassTo(s, LineEnd(text, s.at))
    [] Stands(text, s.at, <<"/", "*">>) -> PassTo(s, NestedComment(text, s.at + 2, 1))
    [] Delimits(c) -> CutDelimiter(s, c)
    [] c = Quote -> Cut(s, Literal, RustString(text, s.at))
    [] c = "'" -> RustApostrophe(text, s)
    [] c = "r" /\ At(text, s.at + 1) \in {Quote, "#"} -> RustRaw(text, s, s.at + 1)
    [] c = "b" /\ At(text, s.at + 1) \in {Quote, "'", "r"} -> RustByte(text, s)
    [] c \in Digit -> Cut(s, Literal, NumberEnd(text, s.at))
    [] c \in Starting -> CutWord(text, s, PastWord(text, s.at))
    [] OTHER -> Cut(s, Punct(c), s.at + 1)

(* C and C++ (c_lexer.rs). *)

CKinds == {"ident", "literal", "text", "directive", "open", "close", "punct"}

Joins(text, i) == text[i] = NL /\ At(text, i - 1) = Backslash
\* A line, with those a backslash joins to it.
LogicalEnd(text, i) == FirstOf(text, i, {j \in DOMAIN text : text[j] = NL /\ ~Joins(text, j)})

CTrivia(text, s) ==
  CASE text[s.at] = NL -> [s EXCEPT !.at = @ + 1, !.line_start = TRUE]
    [] text[s.at] \in Spaces -> PassTo(s, s.at + 1)
    [] Stands(text, s.at, <<"/", "/">>) -> PassTo(s, LogicalEnd(text, s.at))
    [] Stands(text, s.at, <<"/", "*">>) -> PassTo(s, Through(text, s.at + 2, <<"*", "/">>))
    [] Stands(text, s.at, <<Backslash, NL>>) -> PassTo(s, s.at + 2)
    [] OTHER -> s

Trimmed(content) ==
  LET ink == {k \in DOMAIN content : content[k] \notin Whitespace} IN
  IF ink = {} THEN << >>
  ELSE SubSeq(content, CHOOSE k \in ink : \A l \in ink : k <= l, CHOOSE k \in ink : \A l \in ink : k >= l)

\* A directive is one token: its name, and the rest of its logical line up to a comment.
CDirective(text, s) ==
  LET named == PastAll(text, s.at + 1, {" ", "\t"})
      from == PastWord(text, named)
      end == FirstOf(text, from, {j \in DOMAIN text : \/ text[j] = NL /\ ~Joins(text, j)
                                                      \/ Stands(text, j, <<"/", "/">>)
                                                      \/ Stands(text, j, <<"/", "*">>)})
      written(k) == IF text[k] = NL THEN << >>
                    ELSE IF Stands(text, k, <<Backslash, NL>>) THEN <<" ">> ELSE <<text[k]>>
      rest == FlattenSeq([k \in 1..end - from |-> written(from + k - 1)])
  IN Cut(s, <<"directive", SubSeq(text, named, from - 1), Trimmed(rest)>>, end)

COpensRaw(text, i) ==
  LET at == {k \in 0..2 : Stands(text, i + k, <<"R", Quote>>)} IN
  \E k \in at :
    /\ \A l \in at : k <= l
    /\ \A l \in 0..k - 1 : text[i + l] \in {"L", "u", "U", "8"}
    /\ k = 0 \/ At(text, i - 1) \notin Continuing

\* R"delim(...)delim" ends at its own delimiter only.
CRawString(text, i) ==
  LET open == FirstIn(text, i, {Quote})
      from == FirstIn(text, open + 1, {"("})
      closing == <<")">> \o SubSeq(text, open + 1, from - 1) \o <<Quote>>
      end == FirstOf(text, from + 1, {j \in DOMAIN text : Stands(text, j, closing)})
  IN Reached(IF end > Len(text) THEN end ELSE end + Len(closing), SubSeq(text, from + 1, end - 1), TRUE)

CString(text, i) == Quoted(text, i, Quote, {NL})
CCharacter(text, i) == Quoted(text, i, "'", {NL})
CNumber(text, i) == PastAll(text, i, Continuing \cup {"."})

CStep(text, s) ==
  LET c == text[s.at] IN
  CASE CTrivia(text, s) # s -> CTrivia(text, s)
    [] c = "#" /\ s.line_start -> CDirective(text, s)
    [] Delimits(c) -> CutDelimiter(s, c)
    [] COpensRaw(text, s.at) -> CutText(s, CRawString(text, s.at))
    [] c = Quote -> CutText(s, CString(text, s.at))
    [] c = "'" -> CutLiteral(s, CCharacter(text, s.at))
    [] c \in Digit -> Cut(s, Literal, CNumber(text, s.at))
    [] c \in Starting -> CutWord(text, s, PastWord(text, s.at))
    [] OTHER -> Cut(s, Punct(c), s.at + 1)

(* Go (go_lexer.rs). *)

GoKinds == {"ident", "literal", "text", "open", "close", "punct"}

CONSTANT GoKeyword
BEFORE_INSERTED_SEMICOLON == {"break", "continue", "fallthrough", "return"}

\* Whether a line that ends here ends a statement.
GoEndsStatement(s) ==
  LET previous == Previous(s)
      word == IF previous[1] = "ident" /\ Len(previous[2]) = 1 THEN previous[2][1] ELSE "none" IN
  \/ previous[1] = "ident" /\ (word \notin GoKeyword \/ word \in BEFORE_INSERTED_SEMICOLON)
  \/ previous[1] \in {"literal", "text", "close"}
  \/ previous \in {Punct("+"), Punct("-")}

GoLineEnd(s) == IF GoEndsStatement(s) THEN Cut(s, Punct(";"), s.at + 1) ELSE PassTo(s, s.at + 1)

GoTrivia(text, s) ==
  CASE text[s.at] \in Spaces -> PassTo(s, s.at + 1)
    [] Stands(text, s.at, <<"/", "/">>) -> PassTo(s, LineEnd(text, s.at))
    [] Stands(text, s.at, <<"/", "*">>) -> PassTo(s, Through(text, s.at + 2, <<"*", "/">>))
    [] OTHER -> s

GoString(text, i) == Quoted(text, i, Quote, {NL})
\* No escape is one in here.
GoRawString(text, i) ==
  LET end == FirstIn(text, i + 1, {Backquote}) IN
  Reached(IF end > Len(text) THEN end ELSE end + 1, SubSeq(text, i + 1, end - 1), TRUE)
GoRune(text, i) == Quoted(text, i, "'", {NL})
GoNumber(text, i) == PastAll(text, i, Continuing \cup {"."})

GoStep(text, s) ==
  LET c == text[s.at] IN
  CASE c = NL -> GoLineEnd(s)
    [] GoTrivia(text, s) # s -> GoTrivia(text, s)
    [] Delimits(c) -> CutDelimiter(s, c)
    [] c = Quote -> CutText(s, GoString(text, s.at))
    [] c = Backquote -> CutText(s, GoRawString(text, s.at))
    [] c = "'" -> CutLiteral(s, GoRune(text, s.at))
    [] c \in Digit -> Cut(s, Literal, GoNumber(text, s.at))
    [] c \in Starting -> CutWord(text, s, PastWord(text, s.at))
    [] OTHER -> Cut(s, Punct(c), s.at + 1)

(* Java (java_lexer.rs). *)

JavaKinds == {"ident", "literal", "text", "open", "close", "punct"}

ThreeQuotes == <<Quote, Quote, Quote>>
\* Three quotes and the end of the line open a text block; three quotes alone do not.
JavaOpensTextBlock(text, i) ==
  Stands(text, i, ThreeQuotes) /\ At(text, PastAll(text, i + 3, Spaces)) = NL
JavaTextBlock(text, i) == QuotedFrom(text, i + 3, ThreeQuotes, {}, << >>)

JavaTrivia(text, s) ==
  CASE text[s.at] \in Whitespace -> PassTo(s, s.at + 1)
    [] Stands(text, s.at, <<"/", "/">>) -> PassTo(s, LineEnd(text, s.at))
    [] Stands(text, s.at, <<"/", "*">>) -> PassTo(s, Through(text, s.at + 2, <<"*", "/">>))
    [] OTHER -> s

JavaString(text, i) == Quoted(text, i, Quote, {NL})
JavaCharacter(text, i) == Quoted(text, i, "'", {NL})
JavaNumber(text, i) == PastAll(text, i, Continuing \cup {"."})
PastDollarWord(text, i) == PastAll(text, i, Continuing \cup {"$"})

JavaStep(text, s) ==
  LET c == text[s.at] IN
  CASE JavaTrivia(text, s) # s -> JavaTrivia(text, s)
    [] Delimits(c) -> CutDelimiter(s, c)
    [] JavaOpensTextBlock(text, s.at) ->
         LET read == JavaTextBlock(text, s.at) IN
         IF read.closed THEN CutText(s, read) ELSE PassTo(s, Len(text) + 1)
    [] c = Quote -> CutText(s, JavaString(text, s.at))
    [] c = "'" -> CutLiteral(s, JavaCharacter(text, s.at))
    [] c \in Digit -> Cut(s, Literal, JavaNumber(text, s.at))
    [] c \in Starting \cup {"$"} -> CutWord(text, s, PastDollarWord(text, s.at))
    [] OTHER -> Cut(s, Punct(c), s.at + 1)

(* Kotlin (kotlin_lexer.rs). *)

KotlinKinds == {"ident", "quoted", "literal", "text", "open", "close", "punct"}

KotlinTrivia(text, s) ==
  CASE text[s.at] \in Whitespace -> PassTo(s, s.at + 1)
    [] Stands(text, s.at, <<"/", "/">>) -> PassTo(s, LineEnd(text, s.at))
    [] Stands(text, s.at, <<"/", "*">>) -> PassTo(s, NestedComment(text, s.at + 2, 1))
    [] OTHER -> s

KotlinCharacter(text, i) == Quoted(text, i, "'", {NL}).at

RECURSIVE KotlinStringFrom(_, _, _), KotlinRawFrom(_, _, _), KotlinTemplate(_, _, _)
KotlinString(text, i) ==
  IF Stands(text, i, ThreeQuotes) THEN KotlinRawFrom(text, i + 3, << >>)
  ELSE KotlinStringFrom(text, i + 1, << >>)

\* An escape stays as written, and so does a template.
KotlinStringFrom(text, i, content) ==
  CASE At(text, i) \in {"end", NL} -> Reached(i, content, FALSE)
    [] text[i] = Quote -> Reached(i + 1, content, TRUE)
    [] text[i] = Backslash ->
         LET end == IF i = Len(text) THEN i ELSE i + 1 IN
         KotlinStringFrom(text, end + 1, content \o SubSeq(text, i, end))
    [] Stands(text, i, <<"$", "{">>) ->
         LET end == KotlinTemplate(text, i + 2, 1) IN
         KotlinStringFrom(text, end, content \o SubSeq(text, i, end - 1))
    [] OTHER -> KotlinStringFrom(text, i + 1, Append(content, text[i]))

\* Quotes beyond the three that close it belong to the content.
KotlinRawFrom(text, i, content) ==
  CASE i > Len(text) -> Reached(i, content, FALSE)
    [] Stands(text, i, ThreeQuotes) ->
         LET end == PastAll(text, i + 3, {Quote}) IN
         Reached(end, content \o SubSeq(text, i + 3, end - 1), TRUE)
    [] Stands(text, i, <<"$", "{">>) ->
         LET end == KotlinTemplate(text, i + 2, 1) IN
         KotlinRawFrom(text, end, content \o SubSeq(text, i, end - 1))
    [] OTHER -> KotlinRawFrom(text, i + 1, Append(content, text[i]))

\* Behind ${...}: braces are counted, except those in a string, a character or a comment of its own.
KotlinTemplate(text, i, depth) ==
  CASE depth = 0 \/ i > Len(text) -> i
    [] At(text, i) = "{" -> KotlinTemplate(text, i + 1, depth + 1)
    [] At(text, i) = "}" -> KotlinTemplate(text, i + 1, depth - 1)
    [] At(text, i) = Quote -> KotlinTemplate(text, KotlinString(text, i).at, depth)
    [] At(text, i) = "'" -> KotlinTemplate(text, KotlinCharacter(text, i), depth)
    [] Stands(text, i, <<"/", "*">>) -> KotlinTemplate(text, NestedComment(text, i + 2, 1), depth)
    [] Stands(text, i, <<"/", "/">>) -> KotlinTemplate(text, LineEnd(text, i), depth)
    [] OTHER -> KotlinTemplate(text, i + 1, depth)

\* `name`, or nothing more of the text if the backquote that closes it is missing.
KotlinQuotedIdentifier(text, s) ==
  LET end == FirstIn(text, s.at + 1, {Backquote, NL}) IN
  IF At(text, end) = Backquote THEN Cut(s, <<"quoted", SubSeq(text, s.at + 1, end - 1)>>, end + 1)
  ELSE PassTo(s, Len(text) + 1)

\* 1.0 and 1e-1 are one number each, the dot of 1.x is none of it.
KotlinNumberEnd(text, i) ==
  FirstOf(text, i, {j \in DOMAIN text :
    ~(\/ text[j] \in Continuing
      \/ text[j] = "." /\ At(text, j + 1) \in Digit
      \/ text[j] \in {"+", "-"} /\ At(text, j - 1) \in {"e", "E"})})

KotlinStep(text, s) ==
  LET c == text[s.at] IN
  CASE KotlinTrivia(text, s) # s -> KotlinTrivia(text, s)
    [] Delimits(c) -> CutDelimiter(s, c)
    [] c = Quote -> CutText(s, KotlinString(text, s.at))
    [] c = "'" -> Cut(s, Literal, KotlinCharacter(text, s.at))
    [] c = Backquote -> KotlinQuotedIdentifier(text, s)
    [] c \in Digit -> Cut(s, Literal, KotlinNumberEnd(text, s.at))
    [] c \in Starting -> CutWord(text, s, PastWord(text, s.at))
    [] OTHER -> Cut(s, Punct(c), s.at + 1)

(* TypeScript and JavaScript (typescript_lexer.rs). *)

TypeScriptKinds == {"ident", "literal", "text", "open", "close", "punct"}

BEFORE_REGEX == {"await", "case", "delete", "do", "else", "in", "instanceof", "new", "of", "return",
                 "throw", "typeof", "void", "yield"}
\* After a value a slash divides, everywhere else it opens a regular expression.
TypeScriptRegexMayStart(s) ==
  LET previous == Previous(s) IN
  \/ previous[1] \in {"none", "open", "punct"}
  \/ previous[1] = "ident" /\ previous[2] \in {<<word>> : word \in BEFORE_REGEX}
  \/ previous = <<"close", "{">>

TypeScriptTrivia(text, s) ==
  CASE text[s.at] \in Whitespace -> PassTo(s, s.at + 1)
    [] Stands(text, s.at, <<"/", "/">>) -> PassTo(s, LineEnd(text, s.at))
    [] Stands(text, s.at, <<"/", "*">>) -> PassTo(s, Through(text, s.at + 2, <<"*", "/">>))
    [] s.at = 1 /\ Stands(text, 1, <<"#", "!">>) -> PassTo(s, LineEnd(text, 1))
    [] OTHER -> s

TypeScriptString(text, i) == Quoted(text, i, text[i], {NL})

RECURSIVE TemplateFrom(_, _, _), Interpolation(_, _, _, _)
TypeScriptTemplate(text, i) == TemplateFrom(text, i + 1, << >>)
\* The content as written, with what is interpolated.
TemplateFrom(text, i, content) ==
  CASE i > Len(text) -> Reached(Len(text) + 1, content, FALSE)
    [] At(text, i) = Backquote -> Reached(i + 1, content, TRUE)
    [] At(text, i) = Backslash -> TemplateFrom(text, i + 2, content \o <<Backslash>> \o Char(text, i + 1))
    [] Stands(text, i, <<"$", "{">>) ->
         LET field == Interpolation(text, i + 2, 1, content \o <<"$", "{">>) IN
         TemplateFrom(text, field.at, field.content)
    [] OTHER -> TemplateFrom(text, i + 1, Append(content, text[i]))
Interpolation(text, i, depth, content) ==
  LET requoted(read, quote) ==
        Interpolation(text, read.at, depth, content \o <<quote>> \o read.content \o <<quote>>)
      on(change) == Interpolation(text, i + 1, depth + change - 1, Append(content, text[i])) IN
  CASE depth = 0 \/ i > Len(text) -> Reached(i, content, depth = 0)
    [] At(text, i) = "{" -> on(2)
    [] At(text, i) = "}" -> on(0)
    [] At(text, i) = Backquote -> requoted(TypeScriptTemplate(text, i), Backquote)
    [] At(text, i) \in {Quote, "'"} -> requoted(TypeScriptString(text, i), text[i])
    [] OTHER -> on(1)

RECURSIVE RegexEnd(_, _, _)
\* Behind a regular expression and its flags; a slash in a class does not end it.
RegexEnd(text, i, in_class) ==
  CASE At(text, i) \in {"end", NL} -> i
    [] At(text, i) = Backslash -> RegexEnd(text, i + 2, in_class)
    [] At(text, i) = "[" -> RegexEnd(text, i + 1, TRUE)
    [] At(text, i) = "]" -> RegexEnd(text, i + 1, FALSE)
    [] At(text, i) = "/" /\ ~in_class -> PastAll(text, i + 1, Alphanumeric)
    [] OTHER -> RegexEnd(text, i + 1, in_class)

TypeScriptNumber(text, i) == PastAll(text, i, Continuing \cup {"."})

TypeScriptStep(text, s) ==
  LET c == text[s.at] IN
  CASE TypeScriptTrivia(text, s) # s -> TypeScriptTrivia(text, s)
    [] Delimits(c) -> CutDelimiter(s, c)
    [] c \in {Quote, "'"} -> CutText(s, TypeScriptString(text, s.at))
    [] c = Backquote -> CutText(s, TypeScriptTemplate(text, s.at))
    [] c = "/" /\ TypeScriptRegexMayStart(s) -> Cut(s, Literal, RegexEnd(text, s.at + 1, FALSE))
    [] c \in Digit -> Cut(s, Literal, TypeScriptNumber(text, s.at))
    [] c = "#" /\ At(text, s.at + 1) \in Starting \cup {"$"} ->
         CutWord(text, s, PastDollarWord(text, s.at + 1))
    [] c \in Starting \cup {"$"} -> CutWord(text, s, PastDollarWord(text, s.at))
    [] OTHER -> Cut(s, Punct(c), s.at + 1)

(* Python (python_lexer.rs). *)

PythonKinds == {"ident", "literal", "text", "open", "close", "punct", "newline", "indent", "dedent"}
Newline == <<"newline">>
Indent == <<"indent">>
Dedent == <<"dedent">>

TAB_WIDTH == 8
RECURSIVE Indentation(_, _, _)
\* How far the next line that is neither blank nor a comment is indented, or nothing at the end.
Indentation(text, i, width) ==
  CASE At(text, i) = "end" -> [at |-> i, width |-> << >>]
    [] At(text, i) = " " -> Indentation(text, i + 1, width + 1)
    [] At(text, i) = "\t" -> Indentation(text, i + 1, (width \div TAB_WIDTH + 1) * TAB_WIDTH)
    [] At(text, i) = "\f" -> Indentation(text, i + 1, 0)
    [] At(text, i) = NL -> Indentation(text, i + 1, 0)
    [] At(text, i) = "#" -> Indentation(text, LineEnd(text, i) + 1, 0)
    [] OTHER -> [at |-> i, width |-> <<width>>]

DeeperThan(s, width) == {k \in DOMAIN s.indents : k > 1 /\ s.indents[k] > width}
PythonIndentation(s, width) ==
  LET open == [k \in 1..Len(s.indents) - Cardinality(DeeperThan(s, width)) |-> s.indents[k]] IN
  IF width > Last(s.indents)
  THEN [s EXCEPT !.tokens = Append(@, Indent), !.indents = Append(@, width)]
  ELSE [s EXCEPT !.tokens = @ \o [k \in 1..Cardinality(DeeperThan(s, width)) |-> Dedent], !.indents = open]

PythonLineStart(text, s) ==
  LET line == Indentation(text, s.at, 0)
      begun == [s EXCEPT !.at = line.at, !.line_start = FALSE] IN
  IF line.width = << >> THEN begun ELSE PythonIndentation(begun, line.width[1])

PythonTrivia(text, s) ==
  CASE text[s.at] \in Spaces -> PassTo(s, s.at + 1)
    [] text[s.at] = "#" -> PassTo(s, LineEnd(text, s.at))
    [] Stands(text, s.at, <<Backslash, NL>>) -> PassTo(s, s.at + 2)
    [] OTHER -> s

\* A newline inside brackets is none.
PythonNewline(s) ==
  LET passed == [s EXCEPT !.at = @ + 1, !.line_start = s.brackets = 0] IN
  IF s.brackets > 0 THEN passed ELSE [passed EXCEPT !.tokens = Append(@, Newline)]

PythonBracket(s, c) ==
  [CutDelimiter(s, c) EXCEPT !.brackets =
     IF c \in DOMAIN OpeningOf THEN @ + 1 ELSE IF @ = 0 THEN 0 ELSE @ - 1]

RECURSIVE PythonStringFrom(_, _, _, _, _), ReplacementField(_, _, _, _, _)
PythonString(text, i) ==
  IF Stands(text, i + 1, <<text[i], text[i]>>) THEN PythonStringFrom(text, i + 3, text[i], TRUE, << >>)
  ELSE PythonStringFrom(text, i + 1, text[i], FALSE, << >>)
PythonStringFrom(text, i, quote, triple, content) ==
  LET closing == IF triple THEN <<quote, quote, quote>> ELSE <<quote>> IN
  CASE i > Len(text) -> Reached(Len(text) + 1, content, FALSE)
    [] At(text, i) = Backslash -> PythonStringFrom(text, i + 2, quote, triple, content \o Char(text, i + 1))
    [] Stands(text, i, closing) -> Reached(i + Len(closing), content, TRUE)
    [] At(text, i) = NL /\ ~triple -> Reached(i, content, FALSE)
    [] Stands(text, i, <<"{", "{">>) -> PythonStringFrom(text, i + 2, quote, triple, content \o <<"{", "{">>)
    [] At(text, i) = "{" ->
         LET field == ReplacementField(text, i + 1, 1, triple, Append(content, "{")) IN
         PythonStringFrom(text, field.at, quote, triple, field.content)
    [] OTHER -> PythonStringFrom(text, i + 1, quote, triple, Append(content, text[i]))
\* One {...} in a string, whether or not the string has a prefix that gives it a meaning.
ReplacementField(text, i, depth, triple, content) ==
  LET on(change) == ReplacementField(text, i + 1, depth + change - 1, triple, Append(content, text[i])) IN
  CASE depth = 0 \/ i > Len(text) -> Reached(i, content, depth = 0)
    [] At(text, i) = "{" -> on(2)
    [] At(text, i) = "}" -> on(0)
    [] At(text, i) \in {Quote, "'"} ->
         LET nested == PythonString(text, i) IN
         ReplacementField(text, nested.at, depth, triple, content \o <<text[i]>> \o nested.content \o <<text[i]>>)
    [] At(text, i) = NL /\ ~triple -> Reached(i, content, FALSE)
    [] OTHER -> on(1)

PythonPrefixed(text, s, next) ==
  /\ next - s.at \in 1..2
  /\ \A k \in s.at..next - 1 : text[k] \in {"b", "B", "f", "F", "r", "R", "u", "U"}
  /\ At(text, next) \in {Quote, "'"}

PythonWord(text, s) ==
  LET next == PastWord(text, s.at) IN
  IF PythonPrefixed(text, s, next) THEN CutText(s, PythonString(text, next)) ELSE CutWord(text, s, next)

PythonNumber(text, i) == PastAll(text, i, Continuing \cup {"."})

PythonStep(text, s) ==
  LET c == text[s.at] IN
  CASE s.line_start /\ s.brackets = 0 -> PythonLineStart(text, s)
    [] PythonTrivia(text, s) # s -> PythonTrivia(text, s)
    [] c = NL -> PythonNewline(s)
    [] Delimits(c) -> PythonBracket(s, c)
    [] c \in {Quote, "'"} -> CutText(s, PythonString(text, s.at))
    [] c \in Digit -> Cut(s, Literal, PythonNumber(text, s.at))
    [] c \in Starting -> PythonWord(text, s)
    [] OTHER -> Cut(s, Punct(c), s.at + 1)

\* At the end every block that is open is closed.
PythonEnd(s) ==
  s.tokens \o (IF s.tokens # << >> /\ Last(s.tokens) # Newline THEN <<Newline>> ELSE << >>)
           \o [k \in 1..Len(s.indents) - 1 |-> Dedent]

(* The whole text. *)

Kinds == [rust |-> RustKinds, c |-> CKinds, go |-> GoKinds, java |-> JavaKinds, kotlin |-> KotlinKinds,
          typescript |-> TypeScriptKinds, python |-> PythonKinds]

Step(language, text, s) ==
  CASE language = "rust" -> RustStep(text, s)
    [] language = "c" -> CStep(text, s)
    [] language = "go" -> GoStep(text, s)
    [] language = "java" -> JavaStep(text, s)
    [] language = "kotlin" -> KotlinStep(text, s)
    [] language = "typescript" -> TypeScriptStep(text, s)
    [] language = "python" -> PythonStep(text, s)

RECURSIVE Lexing(_, _, _)
Lexing(language, text, s) ==
  IF s.at > Len(text) THEN s ELSE Lexing(language, text, Step(language, text, s))

tokenize(language, text) ==
  LET end == Lexing(language, text, Start) IN
  IF language = "python" THEN PythonEnd(end) ELSE end.tokens

=============================================================================
