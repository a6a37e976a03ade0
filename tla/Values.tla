-------------------------------- MODULE Values --------------------------------
(***************************************************************************)
(* The smallest values of the model and how each is read from a text and   *)
(* written as one: identifiers (id.rs), names (name.rs), texts (text.rs),  *)
(* locators (locator.rs), numbers and times (property.rs), ranges,         *)
(* confidences and digests (evidence.rs), and the literals of a document   *)
(* (nost/lexer.rs, nost/format.rs).                                        *)
(*                                                                         *)
(* A text is a sequence of characters; a word may stand as one of them.    *)
(* What may fail is <<"ok", value>> or a tuple that names the fault; what  *)
(* may be absent is a sequence of at most one.                             *)
(***************************************************************************)
EXTENDS Integers, Sequences, FiniteSets, SequencesExt, FiniteSetsExt

CONSTANTS
  XidStart, XidContinue,  \* the characters that begin and go on a name
  LowerCase,              \* the ASCII letters that are
  Scalar,                 \* the code of each character an escape may name
  Control,                \* the control characters
  NotAscii,
  MaxNumber               \* the largest number a position may hold

White == {" ", "\t", "\r", "\n"}
DIGITS == <<"0", "1", "2", "3", "4", "5", "6", "7", "8", "9">>
HEX == DIGITS \o <<"a", "b", "c", "d", "e", "f">>
UPPER_HEX == DIGITS \o <<"A", "B", "C", "D", "E", "F">>
Among(c, characters) == \E k \in DOMAIN characters : characters[k] = c
ValueOf(c, characters) == (CHOOSE k \in DOMAIN characters : characters[k] = c) - 1
IsDigit(c) == Among(c, DIGITS)
IsHex(c) == Among(c, HEX) \/ Among(c, UPPER_HEX)
HexValue(c) == IF Among(c, HEX) THEN ValueOf(c, HEX) ELSE ValueOf(c, UPPER_HEX)

At(text, i) == IF i \in DOMAIN text THEN text[i] ELSE "end"
Read(value) == <<"ok", value>>
IsRead(outcome) == outcome[1] = "ok"

\* The first place from i on that holds no such character.
Past(text, i, Holds(_)) ==
  Min({j \in i..Len(text) : ~Holds(text[j])} \union {Max({i, Len(text) + 1})})
PastDigits(text, i) == Past(text, i, IsDigit)

\* What stands before and behind the first separator, if there is one.
split_once(text, separator) ==
  LET found == {i \in DOMAIN text : IsPrefix(separator, SubSeq(text, i, Len(text)))} IN
  IF found = {} THEN << >>
  ELSE <<[before |-> SubSeq(text, 1, Min(found) - 1),
          behind |-> SubSeq(text, Min(found) + Len(separator), Len(text))]>>

trim(text) ==
  LET ink == {i \in DOMAIN text : text[i] \notin White} IN
  IF ink = {} THEN << >> ELSE SubSeq(text, Min(ink), Max(ink))

NumberFrom(digits, base) == FoldLeft(LAMBDA sum, c : base * sum + HexValue(c), 0, digits)

-----------------------------------------------------------------------------
(* Identifiers                                                              *)

ENCODED_LENGTH == 36
HYPHENS == {8, 13, 18, 23}  \* counted from 0

HexPair(byte) == <<HEX[(byte \div 16) + 1], HEX[(byte % 16) + 1]>>
encode(bytes) ==
  FlattenSeq([k \in 1..16 |-> (IF k \in {5, 7, 9, 11} THEN <<"-">> ELSE << >>)
                              \o HexPair(bytes[k])])

\* The faults are told apart in this order, and the first misplaced character decides.
decode(text) ==
  LET hyphen(i) == (i - 1) \in HYPHENS
      wrong == {i \in DOMAIN text : IF hyphen(i) THEN text[i] # "-" ELSE ~Among(text[i], HEX)}
      digits == SelectSeq(text, LAMBDA c : c # "-") IN
  CASE Len(text) # ENCODED_LENGTH -> <<"WrongLength">>
    [] \E i \in DOMAIN text : text[i] \in NotAscii -> <<"InvalidCharacter">>
    [] wrong # {} -> IF hyphen(Min(wrong)) \/ text[Min(wrong)] = "-" THEN <<"MisplacedHyphen", Min(wrong) - 1>>
                     ELSE <<"InvalidCharacter">>
    [] OTHER -> Read([k \in 1..16 |-> 16 * HexValue(digits[2 * k - 1]) + HexValue(digits[2 * k])])

\* The kind of a record is part of the text of its identifier.
Prefix == [node |-> <<"n", "_">>, edge |-> <<"e", "_">>, unit |-> <<"u", "_">>]
IdText(kind, bytes) == Prefix[kind] \o encode(bytes)
IdFrom(kind, text) ==
  IF IsPrefix(Prefix[kind], text) THEN decode(SubSeq(text, 3, Len(text))) ELSE <<"MissingPrefix">>

QUERY == [k \in 1..16 |-> 0]

\* Eight bytes of a number below 2^31.
BigEndian(n) == [k \in 1..8 |-> IF k <= 4 THEN 0 ELSE (n \div 256 ^ (8 - k)) % 256]
sequential(generation) == [generation |-> generation, sequence |-> 0, issued |-> 0]
next_bytes(minter) == BigEndian(minter.generation) \o BigEndian(minter.sequence)
Issuing(minter) == [minter EXCEPT !.sequence = @ + 1, !.issued = @ + 1]
Minted(generation, count) ==
  LET after[n \in 0..count] == IF n = 0 THEN sequential(generation) ELSE Issuing(after[n - 1]) IN
  [n \in 1..count |-> next_bytes(after[n - 1])]

-----------------------------------------------------------------------------
(* Names, texts and locators                                                *)

RESERVED_WORDS == {<<word>> : word \in {"as", "bytes", "datetime", "edge", "false", "node", "schema", "true"}}

validate(name) ==
  CASE name = << >> -> <<"Empty">>
    [] name[1] \notin XidStart \union {"_"} -> <<"InvalidStart">>
    [] \E i \in 2..Len(name) : name[i] \notin XidContinue -> <<"InvalidContinue">>
    [] name \in RESERVED_WORDS -> <<"Reserved">>
    [] OTHER -> Read(name)

\* A locator takes the same texts as any other text that may not be empty.
NonEmpty(text) ==
  CASE trim(text) = << >> -> <<"Empty">>
    [] trim(text) # text -> <<"Untrimmed">>
    [] \E i \in DOMAIN text : text[i] \in Control -> <<"ControlCharacter">>
    [] OTHER -> Read(text)

NonEmptyText(text) == NonEmpty(text)
CanonicalSourceLocator(text) == NonEmpty(text)

Alphabetic == XidStart \ NotAscii
scheme(locator) ==
  LET parts == split_once(locator, <<":", "/", "/">>)
      named == parts[1].before IN
  IF \/ parts = << >>
     \/ named = << >>
     \/ named[1] \notin Alphabetic
     \/ \E i \in DOMAIN named : named[i] \notin Alphabetic \union {"+", "-", "."} /\ ~IsDigit(named[i])
  THEN << >> ELSE <<named>>
is_remote(locator) == scheme(locator) # << >>

-----------------------------------------------------------------------------
(* Numbers: <<sign, size>>, or what is not finite                           *)

NotFinite == {<<"NaN">>, <<"inf">>}
MinusZero == <<-1, 0>>

FiniteF64(number) ==
  IF number \in NotFinite THEN <<"NotFinite">> ELSE Read(IF number = MinusZero THEN <<1, 0>> ELSE number)
\* Equality of the numbers, the total order of their bits, and what is hashed.
FiniteEqual(a, b) == a[1] * a[2] = b[1] * b[2]
TotalOrder(a, b) == IF a[1] # b[1] THEN a[1] < b[1] ELSE a[1] * a[2] <= b[1] * b[2]
Hashed(a) == a

\* A score is such a number of tenths.
Score(number) ==
  CASE number \in NotFinite -> <<"NotFinite">>
    [] number[1] * number[2] \notin 0..10 -> <<"OutOfRange">>
    [] OTHER -> FiniteF64(number)

-----------------------------------------------------------------------------
(* Times                                                                    *)

\* The number that so many digits from i on spell.
Spelled(text, i, length) ==
  LET digits == SubSeq(text, i, i + length - 1) IN
  IF i + length - 1 > Len(text) THEN << >>
  ELSE IF \A k \in DOMAIN digits : IsDigit(digits[k]) THEN <<NumberFrom(digits, 10)>> ELSE << >>
two_digits(text, i) == Spelled(text, i, 2)
four_digits(text, i) == Spelled(text, i, 4)

is_leap_year(year) == (year % 4 = 0 /\ year % 100 # 0) \/ year % 400 = 0
days_in_month(year, month) ==
  CASE month \in {1, 3, 5, 7, 8, 10, 12} -> 31
    [] month \in {4, 6, 9, 11} -> 30
    [] month = 2 -> IF is_leap_year(year) THEN 29 ELSE 28
    [] OTHER -> 0

\* Which of the parts of a time is out of its range.
Within(part, t) ==
  CASE part = "Month" -> t.Month[1] \in 1..12
    [] part = "Day" -> t.Day[1] \in 1..days_in_month(t.Year[1], t.Month[1])
    [] part = "Hour" -> t.Hour[1] <= 23
    [] part = "Minute" -> t.Minute[1] <= 59
    [] part = "Second" -> t.Second[1] <= 60
    [] part = "OffsetHour" -> t.OffsetHour[1] <= 23
    [] part = "OffsetMinute" -> t.OffsetMinute[1] <= 59
Parts == <<"Month", "Day", "Hour", "Minute", "Second", "OffsetHour", "OffsetMinute">>

validate_rfc3339(text) ==
  LET zone == IF At(text, 20) = "." THEN PastDigits(text, 21) ELSE 20
      offset == At(text, zone) \in {"+", "-"}
      t == [Year |-> four_digits(text, 1), Month |-> two_digits(text, 6), Day |-> two_digits(text, 9),
            Hour |-> two_digits(text, 12), Minute |-> two_digits(text, 15), Second |-> two_digits(text, 18),
            OffsetHour |-> IF offset THEN two_digits(text, zone + 1) ELSE <<0>>,
            OffsetMinute |-> IF offset THEN two_digits(text, zone + 4) ELSE <<0>>]
      shaped ==
        /\ \A part \in DOMAIN t : t[part] # << >>
        /\ At(text, 5) = "-" /\ At(text, 8) = "-"
        /\ At(text, 11) \in {"T", "t"}
        /\ At(text, 14) = ":" /\ At(text, 17) = ":"
        /\ zone # 21
        /\ offset \/ At(text, zone) \in {"Z", "z"}
        /\ offset => At(text, zone + 3) = ":"
        /\ Len(text) = IF offset THEN zone + 5 ELSE zone
      out == SelectSeq(Parts, LAMBDA part : ~Within(part, t)) IN
  CASE \E i \in DOMAIN text : text[i] \in NotAscii -> <<"NotAscii">>
    [] ~shaped -> <<"Malformed">>
    [] out # << >> -> <<"OutOfRange", out[1]>>
    [] OTHER -> Read(text)

-----------------------------------------------------------------------------
(* Ranges, confidences and digests                                          *)

Position(line, column, offset) == [line |-> line, column |-> column, offset |-> offset]
ORIGIN == [start |-> Position(1, 1, 0), end |-> Position(1, 1, 0)]

SourceRange(start, end) ==
  CASE 0 \in {start.line, start.column, end.line, end.column} -> <<"ZeroLineOrColumn">>
    [] end.offset < start.offset -> <<"EndBeforeStart">>
    [] OTHER -> Read([start |-> start, end |-> end])
byte_length(range) == range.end.offset - range.start.offset

\* An unsigned number as the standard library reads it: a plus may stand before it.
Unsigned(text) ==
  LET digits == IF At(text, 1) = "+" THEN Tail(text) ELSE text IN
  IF digits = << >> \/ \E k \in DOMAIN digits : ~IsDigit(digits[k]) THEN <<"NotNumber">>
  ELSE IF NumberFrom(digits, 10) > MaxNumber THEN <<"TooLarge">> ELSE Read(NumberFrom(digits, 10))

RECURSIVE Split(_, _)
Split(text, separator) ==
  LET parts == split_once(text, separator) IN
  IF parts = << >> THEN <<text>> ELSE <<parts[1].before>> \o Split(parts[1].behind, separator)

PositionFrom(text) ==
  LET parts == Split(text, <<":">>)
      numbers == [k \in DOMAIN parts |-> Unsigned(parts[k])] IN
  IF Len(parts) # 3 \/ \E k \in DOMAIN numbers : ~IsRead(numbers[k]) THEN <<"NotPosition">>
  ELSE Read(Position(numbers[1][2], numbers[2][2], numbers[3][2]))

RangeFrom(text) ==
  LET ends == split_once(text, <<"-">>)
      start == PositionFrom(ends[1].before)
      end == PositionFrom(ends[1].behind) IN
  CASE ends = << >> -> <<"NotRange">>
    [] ~IsRead(start) -> start
    [] ~IsRead(end) -> end
    [] OTHER -> SourceRange(start[2], end[2])

RECURSIVE Decimal(_)
Decimal(n) == (IF n < 10 THEN << >> ELSE Decimal(n \div 10)) \o <<DIGITS[(n % 10) + 1]>>
PositionText(position) ==
  Decimal(position.line) \o <<":">> \o Decimal(position.column) \o <<":">> \o Decimal(position.offset)
RangeText(range) == PositionText(range.start) \o <<"-">> \o PositionText(range.end)

\* Three words, two of them with a score.
from_parts(word, score) ==
  CASE word = <<"extracted">> /\ score = << >> -> Read(<<"extracted">>)
    [] word = <<"extracted">> -> <<"NoScore">>
    [] word \in {<<"inferred">>, <<"ambiguous">>} /\ score # << >> -> Read(<<word[1], score[1]>>)
    [] word \in {<<"inferred">>, <<"ambiguous">>} -> <<"WantsScore">>
    [] OTHER -> <<"NotConfidence">>

\* ReadFloat says what the standard library makes of a text: a number, or nothing.
ConfidenceFrom(text, ReadFloat(_)) ==
  LET parts == split_once(text, <<"(">>)
      number == ReadFloat(trim(Front(parts[1].behind)))
      score == Score(number[1]) IN
  CASE parts = << >> -> from_parts(trim(text), << >>)
    [] parts[1].behind = << >> \/ At(parts[1].behind, Len(parts[1].behind)) # ")" -> <<"NotClosed">>
    [] number = << >> -> <<"NotScore">>
    [] ~IsRead(score) -> score
    [] OTHER -> from_parts(trim(parts[1].before), <<score[2]>>)

MIN_HEX_DIGITS == 32
ContentDigest(text) ==
  LET parts == split_once(text, <<":">>)
      algorithm == parts[1].before
      hex == parts[1].behind IN
  CASE parts = << >> -> <<"MissingAlgorithm">>
    [] \/ algorithm = << >>
       \/ \E k \in DOMAIN algorithm : algorithm[k] \notin LowerCase \union {"-"} /\ ~IsDigit(algorithm[k]) ->
         <<"InvalidAlgorithm">>
    [] Len(hex) < MIN_HEX_DIGITS \/ Len(hex) % 2 # 0 -> <<"InvalidHexLength">>
    [] \E k \in DOMAIN hex : ~Among(hex[k], HEX) -> <<"InvalidHexDigit">>
    [] OTHER -> Read([algorithm |-> algorithm, hex |-> hex])

-----------------------------------------------------------------------------
(* Literals: a reading is <<"ok", what was read, the place behind it>>      *)

\* The characters with an escape of one letter.
Escapes == ("n" :> "\n") @@ ("r" :> "\r") @@ ("t" :> "\t") @@ ("\"" :> "\"") @@ ("\\" :> "\\")
EscapeOf(c) == CHOOSE letter \in DOMAIN Escapes : Escapes[letter] = c
CodeText(code) == (IF code < 16 THEN << >> ELSE <<UPPER_HEX[(code \div 16) + 1]>>) \o <<UPPER_HEX[(code % 16) + 1]>>

escape_string(text) ==
  LET written(c) ==
        CASE \E letter \in DOMAIN Escapes : Escapes[letter] = c -> <<"\\", EscapeOf(c)>>
          [] c \in Control -> <<"\\", "u", "{">> \o CodeText(Scalar[c]) \o <<"}">>
          [] OTHER -> <<c>> IN
  <<"\"">> \o FlattenSeq([k \in DOMAIN text |-> written(text[k])]) \o <<"\"">>

\* The character whose code is between the braces that begin at i.
CodeFrom(text, i) ==
  LET end == Past(text, i + 1, IsHex)
      code == NumberFrom(SubSeq(text, i + 1, end - 1), 16)
      named == {c \in DOMAIN Scalar : Scalar[c] = code} IN
  IF At(text, i) # "{" \/ At(text, end) # "}" \/ end = i + 1 \/ named = {} THEN <<"NotScalar">>
  ELSE <<"ok", CHOOSE c \in named : TRUE, end + 1>>

RECURSIVE StringFrom(_, _, _)
StringFrom(text, i, content) ==
  LET code == CodeFrom(text, i + 2) IN
  CASE i > Len(text) -> <<"Unterminated">>
    [] text[i] = "\"" -> <<"ok", content, i + 1>>
    [] text[i] \in {"\n", "\r"} -> <<"LineTerminator">>
    [] text[i] = "\\" /\ At(text, i + 1) = "u" ->
         IF IsRead(code) THEN StringFrom(text, code[3], Append(content, code[2])) ELSE code
    [] text[i] = "\\" ->
         IF At(text, i + 1) \in DOMAIN Escapes
         THEN StringFrom(text, i + 2, Append(content, Escapes[text[i + 1]])) ELSE <<"UnknownEscape">>
    [] OTHER -> StringFrom(text, i + 1, Append(content, text[i]))
read_string(text, i) == IF At(text, i) = "\"" THEN StringFrom(text, i + 1, << >>) ELSE <<"NoString">>

BytesText(bytes) == <<"\"">> \o FlattenSeq([k \in DOMAIN bytes |-> HexPair(bytes[k])]) \o <<"\"">>
read_bytes_literal(text, i) ==
  LET end == Past(text, i + 1, IsHex)
      pairs == (end - i - 1) \div 2 IN
  CASE At(text, end) # "\"" -> <<"NotHex">>
    [] (end - i - 1) % 2 # 0 -> <<"OddDigits">>
    [] OTHER -> <<"ok", [k \in 1..pairs |-> NumberFrom(SubSeq(text, i + 2 * k - 1, i + 2 * k), 16)], end + 1>>

\* A number is whole unless it has a fraction or an exponent, and each of them wants a digit.
read_number(text, i) ==
  LET whole == IF At(text, i) = "-" THEN i + 1 ELSE i
      point == PastDigits(text, whole)
      exponent == IF At(text, point) = "." THEN PastDigits(text, point + 1) ELSE point
      power == IF At(text, exponent + 1) \in {"+", "-"} THEN exponent + 2 ELSE exponent + 1
      end == IF At(text, exponent) \in {"e", "E"} THEN PastDigits(text, power) ELSE exponent
      read == [k \in 1..end - i |-> IF text[i + k - 1] = "E" THEN "e" ELSE text[i + k - 1]] IN
  CASE point = whole -> <<"NoDigit">>
    [] exponent = point + 1 -> <<"NoFraction">>
    [] end # exponent /\ end = power -> <<"NoExponent">>
    [] OTHER -> <<"ok", <<IF end = point THEN "integer" ELSE "float", read>>, end>>

=============================================================================
