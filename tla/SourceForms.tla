----------------------------- MODULE SourceForms -----------------------------
(***************************************************************************)
(* Sources made of pieces whose tokens and items are known, and what has   *)
(* to come out when the pieces stand in one text.                          *)
(***************************************************************************)
EXTENDS RustItems

Open(c) == <<"open", c>>
Close(c) == <<"close", c>>
Piece(text, tokens) == [text |-> text, tokens |-> tokens]

(* Pieces with a delimiter, a quote or the beginning of a comment where it is none. *)

RustPieces == {
    Piece(<<"/", "*", "/", "*", "{", "*", "/", Quote, "*", "/">>, << >>),
    Piece(<<"/", "/", Quote, "{", NL>>, << >>),
    Piece(<<Quote, Backslash, Quote, "{", Quote>>, <<Literal>>),
    Piece(<<"r", "#", Quote, Quote, "}", Quote, "#">>, <<Literal>>),
    Piece(<<"b", "r", Quote, Backslash, Quote>>, <<Literal>>),
    Piece(<<"'", "{", "'">>, <<Literal>>),
    Piece(<<"'", Backslash, "'", "'">>, <<Literal>>),
    Piece(<<"'", "x">>, <<<<"lifetime", <<"x">>>>>>),
    Piece(<<"r", "#", "fn">>, <<<<"raw", <<"fn">>>>>>),
    Piece(<<"{", "r", "x", "}">>, <<Open("{"), Ident(<<"r", "x">>), Close("{")>>),
    Piece(<<"b", "'", Quote, "'">>, <<Literal>>),
    Piece(<<"'", "x", "'">>, <<Literal>>),
    Piece(<<"'", "{", NL>>, <<Literal>>),
    Piece(<<"1", "_", "0", ".", "1", ";">>, <<Literal, Punct(";")>>)}

CPieces == {
    Piece(<<"/", "*", "/", "*", "{", "*", "/">>, << >>),
    Piece(<<"/", "/", "{", Backslash, NL, "}">>, << >>),
    Piece(<<Quote, Backslash, Quote, "{", Quote>>, <<Text(<<Quote, "{">>)>>),
    Piece(<<"'", "}", "'">>, <<Literal>>),
    Piece(<<"R", Quote, "x", "(", "{", ")", Quote, ")", "x", Quote>>, <<Text(<<"{", ")", Quote>>)>>),
    Piece(<<"u", "8", "R", Quote, "(", "}", ")", Quote>>, <<Text(<<"}">>)>>),
    Piece(<<"#", "include", " ", "<", "{", Backslash, NL, Quote, ">">>, <<<<"directive", <<"include">>, <<"<", "{", " ", Quote, ">">>>>>>),
    Piece(<<"#", " ", "x", "/", "/", "{">>, <<<<"directive", <<"x">>, << >>>>>>),
    Piece(<<"(", "x", "[", "1", "]", ")">>, <<Open("("), Ident(<<"x">>), Open("["), Literal, Close("["), Close("(")>>),
    Piece(<<"x", "#", "x">>, <<Ident(<<"x">>), Punct("#"), Ident(<<"x">>)>>),
    Piece(<<"L", "x">>, <<Ident(<<"L", "x">>)>>),
    Piece(<<Quote, "{">>, <<Text(<<"{">>)>>)}

GoPieces == {
    Piece(<<Backquote, "{", Quote, Backslash, Backquote>>, <<Text(<<"{", Quote, Backslash>>)>>),
    Piece(<<Quote, Backslash, Quote, "{", Quote>>, <<Text(<<Quote, "{">>)>>),
    Piece(<<"'", "}", "'">>, <<Literal>>),
    Piece(<<"x", NL>>, <<Ident(<<"x">>), Punct(";")>>),
    Piece(<<"return", NL>>, <<Ident(<<"return">>), Punct(";")>>),
    Piece(<<"if", NL>>, <<Ident(<<"if">>)>>),
    Piece(<<"(", "x", ")", NL>>, <<Open("("), Ident(<<"x">>), Close("("), Punct(";")>>),
    Piece(<<",", NL, NL>>, <<Punct(",")>>),
    Piece(<<"/", "*", "{", NL, "*", "/">>, << >>),
    Piece(<<"x", "/", "/", "{", NL>>, <<Ident(<<"x">>), Punct(";")>>),
    Piece(<<"x", "+", "+", NL>>, <<Ident(<<"x">>), Punct("+"), Punct("+"), Punct(";")>>),
    Piece(<<"'", "{", NL>>, <<Literal, Punct(";")>>)}

JavaPieces == {
    Piece(<<"/", "*", "/", "*", "{", "*", "/">>, << >>),
    Piece(<<Quote, Quote, Quote, NL, Quote, "{", Backslash, Quote, Quote, Quote, "}", Quote, Quote, Quote>>, <<Text(<<NL, Quote, "{", Quote, Quote, Quote, "}">>)>>),
    Piece(<<Quote, Quote, Quote, "x", Quote>>, <<Text(<< >>), Text(<<"x">>)>>),
    Piece(<<"'", Backslash, "'", "'">>, <<Literal>>),
    Piece(<<"'", "{", "'">>, <<Literal>>),
    Piece(<<"x", "$", "1">>, <<Ident(<<"x", "$", "1">>)>>),
    Piece(<<Quote, Backslash, Quote, "{", Quote>>, <<Text(<<Quote, "{">>)>>),
    Piece(<<Quote, "{", NL>>, <<Text(<<"{">>)>>),
    Piece(<<"(", "x", ")", "{", "x", "}">>, <<Open("("), Ident(<<"x">>), Close("("), Open("{"), Ident(<<"x">>), Close("{")>>),
    Piece(<<"1", ".", "0", "x", ";">>, <<Literal, Punct(";")>>),
    Piece(<<"/", "/", "{", NL>>, << >>)}

KotlinPieces == {
    Piece(<<"/", "*", "/", "*", "{", "*", "/", Quote, "*", "/">>, << >>),
    Piece(<<Quote, "$", "{", Quote, "}", Quote, "}", "{", Quote>>, <<Text(<<"$", "{", Quote, "}", Quote, "}", "{">>)>>),
    Piece(<<Quote, Quote, Quote, "{", Quote, "x", Quote, "$", "{", "'", "}", "'", "}", Quote, Quote, Quote, Quote>>, <<Text(<<"{", Quote, "x", Quote, "$", "{", "'", "}", "'", "}", Quote>>)>>),
    Piece(<<Backquote, "fn", " ", "{", Backquote>>, <<<<"quoted", <<"fn", " ", "{">>>>>>),
    Piece(<<"'", Quote, "'">>, <<Literal>>),
    Piece(<<"1", ".", "0", "e", "-", "1">>, <<Literal>>),
    Piece(<<"1", ".", "x">>, <<Literal, Punct("."), Ident(<<"x">>)>>),
    Piece(<<Quote, Backslash, "$", "{", Quote>>, <<Text(<<Backslash, "$", "{">>)>>),
    Piece(<<Quote, "{", NL>>, <<Text(<<"{">>)>>),
    Piece(<<"{", "x", "}">>, <<Open("{"), Ident(<<"x">>), Close("{")>>),
    Piece(<<Quote, "$", "{", "/", "*", "}", "*", "/", Quote, "$", "{", "x", "}", Quote, "}", Quote>>, <<Text(<<"$", "{", "/", "*", "}", "*", "/", Quote, "$", "{", "x", "}", Quote, "}">>)>>)}

TypeScriptPieces == {
    Piece(<<"return", " ", "/", "[", "/", "{", "]", Quote, "/", "x">>, <<Ident(<<"return">>), Literal>>),
    Piece(<<"x", "/", "1", "/", "x">>, <<Ident(<<"x">>), Punct("/"), Literal, Punct("/"), Ident(<<"x">>)>>),
    Piece(<<Backquote, "$", "{", "{", Backquote, "$", "{", Quote, "}", Quote, "}", Backquote, "}", "}", "{", Backquote>>, <<Text(<<"$", "{", "{", Backquote, "$", "{", Quote, "}", Quote, "}", Backquote, "}", "}", "{">>)>>),
    Piece(<<"'", Backslash, "'", "{", "'">>, <<Text(<<"'", "{">>)>>),
    Piece(<<"#", "x">>, <<Ident(<<"#", "x">>)>>),
    Piece(<<"x", "$">>, <<Ident(<<"x", "$">>)>>),
    Piece(<<"/", "*", "{", "*", "/">>, << >>),
    Piece(<<"{", "x", "}">>, <<Open("{"), Ident(<<"x">>), Close("{")>>),
    Piece(<<"(", "x", ")", "/", "1">>, <<Open("("), Ident(<<"x">>), Close("("), Punct("/"), Literal>>),
    Piece(<<Quote, "{", NL>>, <<Text(<<"{">>)>>),
    Piece(<<"=", "/", Backslash, "/", Quote, "/">>, <<Punct("="), Literal>>)}

PythonPieces == {
    Piece(<<Quote, "{", "x", "[", Quote, "}", Quote, "]", "}", Quote, NL>>, <<Text(<<"{", "x", "[", Quote, "}", Quote, "]", "}">>), Newline>>),
    Piece(<<Quote, Quote, Quote, NL, Quote, "#", "{", "{", Quote, Quote, Quote, NL>>, <<Text(<<NL, Quote, "#", "{", "{">>), Newline>>),
    Piece(<<"x", "(", NL, " ", " ", "x", NL, ")", NL>>, <<Ident(<<"x">>), Open("("), Ident(<<"x">>), Close("("), Newline>>),
    Piece(<<" ", "#", "{", NL>>, << >>),
    Piece(<<" ", " ", NL>>, << >>),
    Piece(<<"x", ":", NL, " ", "x", NL, " ", " ", "#", NL, NL, " ", "x", NL>>, <<Ident(<<"x">>), Punct(":"), Newline, Indent, Ident(<<"x">>), Newline, Ident(<<"x">>), Newline, Dedent>>),
    Piece(<<"x", ":", NL, "\t", "x", ":", NL, "\t", " ", "x", NL>>, <<Ident(<<"x">>), Punct(":"), Newline, Indent, Ident(<<"x">>), Punct(":"), Newline, Indent, Ident(<<"x">>), Newline, Dedent, Dedent>>),
    Piece(<<"r", "b", "'", Backslash, "'", "{", "{", "'", NL>>, <<Text(<<"'", "{", "{">>), Newline>>),
    Piece(<<"x", "=", Backslash, NL, " ", "1", NL>>, <<Ident(<<"x">>), Punct("="), Literal, Newline>>),
    Piece(<<"'", "x", NL>>, <<Text(<<"x">>), Newline>>)}

Pieces == [rust |-> RustPieces, c |-> CPieces, go |-> GoPieces, java |-> JavaPieces,
           kotlin |-> KotlinPieces, typescript |-> TypeScriptPieces, python |-> PythonPieces]

\* What stands between two pieces: a directive of C begins a line, and so does everything in Python.
Between == [language \in DOMAIN Pieces |->
              CASE language = "c" -> <<NL>> [] language = "python" -> << >> [] OTHER -> <<" ">>]

PieceSamples == UNION {{<<language, <<first, second>>>> : first \in Pieces[language], second \in Pieces[language]} :
                        language \in DOMAIN Pieces}

TokensOf(pieces) == FlattenSeq([k \in DOMAIN pieces |-> pieces[k].tokens])
Joined(language, pieces) == FlattenSeq([k \in DOMAIN pieces |-> pieces[k].text \o Between[language]])

\* The tokens of the whole, and of what there is while the last piece is still being written.
PieceOutcome(sample) ==
  LET finished == Joined(sample[1], Front(sample[2]))
      last == Last(sample[2]).text IN
  [whole |-> tokenize(sample[1], Joined(sample[1], sample[2])),
   unfinished |-> {tokenize(sample[1], finished \o SubSeq(last, 1, n)) : n \in 0..Len(last) - 1}]

CutAsWritten(sample, outcome) ==
  /\ outcome.whole = TokensOf(sample[2])
  /\ \A tokens \in {outcome.whole} \cup outcome.unfinished :
       /\ \A k \in DOMAIN tokens : tokens[k][1] \in Kinds[sample[1]]
       /\ IsPrefix(TokensOf(Front(sample[2])), tokens)

(* Items of Rust, alone and inside what holds items. *)

Leaf(text, items, imports) == [text |-> text, items |-> items, imports |-> imports]
Call(name, qualifier, is_method) == [name |-> name, qualifier |-> qualifier, is_method |-> is_method]
Import(path, alias) == [path |-> path, alias |-> alias]

RustLeaves == {
    Leaf(<<"pub", "(", "crate", ")", " ", "fn", " ", "f", "<", "T", ":", "x", "<", "y", ">", ">", "(", "a", ":", "&", "'", "t", "[", "y", "]", ")", "-", ">", "x", " ", "where", " ", "T", ":", "y", "{", "a", "<", "b", ";", "g", "(", Quote, "}", Quote, ")", ";", "h", ":", ":", "<", "x", "<", "y", ">", ">", ":", ":", "i", "(", "x", ")", ";", "x", ".", "j", "(", ")", ";", "m", "!", "(", "n", "(", ")", ")", ";", "S", "e", "l", "f", "{", "x", "}", ";", "}">>,
         <<[NewItem("function", <<"f">>) EXCEPT !.references = <<Call(<<"g">>, <<>>, FALSE), Call(<<"i">>, <<<<"h">>>>, FALSE), Call(<<"j">>, <<>>, TRUE)>>]>>, <<>>),
    Leaf(<<"unsafe", " ", "extern", Quote, "x", Quote, " ", "fn", " ", "f", "(", "x", ":", "[", "y", ";", "1", "]", ")", "-", ">", "[", "y", ";", "1", "]", ";">>,
         <<NewItem("function", <<"f">>)>>, <<>>),
    Leaf(<<"const", " ", "X", ":", "[", "x", ";", "1", "]", "=", "[", "1", "]", ";">>,
         <<NewItem("constant", <<"X">>)>>, <<>>),
    Leaf(<<"static", " ", "mut", " ", "X", ":", "x", "=", "1", ";">>,
         <<NewItem("constant", <<"X">>)>>, <<>>),
    Leaf(<<"type", " ", "X", "<", "T", ">", "=", "(", "x", ")", ";">>,
         <<NewItem("type", <<"X">>)>>, <<>>),
    Leaf(<<"struct", " ", "X", "<", "T", ">", "where", " ", "T", ":", "x", "{", "a", ":", "x", "<", "y", ",", "z", ">", ",", "#", "[", "x", "]", "pub", " ", "b", ":", "(", "x", ",", "y", ")", "}">>,
         <<[NewItem("struct", <<"X">>) EXCEPT !.children = <<NewItem("field", <<"a">>), NewItem("field", <<"b">>)>>]>>, <<>>),
    Leaf(<<"struct", " ", "X", "(", "x", ",", "y", ")", ";">>,
         <<NewItem("struct", <<"X">>)>>, <<>>),
    Leaf(<<"enum", " ", "X", "{", "A", ",", "#", "[", "x", "]", "B", "{", "c", ":", "x", "}", ",", "D", "(", "x", ")", "=", "1", ",", "}">>,
         <<[NewItem("enum", <<"X">>) EXCEPT !.children = <<NewItem("field", <<"A">>), [NewItem("field", <<"B">>) EXCEPT !.children = <<NewItem("field", <<"c">>)>>], NewItem("field", <<"D">>)>>]>>, <<>>),
    Leaf(<<"union", " ", "X", "{", "a", ":", "fn", "(", "x", ")", "-", ">", "y", ",", "b", ":", "x", "}">>,
         <<[NewItem("union", <<"X">>) EXCEPT !.children = <<NewItem("field", <<"a">>), NewItem("field", <<"b">>)>>]>>, <<>>),
    Leaf(<<"macro_rules", "!", " ", "x", "{", "fn", " ", "f", "(", ")", "{", "}", "}">>,
         <<>>, <<>>),
    Leaf(<<"#", "[", "x", "(", "fn", " ", "f", "(", ")", "{", "}", ")", "]", "const", " ", "fn", " ", "g", "(", ")", "{", "x", ";", "}">>,
         <<NewItem("function", <<"g">>)>>, <<>>),
    Leaf(<<"use", " ", "a", ":", ":", "{", "b", " ", "as", " ", "c", ",", "d", "}", ";">>,
         <<>>, <<Import(<<<<"a">>, <<"b">>>>, <<<<"c">>>>), Import(<<<<"a">>, <<"d">>>>, << >>)>>),
    Leaf(<<"use", " ", "a", ":", ":", "b", ";", "use", " ", "c", ":", ":", "*", ";", "use", " ", "d", " ", "as", " ", "e", ";">>,
         <<>>, <<Import(<<<<"a">>, <<"b">>>>, << >>), Import(<<<<"c">>, <<"*">>>>, << >>), Import(<<<<"d">>>>, <<<<"e">>>>)>>),
    Leaf(<<"x", " ", "y", "{", "fn", " ", "f", "(", ")", "{", "}", "}">>,
         <<>>, <<>>),
    Leaf(<<"mod", " ", "m", ";">>,
         <<NewItem("module", <<"m">>)>>, <<>>)}

RustHolders == {
    [opening |-> <<"pub", " ", "mod", " ", "m", "{">>,
     item |-> NewItem("module", <<"m">>)],
    [opening |-> <<"impl", "<", "T", ":", "x", ">", "x", ":", ":", "X", "<", "T", ">", "for", "&", "'", "t", " ", "y", ":", ":", "Y", "<", "T", ">", "where", " ", "T", ":", "x", "{">>,
     item |-> [NewItem("impl", <<"Y">>) EXCEPT !.target = <<<<"Y">>>>, !.implements = <<<<"X">>>>]],
    [opening |-> <<"impl", " ", "X", "{">>,
     item |-> [NewItem("impl", <<"X">>) EXCEPT !.target = <<<<"X">>>>]],
    [opening |-> <<"trait", " ", "X", "<", "T", ">", ":", "y", "+", "z", " ", "where", " ", "T", ":", "x", "{">>,
     item |-> NewItem("trait", <<"X">>)]}

\* A function in an implementation or a trait is a method of it.
Belonging(item, kind) ==
  IF item.kind = "function" /\ kind \in {"impl", "trait"} THEN [item EXCEPT !.kind = "method"] ELSE item
Held(holder, leaf) ==
  Leaf(holder.opening \o leaf.text \o <<"}">>,
       <<[holder.item EXCEPT !.children = [k \in DOMAIN leaf.items |-> Belonging(leaf.items[k], holder.item.kind)]]>>,
       leaf.imports)
HeldSamples == {Held(holder, leaf) : holder \in RustHolders, leaf \in RustLeaves}
ItemSamples ==
  {<<first, second>> : first \in HeldSamples, second \in RustLeaves}
  \cup {<<Held(holder, held)>> : holder \in RustHolders, held \in HeldSamples}

FoundAsWritten(sample, outcome) ==
  /\ outcome.items = FlattenSeq([k \in DOMAIN sample |-> sample[k].items])
  /\ outcome.imports = FlattenSeq([k \in DOMAIN sample |-> sample[k].imports])

ItemOutcome(sample) == analyze(FlattenSeq([k \in DOMAIN sample |-> sample[k].text]))

=============================================================================
