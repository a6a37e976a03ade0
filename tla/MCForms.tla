------------------------------- MODULE MCForms -------------------------------
(***************************************************************************)
(* What the code reads, writes and derives, tried on samples: each         *)
(* behaviour takes one sample, lets the code work on it, and rests.        *)
(***************************************************************************)
EXTENDS StoredForms, WorkForms

VARIABLES sample, outcome
vars == <<sample, outcome>>

TheUnits == <<"u1", "u2", "u3", "u4">>
TheAnalyzerOwners == {"a"}

\* The alphabet of the sources: single letters, and words that stand as one letter each.
TheLetters == {
  "a", "b", "c", "d", "e", "f", "g", "h", "i", "j", "l", "m", "n", "r", "s", "t", "u", "x", "y", "z",
  "A", "B", "D", "L", "R", "S", "T", "U", "X", "Y",
  "return", "if", "fn", "pub", "crate", "mod", "struct", "union", "enum", "trait", "impl", "for", "type",
  "const", "static", "mut", "use", "as", "where", "unsafe", "extern", "macro_rules", "include", "Self"}
Source == INSTANCE SourceForms WITH
  Letter <- TheLetters, Digit <- {"0", "1", "8"}, GoKeyword <- {"if", "return", "fn"}

Pending == <<"pending">>
Chosen(kind, samples) == \E one \in samples : sample = <<kind, one>>

Init ==
  /\ \/ Chosen("text", TextSamples)
     \/ Chosen("graph", GraphSamples)
     \/ Chosen("tree", TreeSamples)
     \/ Chosen("stored", StoredSamples)
     \/ Chosen("damaged", DamagedFiles)
     \/ Chosen("value", ValueSamples)
     \/ Chosen("payload", PayloadSamples)
     \/ Chosen("pattern", PatternSamples)
     \/ Chosen("name", NameSamples)
     \/ Chosen("scan", ScanSamples)
     \/ Chosen("document", DocumentSamples)
     \/ Chosen("plan", PlanSamples)
     \/ Chosen("packet", PacketSamples)
     \/ Chosen("pieces", Source!PieceSamples)
     \/ Chosen("items", Source!ItemSamples)
  /\ outcome = Pending

Works(kind, result) ==
  sample[1] = kind /\ outcome = Pending /\ outcome' = <<"done", result>> /\ UNCHANGED sample

FormatText == Works("text", TextOutcome(sample[2]))
ReadGraph == Works("graph", GraphOutcome(sample[2]))
AdoptTree == Works("tree", TreeOutcome(sample[2]))
StoreGraph == Works("stored", StoredOutcome(sample[2]))
OpenDamaged == Works("damaged", parse_container(sample[2]))
ReadValue == Works("value", ValueOutcome(sample[2]))
DecodePayload == Works("payload", decode_graph(sample[2]))
MatchPattern == Works("pattern", PatternOutcome(sample[2]))
ExcludeName == Works("name", NameOutcome(sample[2]))
ScanTree == Works("scan", scan(sample[2][1], sample[2][2]))
ReadDocument == Works("document", parse_document(<<sample[2][3]>>))
PlanBuild == Works("plan", PlanOutcome(sample[2][1], sample[2][2]))
BuildPacket == Works("packet", PacketOutcome(sample[2]))
CutPieces == Works("pieces", Source!PieceOutcome(sample[2]))
FindItems == Works("items", Source!ItemOutcome(sample[2]))
Rest == outcome # Pending /\ UNCHANGED vars

Next ==
  \/ FormatText \/ ReadGraph \/ AdoptTree
  \/ StoreGraph \/ OpenDamaged \/ DecodePayload \/ ReadValue
  \/ MatchPattern \/ ExcludeName \/ ScanTree
  \/ ReadDocument \/ PlanBuild \/ BuildPacket
  \/ CutPieces \/ FindItems
  \/ Rest
Spec == Init /\ [][Next]_vars

Done(kind) == sample[1] = kind /\ outcome # Pending

\* Formatting keeps every comment of a document, once; and formatting again changes nothing of a
\* document that has no block with one comment and nothing else.  For those see FormattingSettles.
FormattingKeeps ==
  Done("text") => /\ CommentsKept(sample[2], outcome[2])
                  /\ HoldsOneComment(sample[2]) \/ TextSettles(outcome[2])

\* "Formatting the result reproduces it byte for byte" (format.rs), of every document.
FormattingSettles == Done("text") => TextSettles(outcome[2])

\* A graph that is exported and adopted, or stored and opened again, is the graph it was.  A value
\* that is written as a text is read back as it was, and what is no value is refused.
GraphSurvives ==
  /\ Done("graph") => TextIsGraph(sample[2], outcome[2])
  /\ Done("stored") => ReadsAsStored(sample[2], outcome[2])
  /\ Done("value") => ValueIsRead(sample[2], outcome[2])

\* Whatever is in a document that is adopted, or in a payload of another writer that is decoded, the
\* graph that comes of it keeps its identifiers, its edges, its nesting and its evidence in order.  A
\* file that is short or differs in one place is refused, or all its payloads are unharmed.
ReadIsSound ==
  /\ Done("tree") => GraphIsSound(sample[2], outcome[2])
  /\ Done("payload") => DecodesValid(outcome[2])
  /\ Done("damaged") => RefusedOrUnharmed(outcome[2])

\* What a rule excludes for Git it excludes here, and an escaped name is excluded alone.  A scan
\* finds the files no rule excludes, and answers for every other entry it reaches, once, but for
\* those it overlooks: names that are not text, and sockets and the like.  For those see
\* NothingIsDropped.
ScanFollowsTheRules ==
  /\ Done("pattern") => CoversGit(sample[2], outcome[2])
  /\ Done("name") => outcome[2] = {sample[2]}
  /\ Done("scan") =>
       /\ ScansTheEligible(sample[2][1], sample[2][2], outcome[2])
       /\ AnswersOthersOnce(sample[2][1], sample[2][2], outcome[2])
       /\ NothingElse(sample[2][1], sample[2][2], outcome[2])

\* "Nothing is dropped silently" (scan.rs): a scan answers for every entry it reaches.
NothingIsDropped == Done("scan") => AnswersEachOnce(sample[2][1], sample[2][2], outcome[2])

\* A change document is taken if its batch is in order, and a wrong member of it is told.
DocumentsAreJudged == Done("document") => JudgedRightly(sample[2], outcome[2])

\* A plan within its budget is for a run that stays within it, and counts every file as what it is.
\* A packet of that run depends on its unit and what that is joined to, and on nothing else.
WorkStaysAsPlanned ==
  /\ Done("plan") => AnswersForTheRun(sample[2][1], sample[2][2], outcome[2])
  /\ Done("packet") => IsLocalAndBounded(sample[2], outcome[2])

\* A source is cut where its language says, whatever stands in its comments and literals, also while
\* its last piece is unfinished; and the analyzer of Rust finds what is declared, where it is held.
SourceIsRead ==
  /\ Done("pieces") => Source!CutAsWritten(sample[2], outcome[2])
  /\ Done("items") => Source!FoundAsWritten(sample[2], outcome[2])

=============================================================================
