----------------------------- MODULE WorkForms ------------------------------
(***************************************************************************)
(* The patterns, trees, change documents, plans and packets the runs try,  *)
(* what the code makes of each, and what has to hold of that.              *)
(***************************************************************************)
EXTENDS ChangeDocument, Planning, TLC

TheCharacters == <<" ", "!", "#", "*", ".", "/", "?", "B", "[", "\\", "]", "a", "b", "c", "d", "g",
  "i", "k", "l", "n", "o", "p", "t", "u", "w", "x">>
TheLower == "B" :> "b"
TheLanguages == <<"c">> :> "c" @@ <<"b">> :> "batch"
TheNamedFiles == <<"d">> :> "docker"
ThePruned == {<<"n">>, GitName}
TheSensitiveNames == {<<".", "b">>}
TheSensitiveStarts == {<<".", "b", ".">>}
TheSensitiveExtensions == {<<"k">>}
TheGitIgnore == <<".", "g">>
TheNostdbIgnore == <<".", "n">>
TheNotText == {<<"w">>}

Short(characters, longest) == UNION {[1..n -> characters] : n \in 1..longest}

-----------------------------------------------------------------------------
(* Patterns                                                                 *)

IsPath(text) ==
  /\ Head(text) # "/" /\ Last(text) # "/"
  /\ \A i \in 2..Len(text) : text[i] = "/" => text[i - 1] # "/"
PathsTried == {text \in Short({"a", "b", "/"}, 4) : IsPath(text)}

ClassPatterns ==
  {<<"[", "a", "]">>, <<"[", "!", "a", "]">>, <<"[", "a", "-", "c", "]">>, <<"[", "a", "-", "]">>,
   <<"[", "]", "b", "]">>, <<"a", "[", "^", "b", "]">>, <<"[", "a">>, <<"*", "[", "b", "]">>,
   <<"\\", "a">>, <<"a", "\\">>, <<"\\", "*">>, <<"a", "/", "*", "*", "/", "b">>,
   <<"*", "*", "/", "a", "/", "*">>}
ThreeStars(text) == \E i \in 3..Len(text) : UpTo(From(text, i - 2), 3) = <<"*", "*", "*">>
PatternSamples == {text \in Short({"*", "?", "/", "a"}, 4) : ~ThreeStars(text)} \union ClassPatterns
PatternOutcome(pattern) == {path \in PathsTried : glob(pattern, path)}

\* What Git means by the parts of a pattern: what each may stand for.
Whole(segment) == segment = << >> \/ Last(segment) = "/"
Within(segment) == \A i \in DOMAIN segment : segment[i] # "/"
IsOne(segment, characters) == Len(segment) = 1 /\ segment[1] \in characters
TheName == ToSet(TheCharacters) \ {"/"}

ClassMeans(class, segment) ==
  IF class.negated THEN IsOne(segment, TheName \ class.accepted)
  ELSE IsOne(segment, TheName \intersect class.accepted)

\* `**` is its own only between separators or the ends; elsewhere it is `*`.
Between(before, after) ==
  (before = << >> \/ Last(before) = "/") /\ (after = << >> \/ Head(after) = "/")

RECURSIVE Means(_, _, _)
Standing(before, width, after, path, Of(_)) ==
  \E at \in 0..Len(path) : Of(UpTo(path, at)) /\ Means(before \o width, after, From(path, at + 1))

ClassStands(before, after, class, path) ==
  /\ class # << >>
  /\ Standing(before, UpTo(after, class[1].after - 1), From(after, class[1].after), path,
       LAMBDA segment : ClassMeans(class[1], segment))

Means(before, after, path) ==
  CASE after = << >> -> path = << >>
    [] StartsWith(after, <<"*", "*", "/">>) /\ Between(before, From(after, 3)) ->
         Standing(before, <<"*", "*", "/">>, From(after, 4), path, Whole)
    [] after = <<"*", "*">> /\ Between(before, << >>) -> path # << >>
    [] StartsWith(after, <<"*">>) /\ ~(StartsWith(after, <<"*", "*">>) /\ Between(before, From(after, 3))) ->
         Standing(before, <<"*">>, Tail(after), path, Within)
    [] StartsWith(after, <<"?">>) ->
         Standing(before, <<"?">>, Tail(after), path, LAMBDA segment : IsOne(segment, TheName))
    [] StartsWith(after, <<"[">>) -> ClassStands(before, after, character_class(after), path)
    [] StartsWith(after, <<"\\">>) ->
         Len(after) > 1 /\ Standing(before, UpTo(after, 2), From(after, 3), path,
                             LAMBDA segment : IsOne(segment, {after[2]}))
    [] OTHER -> Standing(before, UpTo(after, 1), Tail(after), path,
                  LAMBDA segment : IsOne(segment, {after[1]}))

PlainPattern(pattern) ==
  /\ \A i \in 2..Len(pattern) : pattern[i] = "*" => pattern[i - 1] # "*"
  /\ \A i \in DOMAIN pattern : pattern[i] \notin {"[", "\\"}

\* Every path Git matches is matched, and no other by a pattern of `*`, `?` and characters.
CoversGit(pattern, matched) ==
  \A path \in PathsTried :
    /\ Means(<< >>, pattern, path) => path \in matched
    /\ PlainPattern(pattern) /\ path \in matched => Means(<< >>, pattern, path)

-----------------------------------------------------------------------------
(* Names                                                                    *)

NameCharacters == {"a", " ", "#", "*", "?", "[", "\\", "!"}
NameSamples == {name \in Short(NameCharacters, 3) : Head(name) # "!"}

Escaped(name) ==
  InTurn(name, LAMBDA character : IF character = "a" THEN <<character>> ELSE <<"\\", character>>)
Siblings(name) ==
  {name, UpTo(name, Len(name) - 1), Tail(name), name \o <<"a">>, <<"a">> \o name,
   [name EXCEPT ![1] = "b"], [name EXCEPT ![Len(name)] = "b"]} \ {<< >>}
NameOutcome(name) ==
  {other \in Siblings(name) : excludes(<<parse_file(<<Escaped(name)>>, << >>)>>, other, FALSE)}

-----------------------------------------------------------------------------
(* Trees                                                                    *)

Plainly(lines) == <<"file", 1, TRUE, FALSE, lines>>
Directory(entries) == <<"directory", TRUE, TRUE, entries>>
FileNamed(first) == <<first, ".", "c">>

GitLines == {<< >>, <<<<"*", ".", "c">>>>, <<<<"*">>, <<"!", "a", "/">>, <<"!", "b", ".", "c">>>>,
             <<<<"a", "/", "d">>, <<"#", "b">>>>}
InnerLines == {<< >>, <<<<"!", "*", ".", "c">>>>, <<<<"d", "/">>, <<"!", "d", "/">>>>,
               <<<<"/", "c", ".", "c", " ">>, <<"d", "/", "x", "*">>>>}
OwnLines == {<< >>, <<<<"!", "b", ".", "c">>>>, <<<<"*", "*", "/", "x", "*">>, <<"l">>>>}
LinkTargets == {<<"link", "a">>, <<"link", "d">>, <<"link", "root">>, <<"link", "b">>, <<"link", "n">>,
                <<"link", "p">>, <<"nowhere">>}

TreeOf(outer, inner, own, link, shut) ==
  "root" :> Directory(<<<<TheGitIgnore, "g">>, <<TheNostdbIgnore, "own">>, <<<<"a">>, "a">>,
              <<FileNamed("b"), "b">>, <<<<"l">>, "l">>, <<<<"n">>, "n">>, <<<<"w">>, "b">>>>)
  @@ "g" :> Plainly(outer) @@ "own" :> Plainly(own)
  @@ "a" :> Directory(<<<<TheGitIgnore, "h">>, <<FileNamed("c"), "c">>, <<<<"d">>, "d">>,
              <<<<"i">>, "i">>, <<<<"p">>, "p">>, <<<<"t", ".", "k">>, "c">>, <<<<"u">>, "l">>>>)
  @@ "h" :> Plainly(inner)
  @@ "d" :> <<"directory", shut # "unlisted", shut # "unresolved",
              <<<<GitName, "b">>, <<<<".", "B", ".", "a">>, "b">>, <<<<"b", ".", "B">>, "b">>, <<<<"d">>, "b">>,
                <<<<"o">>, "o">>, <<<<"t">>, "t">>, <<<<"u">>, "u">>, <<FileNamed("x"), "b">>>>>>
  @@ "b" :> Plainly(<< >>) @@ "c" :> Plainly(<< >>)
  @@ "n" :> Directory(<<<<FileNamed("c"), "c">>>>)
  @@ "i" :> <<"file", 1, TRUE, TRUE, << >>>> @@ "t" :> <<"file", 2, TRUE, FALSE, << >>>>
  @@ "u" :> <<"file", 1, FALSE, FALSE, << >>>> @@ "o" :> <<"gone">> @@ "p" :> <<"special">>
  @@ "l" :> link

Options(follow, git) == [max_file_bytes |-> 1, follow_symlinks |-> follow, use_git_ignore |-> git]
ScanSamples ==
  {<<TreeOf(outer, inner, own, <<"link", "d">>, "open"), Options(FALSE, git)>> :
     outer \in GitLines, inner \in InnerLines, own \in OwnLines, git \in BOOLEAN}
  \union {<<TreeOf(<< >>, inner, own, link, shut), Options(TRUE, TRUE)>> :
     inner \in InnerLines, own \in OwnLines, link \in LinkTargets, shut \in {"open", "unlisted", "unresolved"}}

\* All the ways down, as the entries on each, no directory entered twice on one and
\* none whose name cannot be written in a path.
IsDirectory(tree, options, inode) ==
  IF tree[inode][1] = "link" THEN options.follow_symlinks /\ Contents(tree, inode)[1] = "directory"
  ELSE tree[inode][1] = "directory"

RECURSIVE Ways(_, _, _, _, _)
Ways(tree, options, inode, way, seen) ==
  UNION {{Append(way, one)} \union
         (IF /\ one[1] \notin NotText
             /\ IsDirectory(tree, options, one[2])
             /\ RealInode(tree, one[2]) \notin seen
             /\ Listed(tree, one[2]) /\ (options.follow_symlinks => Resolved(tree, one[2]))
          THEN Ways(tree, options, one[2], Append(way, one), seen \union {RealInode(tree, one[2])}) ELSE {}) :
         one \in ToSet(Entries(tree, inode))}

RECURSIVE PathOf(_)
PathOf(way) == IF Len(way) = 1 THEN way[1][1] ELSE PathOf(Front(way)) \o <<"/">> \o Last(way)[1]

InodeAt(way, depth) == IF depth = 0 THEN "root" ELSE way[depth][2]

\* The lines that match the end of a way, as <<depth of the file, number of the line, negated>>.
Matching(tree, name, way, is_dir) ==
  UNION {{<<depth, line, rule.negated>> :
            rule \in {r \in ToSet(parse_rule(lines[line])) : rule_matches(r, PathOf(From(way, depth + 1)), is_dir)}} :
         <<depth, lines, line>> \in
           UNION {{<<depth, lines, line>> : line \in DOMAIN lines} :
                  <<depth, lines>> \in UNION {{depth} \X ToSet(read_to_string(tree, InodeAt(way, depth), name)) :
                                              depth \in 0..(Len(way) - 1)}}}
Later(one, other) == one[1] > other[1] \/ (one[1] = other[1] /\ one[2] >= other[2])
Decided(matching) == \E one \in matching : ~one[3] /\ \A other \in matching : Later(one, other)

Ignored(tree, options, way, is_dir) ==
  \/ options.use_git_ignore /\ Decided(Matching(tree, TheGitIgnore, way, is_dir))
  \/ Decided(Matching(tree, TheNostdbIgnore, way, is_dir))

IsEntered(tree, options, way) ==
  Last(way)[1] \notin PRUNED_DIRECTORIES /\ ~Ignored(tree, options, way, TRUE)
IsReached(tree, options, way) == \A n \in 1..(Len(way) - 1) : IsEntered(tree, options, UpTo(way, n))

MayBeAnalyzed(tree, options, way) ==
  /\ ~Ignored(tree, options, way, FALSE) /\ ~is_sensitive(PathOf(way))
  /\ Contents(tree, Last(way)[2])[2] <= options.max_file_bytes
  /\ Contents(tree, Last(way)[2])[3] /\ ~Contents(tree, Last(way)[2])[4]
IsFile(tree, options, way) ==
  /\ Contents(tree, Last(way)[2])[1] = "file"
  /\ IF tree[Last(way)[2]][1] = "link" THEN options.follow_symlinks ELSE Last(way)[1] # GitName

Reached(tree, options) ==
  {way \in Ways(tree, options, "root", << >>, {"root"}) : IsReached(tree, options, way)}

TimesAnswered(answers, path) == Cardinality({i \in DOMAIN answers : answers[i] = path})
Paths(files) == Each(files, LAMBDA file : file.path)
SkippedPaths(skipped) == Each(skipped, LAMBDA one : one[1])

\* What is scanned are the files that may be analyzed.
IsEligible(tree, options, way) ==
  Last(way)[1] \notin NotText /\ IsFile(tree, options, way) /\ MayBeAnalyzed(tree, options, way)

ScansTheEligible(tree, options, found) ==
  \A way \in Reached(tree, options) :
    TimesAnswered(Paths(found[2]), PathOf(way)) = (IF IsEligible(tree, options, way) THEN 1 ELSE 0)

\* What the scan neither offers for analysis nor goes into.
IsLeftOut(tree, options, way) ==
  CASE Last(way)[1] \in NotText -> TRUE
    [] IsDirectory(tree, options, Last(way)[2]) ->
         \/ ~IsEntered(tree, options, way)
         \/ ~Listed(tree, Last(way)[2]) \/ (options.follow_symlinks /\ ~Resolved(tree, Last(way)[2]))
         \/ RealInode(tree, Last(way)[2]) \in {"root"} \union {RealInode(tree, way[n][2]) : n \in 1..(Len(way) - 1)}
    [] OTHER -> ~IsEligible(tree, options, way)

TimesSkipped(found, way) == TimesAnswered(SkippedPaths(found[3]), PathOf(way))

\* Every exclusion is recorded, once.
AnswersEachOnce(tree, options, found) ==
  \A way \in Reached(tree, options) :
    TimesSkipped(found, way) = (IF IsLeftOut(tree, options, way) THEN 1 ELSE 0)

\* What the scan passes over in silence: a name that is not text, and what is neither
\* a file nor a directory nor a link.
IsOverlooked(tree, way) == Last(way)[1] \in NotText \/ tree[Last(way)[2]][1] = "special"

\* Every exclusion but of those is recorded, once, and of those none.
AnswersOthersOnce(tree, options, found) ==
  \A way \in Reached(tree, options) :
    TimesSkipped(found, way) =
      (IF IsLeftOut(tree, options, way) /\ ~IsOverlooked(tree, way) THEN 1 ELSE 0)

NothingElse(tree, options, found) ==
  ToSet(Paths(found[2])) \union ToSet(SkippedPaths(found[3]))
    \subseteq {PathOf(way) : way \in Reached(tree, options)}

-----------------------------------------------------------------------------
(* Documents                                                                *)

String(text) == <<"string", text>>
Object(members) == <<"object", members>>
Array(values) == <<"array", values>>

EvidenceObject ==
  Object("source" :> String("a") @@ "content_digest" :> String("digest") @@ "producer" :> String("p")
         @@ "producer_version" :> String("k") @@ "method" :> String("ai_inferred")
         @@ "range" :> String("1") @@ "confidence" :> String("inferred(0.5)"))
Behind(evidence) == "source_unit" :> String("u1") @@ "evidence" :> Array(evidence)
Doing(does, members) == Object("operation" :> String(does) @@ members)

NodeDoing(evidence) ==
  Doing("upsert_node", Behind(evidence) @@ "labels" :> Array(<<String("L"), String("M")>>) @@ "id" :> String("n1")
                       @@ "properties" :> Object("k" :> <<"whole", 1>>))
EdgeDoing(evidence) ==
  Doing("upsert_edge", Behind(evidence) @@ "relation" :> String("R") @@ "id" :> String("e1")
                       @@ "source" :> Object("local" :> String("n1"))
                       @@ "target" :> Object("local" :> String("n2") @@ "source" :> String("a")))
Resolving(outcome, evidence) ==
  Doing("resolve_placeholder", Behind(evidence) @@ "placeholder" :> String("n1") @@ "outcome" :> Object(outcome))
Removing == Doing("remove_contribution", "source_unit" :> String("u1"))
Linking == Doing("upsert_link", "source" :> String("a") @@ "alias" :> String("y"))
Unlinking(source) == Doing("remove_link", "source" :> String(source))

OperationsTried(evidence) ==
  {NodeDoing(evidence), EdgeDoing(evidence), Removing, Linking, Unlinking("a"), Unlinking("b"),
   Doing("upsert_node", Behind(evidence) @@ "labels" :> Array(<< >>)),
   Doing("upsert_node", Behind(evidence) @@ "labels" :> Array(<<String("L"), String("L")>>) @@ "id" :> <<"null">>),
   Doing("upsert_link", "source" :> String("b") @@ "alias" :> String("y")),
   Resolving("preserved" :> <<"boolean", TRUE>>, evidence), Resolving("replacement" :> String("n2"), evidence),
   Resolving("replacement" :> String("n1"), evidence)}

DocumentOf(owner, operations) ==
  Object("change_set_version" :> <<"whole", 1>> @@ "base_generation" :> <<"whole", 3>> @@ "owner" :> String(owner)
         @@ "source_snapshot" :> String("x") @@ "operations" :> Array(operations))

SoundDocuments ==
  {DocumentOf(owner, operations) :
     owner \in {"user", "ai:x"},
     operations \in UNION {{<< >>, <<one>>, <<one, other>>} :
                           one \in OperationsTried(<<EvidenceObject>>) \union OperationsTried(<< >>),
                           other \in OperationsTried(<<EvidenceObject>>)}}

\* An object with one member gone or wrong.
Wrongs == {<<"whole", 1>>, <<"string", "not a name">>, <<"array", <<<<"null">>>>>>}
WithoutMember(object, key) == Object([other \in DOMAIN object[2] \ {key} |-> object[2][other]])
WithMember(object, key, value) == Object([object[2] EXCEPT ![key] = value])
Spoilt(object, key, absentToo) ==
  {WithMember(object, key, wrong) : wrong \in Wrongs}
  \union (IF absentToo THEN {WithoutMember(object, key)} ELSE {})

Needed == {"operation", "labels", "source_unit", "evidence", "source", "target", "relation", "placeholder", "outcome",
           "content_digest", "producer", "producer_version", "method"}
Takes(key, value) == key \in {"producer", "producer_version", "source"} /\ value = <<"string", "not a name">>
SpoiltMembers(object) ==
  UNION {{<<key, spoilt>> : spoilt \in {one \in Spoilt(object, key, key \in Needed) :
                                          ~(key \in DOMAIN one[2] /\ Takes(key, one[2][key]))}} :
         key \in DOMAIN object[2]}

WholeNode == NodeDoing(<<EvidenceObject>>)
SpoiltOperations ==
  UNION {SpoiltMembers(operation) :
           operation \in {WholeNode, EdgeDoing(<<EvidenceObject>>), Removing, Linking, Unlinking("a"),
                          Resolving("replacement" :> String("n2"), <<EvidenceObject>>)}}
  \union {<<spoilt[1], WithMember(WholeNode, "evidence", Array(<<EvidenceObject, spoilt[2]>>))>> :
            spoilt \in SpoiltMembers(EvidenceObject)}

\* The second operation of each is sound, and for a producer that has to name its evidence.
DamagedDocuments ==
  {<<spoilt[1], DocumentOf("ai:x", <<spoilt[2], Unlinking("b")>>)>> : spoilt \in SpoiltOperations}

DocumentSamples ==
  {<<"sound", << >>, document>> : document \in SoundDocuments}
  \union {<<"damaged", damaged[1], damaged[2]>> : damaged \in DamagedDocuments}

\* What a batch may not say, read off the document.
OperationsOf(document) == document[2].operations[2]
Asks(document, does) == SelectSeq(OperationsOf(document), LAMBDA one : one[2].operation = String(does))
Gives(document, does, key) ==
  InTurn(SelectSeq(Asks(document, does), LAMBDA one : key \in DOMAIN one[2] /\ one[2][key][1] = "string"),
         LAMBDA one : <<one[2][key][2]>>)
HasEvidence(operation) == "evidence" \in DOMAIN operation[2] => operation[2].evidence[2] # << >>
LabelsAreSet(operation) ==
  "labels" \in DOMAIN operation[2] => operation[2].labels[2] # << >> /\ ~Repeats(operation[2].labels[2])
ReplacesAnother(operation) ==
  "outcome" \in DOMAIN operation[2] => operation[2].outcome # Object("replacement" :> operation[2].placeholder)

MayBeSaid(document) ==
  /\ OperationsOf(document) # << >>
  /\ \A i \in DOMAIN OperationsOf(document) :
       /\ LabelsAreSet(OperationsOf(document)[i]) /\ ReplacesAnother(OperationsOf(document)[i])
       /\ document[2].owner # String("user") => HasEvidence(OperationsOf(document)[i])
  /\ ~Repeats(Gives(document, "upsert_node", "id")) /\ ~Repeats(Gives(document, "upsert_edge", "id"))
  /\ ~Repeats(Gives(document, "upsert_link", "source")) /\ ~Repeats(Gives(document, "upsert_link", "alias"))
  /\ ToSet(Gives(document, "upsert_link", "source")) \intersect ToSet(Gives(document, "remove_link", "source")) = {}

OwnsItsRemovals(set) ==
  \A i \in DOMAIN set.operations : set.operations[i][1] = "remove" => set.operations[i][2] = set.owner

JudgedRightly(sample, outcome) ==
  CASE sample[1] = "sound" ->
         /\ (outcome[1] = "read") = MayBeSaid(sample[3])
         /\ outcome[1] = "read" =>
              Len(outcome[2].operations) = Len(OperationsOf(sample[3])) /\ OwnsItsRemovals(outcome[2])
    [] sample[1] = "damaged" -> outcome[1] = "refused" /\ <<sample[2], 1>> \in outcome[2]

-----------------------------------------------------------------------------
(* Plans                                                                    *)

FileOf(language, bytes) == [path |-> <<language>>, language |-> language, bytes |-> bytes, digest |-> bytes]
FilesTried == {FileOf(language, bytes) : language \in {"c", "batch", "unknown"}, bytes \in {0, 7}}
Capabilities == <<<<"c", "deterministic syntactic", {"calls"}>>, <<"batch", "heuristic", {"calls"}>>,
                  <<"c", "heuristic", {"calls"}>>, <<"unknown", "unsupported", {"calls"}>>, <<"unknown", "heuristic", {}>>>>
RegistryTried == FoldLeft(register, << >>, Capabilities)
PlanSamples ==
  {<<files, [mode |-> mode, input |-> input, output |-> output]>> :
     files \in UNION {[1..n -> FilesTried] : n \in 0..3}, mode \in {"off", "auto", "full"},
     input \in {<< >>, <<203>>, <<406>>}, output \in {<< >>, <<1023>>}}
PlanOutcome(files, settings) ==
  plan(<<"scan", files, <<<<"b", "Ignored">>, <<"c", "Binary">>, <<"d", "Ignored">>>>>>, RegistryTried, settings)

WouldRead(file, mode) == mode = "full" \/ file.language # "c"
WouldReadAll(files, mode) == SelectSeq(files, LAMBDA file : WouldRead(file, mode))
MostInput(files) == FoldLeft(LAMBDA sum, file : sum + file.bytes \div 2 + 200, 0, files)
Below(limit, spent) == limit = << >> \/ spent <= limit[1]

\* Whatever a run reads, it stays in its budget; and every file is counted as what it is.
AnswersForTheRun(files, settings, outcome) ==
  /\ outcome.within_budget = "fits" /\ settings.mode # "off" =>
       /\ Below(settings.input, MostInput(WouldReadAll(files, settings.mode)))
       /\ Below(settings.output, 512 * Len(WouldReadAll(files, settings.mode)))
  /\ settings.mode = "off" => outcome.estimated_input_tokens.high = 0 /\ outcome.within_budget = "fits"
  /\ outcome.semantic_candidates = Len(WouldReadAll(files, settings.mode))
  /\ outcome.structural_files = Len(SelectSeq(files, LAMBDA file : file.language = "c"))
  /\ outcome.unsupported_files = Len(SelectSeq(files, LAMBDA file : file.language = "unknown"))
  /\ outcome.skipped = {<<"Ignored", 2>>, <<"Binary", 1>>}

-----------------------------------------------------------------------------
(* Packets                                                                  *)

Claimed(owner, unit) == [owner |-> owner, unit |-> <<unit>>, evidence |-> << >>]
NodeOf(id, labels, contributions) ==
  [id |-> id, labels |-> labels, contributions |-> contributions,
   properties |-> <<<<"name", <<"whole", 1>>>>, <<"path", <<"quoted", id>>>>, <<"name", <<"quoted", "k">>>>>>]
PacketNodes ==
  <<NodeOf("n1", <<"L">>, <<Claimed("user", "u2"), Claimed("a", "u1")>>),
    NodeOf("n2", <<"L">>, <<Claimed("a", "u2"), Claimed("a", "u1")>>),
    NodeOf("n3", <<"L">>, <<Claimed("a", "u2")>>), NodeOf("n4", <<"Directory">>, <<Claimed("a", "u4")>>),
    NodeOf("n5", <<"L">>, <<Claimed("user", "u1")>>), NodeOf("n6", <<"L">>, <<Claimed("a", "u3")>>)>>
Related(source, target) ==
  [id |-> "e1", source |-> <<"local", source>>, target |-> <<"local", target>>, relation |-> "R",
   properties |-> << >>, contributions |-> << >>]
EdgesTried ==
  <<<<Related("n1", "n2")>>, <<Related("n3", "n1")>>, <<Related("n1", "n4")>>, <<Related("n6", "n3")>>,
    <<Related("n6", "n1"), Related("n1", "n6")>>, <<Related("n5", "n2")>>, <<Related("n1", "n9")>>,
    <<[Related("n1", "n3") EXCEPT !.target = <<"external", "b", "n3">>]>>>>
EdgesAmong(chosen) == InTurn([i \in DOMAIN EdgesTried |-> i], LAMBDA i : IF i \in chosen THEN EdgesTried[i] ELSE << >>)
GraphWith(chosen) == [nodes |-> PacketNodes, edges |-> EdgesAmong(chosen), links |-> << >>, schemas |-> << >>]
PacketSamples ==
  {<<GraphWith(chosen), unit, excerpts>> :
     chosen \in SUBSET DOMAIN EdgesTried, unit \in {"u1", "u3"},
     excerpts \in {<< >>, <<<<"n1", 2, FALSE>>, <<"n2", 3, FALSE>>, <<"n3", 1, FALSE>>>>}}
PacketOutcome(sample) == build_packet(sample[1], sample[2], sample[3])

\* The unit's own nodes, and those an edge leads to or comes from.
OwnNode(node, unit) ==
  \E i \in DOMAIN node.contributions : node.contributions[i] = Claimed("a", unit)
OwnIds(graph, unit) == {graph.nodes[i].id : i \in {j \in DOMAIN graph.nodes : OwnNode(graph.nodes[j], unit)}}
Beside(edge, own) == edge.source[2] \in own \/ edge.target[2] \in own
Near(graph, own) ==
  own \union UNION {{edge.source[2], edge.target[2]} : edge \in {one \in ToSet(graph.edges) : Beside(one, own)}}
LocalPart(graph, unit) ==
  [graph EXCEPT !.nodes = SelectSeq(@, LAMBDA node : node.id \in Near(graph, OwnIds(graph, unit))),
                !.edges = SelectSeq(@, LAMBDA edge : Beside(edge, OwnIds(graph, unit)))]

\* A packet says nothing about the graph beyond its unit and what it is joined to, and keeps its bounds.
IsLocalAndBounded(sample, packet) ==
  /\ packet = build_packet(LocalPart(sample[1], sample[2]), sample[2], sample[3])
  /\ {packet.symbols[i].id : i \in DOMAIN packet.symbols} = OwnIds(sample[1], sample[2])
  /\ \A i \in DOMAIN packet.structural_edges :
       {packet.structural_edges[i][1], packet.structural_edges[i][3]} \intersect OwnIds(sample[1], sample[2]) # {}
  /\ \A i, j \in DOMAIN packet.neighboring_units :
       packet.neighboring_units[i].source_unit = packet.neighboring_units[j].source_unit => i = j
  /\ Len(packet.neighboring_units) <= MAX_NEIGHBOURING_UNITS
  /\ Len(packet.selected_evidence_spans) <= MAX_EVIDENCE_SPANS
  /\ \A i \in DOMAIN packet.selected_evidence_spans :
       /\ packet.selected_evidence_spans[i][2] <= MAX_EXCERPT_BYTES
       /\ packet.selected_evidence_spans[i][3] = (packet.selected_evidence_spans[i] # sample[3][i])

=============================================================================
