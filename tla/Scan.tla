--------------------------------- MODULE Scan ---------------------------------
(***************************************************************************)
(* Which paths the rules of ignore files exclude.                          *)
(*                                                                         *)
(* A line, a pattern and a path are sequences of characters.  A rule that  *)
(* a line may not state is a sequence of at most one.                      *)
(*                                                                         *)
(* Walking a tree of files for what a build may analyze.                   *)
(*                                                                         *)
(* A tree gives every inode what is there: <<"file", bytes, readable,      *)
(* binary, lines>>, <<"directory", listed, resolved, entries>>,            *)
(* <<"link", inode>>, <<"nowhere">> for a link to nothing, <<"special">>   *)
(* or <<"gone">>.  An entry is <<name, inode>>; a name is a sequence of    *)
(* characters.                                                             *)
(***************************************************************************)
EXTENDS Reading, FiniteSetsExt

CONSTANT Characters  \* in the order of their codes

Code(character) == CHOOSE i \in DOMAIN Characters : Characters[i] = character

From(text, at) == SubSeq(text, at, Len(text))
StartsWith(text, start) == IsPrefix(start, text)
WithoutStart(text, start) == IF StartsWith(text, start) THEN From(text, Len(start) + 1) ELSE text

-----------------------------------------------------------------------------
(* One line                                                                 *)

LastOther(text, character) == Max({0} \union {i \in DOMAIN text : text[i] # character})
UpTo(text, at) == SubSeq(text, 1, at)
TrimmedEnd(text, character) == UpTo(text, LastOther(text, character))
TrimmedStart(text, character) == Reverse(TrimmedEnd(Reverse(text), character))

Backslashes(text, at) == at - 1 - LastOther(UpTo(text, at - 1), "\\")

Protected(text, at) == Backslashes(text, at) % 2 = 1
trim_trailing_unescaped_spaces(text) ==
  UpTo(text, Max({0} \union {i \in DOMAIN text : text[i] # " " \/ Protected(text, i)}))

\* What is left of an escaped first character.
Unescaped(text) ==
  IF StartsWith(text, <<"\\", "#">>) THEN Tail(text) ELSE WithoutStart(text, <<"\\", "!">>)

RuleOf(text, negated, directory_only) ==
  IF text = << >> THEN << >>
  ELSE <<[pattern |-> WithoutStart(text, <<"/">>), negated |-> negated, directory_only |-> directory_only,
          anchored |-> \E i \in DOMAIN TrimmedEnd(text, "/") : text[i] = "/"]>>

DirectoryRule(text, negated) ==
  IF text # << >> /\ Last(text) = "/" THEN RuleOf(Front(text), negated, TRUE)
  ELSE RuleOf(text, negated, FALSE)

StatedRule(text) ==
  CASE text = << >> -> << >>
    [] text # << >> /\ Head(text) = "#" -> << >>
    [] text # << >> /\ Head(text) = "!" -> DirectoryRule(Unescaped(Tail(text)), TRUE)
    [] OTHER -> DirectoryRule(Unescaped(text), FALSE)

parse_rule(text) == StatedRule(trim_trailing_unescaped_spaces(TrimmedStart(text, " ")))

-----------------------------------------------------------------------------
(* One pattern                                                              *)

\* A class that is not closed is none; a closed one accepts a character, and goes on at `after`.
RECURSIVE ClassFrom(_, _, _, _, _)
ClassFrom(pattern, at, first, negated, accepted) ==
  IF at > Len(pattern) THEN << >>
  ELSE IF pattern[at] = "]" /\ ~first THEN <<[accepted |-> accepted, negated |-> negated, after |-> at + 1]>>
  ELSE IF at + 2 <= Len(pattern) /\ pattern[at + 1] = "-" /\ pattern[at + 2] # "]"
  THEN ClassFrom(pattern, at + 3, FALSE, negated,
         accepted \union {Characters[i] : i \in Code(pattern[at])..Code(pattern[at + 2])})
  ELSE ClassFrom(pattern, at + 1, FALSE, negated, accepted \union {pattern[at]})

Negating(pattern) == Len(pattern) >= 2 /\ pattern[2] \in {"!", "^"}
character_class(pattern) ==
  ClassFrom(pattern, IF Negating(pattern) THEN 3 ELSE 2, TRUE, Negating(pattern), {})
Accepts(class, character) == (character \in class.accepted) # class.negated

\* Mutant: a single star crosses separators.
StarEndsAnywhere(path) == 0..Len(path)
\* Where a single star may stop: at a separator at the latest.
StarEnds(path) == {at \in 0..Len(path) : \A i \in 1..at : path[i] # "/"}

RECURSIVE matches_from(_, _)

OneCharacter(pattern, after, path, accepted) ==
  path # << >> /\ accepted /\ matches_from(From(pattern, after), Tail(path))

Literal(pattern, at, path) ==
  OneCharacter(pattern, at + 1, path, path # << >> /\ Head(path) = pattern[at])

MatchesClass(pattern, class, path) ==
  IF class = << >> THEN Literal(pattern, 1, path)
  ELSE OneCharacter(pattern, class[1].after, path, path # << >> /\ Accepts(class[1], Head(path)))

\* `**/` may stand for nothing, and goes on after any character otherwise.
DoubleStar(rest, path) == \E at \in 0..Len(path) : matches_from(WithoutStart(rest, <<"/">>), From(path, at + 1))

matches_from(pattern, path) ==
  CASE pattern = << >> -> path = << >>
    [] StartsWith(pattern, <<"*", "*">>) -> DoubleStar(From(pattern, 3), path)
    [] StartsWith(pattern, <<"*">>) /\ ~StartsWith(pattern, <<"*", "*">>) ->
         \E at \in StarEnds(path) : matches_from(Tail(pattern), From(path, at + 1))
    [] StartsWith(pattern, <<"?">>) -> OneCharacter(pattern, 2, path, path # << >> /\ Head(path) # "/")
    [] StartsWith(pattern, <<"[">>) -> MatchesClass(pattern, character_class(pattern), path)
    [] StartsWith(pattern, <<"\\">>) /\ Len(pattern) > 1 -> Literal(pattern, 2, path)
    [] OTHER -> Literal(pattern, 1, path)

glob(pattern, path) == matches_from(pattern, path)

Tails(path) == {path} \union {From(path, i + 1) : i \in {j \in DOMAIN path : path[j] = "/"}}

rule_matches(rule, path, is_dir) ==
  /\ rule.directory_only => is_dir
  /\ IF rule.anchored THEN glob(rule.pattern, path)
     ELSE \E tail \in Tails(path) : glob(rule.pattern, tail)

-----------------------------------------------------------------------------
(* Files of rules                                                           *)

parse_file(lines, base) == [base |-> TrimmedEnd(base, "/"), rules |-> InTurn(lines, parse_rule)]

\* The path below the directory of the file, if it is there.
BelowBase(file, path) ==
  CASE file.base = << >> -> <<path>>
    [] file.base # << >> /\ StartsWith(path, file.base \o <<"/">>) -> <<From(path, Len(file.base) + 2)>>
    [] OTHER -> << >>

MatchingAt(file, path, is_dir) ==
  {i \in DOMAIN file.rules : \E below \in ToSet(BelowBase(file, path)) :
     rule_matches(file.rules[i], below, is_dir)}

\* Mutant: the first rule of a file that matches decides.
decideByFirst(file, path, is_dir) == {file.rules[i] : i \in {j \in MatchingAt(file, path, is_dir) :
                                    \A other \in MatchingAt(file, path, is_dir) : j <= other}}
decide(file, path, is_dir) == {file.rules[i] : i \in {j \in MatchingAt(file, path, is_dir) :
                                    \A other \in MatchingAt(file, path, is_dir) : other <= j}}

push(stack, file) == IF file.rules = << >> THEN stack ELSE Append(stack, file)

RECURSIVE excludes(_, _, _)
excludes(stack, path, is_dir) ==
  /\ stack # << >>
  /\ IF decide(Last(stack), path, is_dir) # {}
     THEN \E rule \in decide(Last(stack), path, is_dir) : ~rule.negated
     ELSE excludes(Front(stack), path, is_dir)

-----------------------------------------------------------------------------
CONSTANTS
  GIT_IGNORE_FILE, NOSTDB_IGNORE_FILE, PRUNED_DIRECTORIES,
  SENSITIVE_NAMES, SENSITIVE_STARTS, SENSITIVE_EXTENSIONS,
  LANGUAGES,      \* from an extension
  NAMED_FILES,    \* from a whole name
  Lower,          \* from a capital letter
  NotText         \* the names that are not UTF-8

GitName == <<".", "g", "i", "t">>

-----------------------------------------------------------------------------
(* Names                                                                    *)

LastOf(text, character) == Max({0} \union {i \in DOMAIN text : text[i] = character})
FileNameIn(path) == From(path, LastOf(path, "/") + 1)
Lowered(text) == [i \in DOMAIN text |-> IF text[i] \in DOMAIN Lower THEN Lower[text[i]] ELSE text[i]]
Extension(name) == From(name, LastOf(name, ".") + 1)

ByExtension(name) ==
  IF LastOf(name, ".") > 1 /\ Lowered(Extension(name)) \in DOMAIN LANGUAGES
  THEN LANGUAGES[Lowered(Extension(name))] ELSE "unknown"
language_of(path) ==
  IF FileNameIn(path) \in DOMAIN NAMED_FILES THEN NAMED_FILES[FileNameIn(path)] ELSE ByExtension(FileNameIn(path))

SensitiveName(name) ==
  \/ name \in SENSITIVE_NAMES
  \/ \E start \in SENSITIVE_STARTS : StartsWith(name, start)
  \/ LastOf(name, ".") > 0 /\ Extension(name) \in SENSITIVE_EXTENSIONS
is_sensitive(path) == SensitiveName(Lowered(FileNameIn(path)))

-----------------------------------------------------------------------------
(* What the file system answers                                             *)

Contents(tree, inode) == IF tree[inode][1] = "link" THEN tree[tree[inode][2]] ELSE tree[inode]
Listed(tree, inode) == Contents(tree, inode)[2]
Resolved(tree, inode) == Contents(tree, inode)[3]
Entries(tree, inode) == Contents(tree, inode)[4]

RealInode(tree, inode) == IF tree[inode][1] = "link" THEN tree[inode][2] ELSE inode

\* The lines of a file of rules in a directory, if it can be read.
LinesOf(tree, found) ==
  IF found[1] = "file" /\ found[3] THEN <<found[5]>> ELSE << >>
EntriesNamed(tree, inode, name) == SelectSeq(Entries(tree, inode), LAMBDA entry : entry[1] = name)
read_to_string(tree, inode, name) ==
  InTurn(EntriesNamed(tree, inode, name), LAMBDA entry : LinesOf(tree, Contents(tree, entry[2])))

-----------------------------------------------------------------------------
(* The walk                                                                 *)

Start(tree, options) ==
  [tree |-> tree, options |-> options, git |-> << >>, nostdb |-> << >>, visited |-> {},
   files |-> << >>, skipped |-> << >>]

skip(w, path, reason) == [w EXCEPT !.skipped = Append(@, <<path, reason>>)]

excluded(w, path, is_dir) ==
  \/ w.options.use_git_ignore /\ excludes(w.git, path, is_dir)
  \/ excludes(w.nostdb, path, is_dir)

Pushed(stack, read, path) == FoldLeft(LAMBDA s, lines : push(s, parse_file(lines, path)), stack, read)

GitRules(w, inode) ==
  IF w.options.use_git_ignore THEN read_to_string(w.tree, inode, GIT_IGNORE_FILE) ELSE << >>
enter(w, inode, path) ==
  [w EXCEPT !.git = Pushed(@, GitRules(w, inode), path),
            !.nostdb = Pushed(@, read_to_string(w.tree, inode, NOSTDB_IGNORE_FILE), path)]

Scanned(path, found) ==
  [path |-> path, language |-> language_of(path), bytes |-> found[2], digest |-> found]

scan_file(w, found, path) ==
  CASE excluded(w, path, FALSE) -> skip(w, path, "Ignored")
    [] ~excluded(w, path, FALSE) /\ is_sensitive(path) -> skip(w, path, "Sensitive")
    [] OTHER ->
      CASE found[2] > w.options.max_file_bytes -> skip(w, path, "TooLarge")
        [] found[2] <= w.options.max_file_bytes /\ ~found[3] -> skip(w, path, "PermissionDenied")
        [] found[2] <= w.options.max_file_bytes /\ found[3] /\ found[4] -> skip(w, path, "Binary")
        [] OTHER -> [w EXCEPT !.files = Append(@, Scanned(path, found))]

Joined(path, name) == IF path = << >> THEN name ELSE path \o <<"/">> \o name

\* What a link to something special looks like: nothing that can be read.
Socket == <<"file", 0, FALSE, FALSE, << >>>>

RECURSIVE directory(_, _, _)

entered_directory(w, inode, path, name) ==
  IF name \in PRUNED_DIRECTORIES \/ excluded(w, path, TRUE) THEN skip(w, path, "Ignored")
  ELSE directory(w, inode, path)

followed(w, inode, path, name) ==
  CASE Contents(w.tree, inode)[1] = "directory" -> entered_directory(w, inode, path, name)
    [] Contents(w.tree, inode)[1] = "file" -> scan_file(w, Contents(w.tree, inode), path)
    [] Contents(w.tree, inode)[1] = "special" -> scan_file(w, Socket, path)
    [] OTHER -> skip(w, path, "PermissionDenied")

entry(w, inode, path, name) ==
  CASE w.tree[inode][1] = "gone" -> skip(w, path, "PermissionDenied")
    [] w.tree[inode][1] \in {"link", "nowhere"} ->
         IF w.options.follow_symlinks THEN followed(w, inode, path, name) ELSE skip(w, path, "Symlink")
    [] w.tree[inode][1] = "directory" -> entered_directory(w, inode, path, name)
    [] w.tree[inode][1] = "file" ->
         IF name = GitName THEN skip(w, path, "Ignored") ELSE scan_file(w, w.tree[inode], path)
    [] OTHER -> w

\* Every entry in turn, and then the rules of this directory no longer apply.
Visited(w, path, entries) ==
  FoldLeft(LAMBDA s, one : IF one[1] \in NotText THEN s ELSE entry(s, one[2], Joined(path, one[1]), one[1]),
           w, entries)
walk(w, inode, path) ==
  IF ~Listed(w.tree, inode) THEN skip(w, path, "PermissionDenied")
  ELSE [Visited(enter(w, inode, path), path, Entries(w.tree, inode))
          EXCEPT !.git = UpTo(@, Len(w.git)), !.nostdb = UpTo(@, Len(w.nostdb))]

Leaving(w, inode) == [w EXCEPT !.visited = @ \ {inode}]
Entering(w, inode) == [w EXCEPT !.visited = @ \union {inode}]

directory(w, inode, path) ==
  CASE ~w.options.follow_symlinks -> walk(w, inode, path)
    [] w.options.follow_symlinks /\ ~Resolved(w.tree, inode) -> skip(w, path, "PermissionDenied")
    [] OTHER ->
      IF RealInode(w.tree, inode) \in w.visited THEN skip(w, path, "SymlinkCycle")
      ELSE Leaving(walk(Entering(w, RealInode(w.tree, inode)), inode, path), RealInode(w.tree, inode))

\* A root that cannot be listed is an error; whatever fails below it is skipped.
Found(w) == <<"scan", w.files, w.skipped>>
scan(tree, options) ==
  IF ~Listed(tree, "root") THEN <<"unreadable">>
  ELSE Found(directory(Start(tree, options), "root", << >>))

=============================================================================
