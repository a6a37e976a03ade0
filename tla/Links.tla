-------------------------------- MODULE Links ---------------------------------
(***************************************************************************)
(* src/settings.rs: which settings documents are read, how a global and a  *)
(* project document become the effective settings, and how those are       *)
(* rendered.  A document keeps every field optional.                       *)
(*                                                                         *)
(* A field is "absent", "null", "bad" (a wrong type, a path that leaves    *)
(* the directory, a count that is no count) or a value of its own.         *)
(*                                                                         *)
(* The links of a project in src/project.rs: declared in the database,     *)
(* mirrored in the settings file with what the user says of them and the   *)
(* commit they last resolved to.  add_link() and remove_link() replace     *)
(* both files through the journal; refresh_links() asks a slow provider    *)
(* and then replaces the settings alone, through a staged file of the same *)
(* name.  A person edits the settings, other commands change the graph.    *)
(*                                                                         *)
(* No .nost file is materialized here (Project has that side), and         *)
(* recovery is one step (FileTransaction has its steps).                   *)
(***************************************************************************)
EXTENDS Naturals, Sequences, SequencesExt, FiniteSets

CONSTANTS
  PlainField,   \* fields for which null says nothing
  BudgetField,  \* fields for which null says unlimited
  Default       \* the value of each field nobody defines

Field == PlainField \union BudgetField

\* Value of a field no document defines, once absence has been read.
Undefined == "undefined"

SupportedVersion == 1

\* A new entry: its locator, what the user says of it, what it last resolved to
\* (0: never), and whether it has an alias, which settings must not.
Entry(source) == [source |-> source, credential |-> "none", commit |-> 0, alias |-> FALSE]

\* The position of the entry of a source, 0 when there is none.
Find(entries, source) ==
  LET at == {i \in DOMAIN entries : entries[i].source = source}
  IN IF at = {} THEN 0 ELSE Min(at)

Sources(entries) == {entries[i].source : i \in DOMAIN entries}

read_links(entries) ==
  /\ \A i \in DOMAIN entries : ~entries[i].alias
  /\ \A i, j \in DOMAIN entries : entries[i].source = entries[j].source => i = j

\* Whether parse() accepts a document.
Accepted(document) ==
  /\ document.version = SupportedVersion
  /\ \A f \in Field : document.fields[f] # "bad"
  /\ document.links.defined => read_links(document.links.entries)

\* What parse() makes of one field.
optional(document, f) ==
  IF document.fields[f] = "absent" \/ (document.fields[f] = "null" /\ f \in PlainField)
  THEN Undefined
  ELSE IF document.fields[f] = "null" THEN "unlimited" ELSE document.fields[f]

\* The first of some documents that defines a field, then the default.
Picked(documents, f) ==
  LET defining == {i \in DOMAIN documents : optional(documents[i], f) # Undefined}
  IN IF defining = {} THEN Default[f] ELSE optional(documents[Min(defining)], f)

\* resolve(): the project document comes first.  A list of links is one field.
resolve(documents) ==
  LET defining == {i \in DOMAIN documents : documents[i].links.defined}
  IN [fields |-> [f \in Field |-> Picked(documents, f)],
      links |-> IF defining = {} THEN <<>> ELSE documents[Min(defining)].links.entries]

\* Mutant: an unlimited budget is left out.
to_jsonOmitsUnlimited(settings) ==
  [version |-> SupportedVersion,
   fields |-> [f \in Field |-> IF settings.fields[f] = "unlimited" THEN "absent"
                               ELSE settings.fields[f]],
   links |-> [defined |-> TRUE, entries |-> settings.links],
   unknown |-> 0]

\* to_json(): every section is written, defaults included.
to_json(settings) ==
  [version |-> SupportedVersion,
   fields |-> [f \in Field |-> IF settings.fields[f] = "unlimited" THEN "null"
                               ELSE settings.fields[f]],
   links |-> [defined |-> TRUE, entries |-> settings.links],
   unknown |-> 0]

\* orphan_link_settings(): entries that mirror no declared link.
orphan_link_settings(settings, declared) ==
  {e \in ToSet(settings.links) : e.source \notin declared}

-----------------------------------------------------------------------------
CONSTANTS
  Process,     \* the processes with a handle on this project
  Source,      \* the locators links name
  Remote,      \* those of them a provider resolves
  Alias,       \* the aliases a link may have, besides "none"
  MaxCommit,   \* bound on the commits of a remote source
  MaxEdits,    \* bound on the edits of the settings
  Global,      \* the user-global settings document, or Nothing
  Rules,       \* which rules the users keep, see UserRule
  Nothing,     \* a file that is not there, a value that was not read
  Torn         \* the bytes of a file whose writing was cut short

\* "one_writer": one command at a time is past the point where it reads what it
\*   will write over; a refresh that waits for its provider is not.
\* "one_refresh": one refresh at a time.
\* "editor_waits": the settings are edited while no command writes, and not
\*   between a crash and the recovery.
\* "open_first": after a crash nobody writes before the project is opened again,
\*   not even a refresh that was waiting for its provider.
UserRule == {"one_writer", "one_refresh", "editor_waits", "open_first"}

Commits == 0 .. MaxCommit

Link == [source : Source, alias : Alias \union {"none"}]

LinkSettings ==
  [source : Source, credential : {"none", "named"}, commit : Commits, alias : BOOLEAN]

FieldValue == {"absent", "null", "bad", "set"}

SettingsDocument ==
  [version : {SupportedVersion}, fields : [Field -> FieldValue],
   links : [defined : BOOLEAN, entries : Seq(LinkSettings)], unknown : {0, 1}]

ASSUME LinksAssumption ==
  /\ Remote \subseteq Source
  /\ MaxCommit \in Nat \ {0}
  /\ MaxEdits \in Nat
  /\ Rules \subseteq UserRule
  /\ Nothing # Torn
  /\ Nothing \notin Seq(Link) \union SettingsDocument
  /\ Torn \notin Seq(Link) \union SettingsDocument

File == {"database", "settings"}

VARIABLES
  disk,     \* the database's links and the settings document
  staged,   \* the staged file beside each, Torn when its writing was cut short
  journal,  \* the files a committed journal promotes, {} without a journal
  handle,   \* whether each process has opened the project
  doing,    \* the next step of each process
  local,    \* what each process has read and computed, see Blank
  head,     \* the commit each remote source is at
  author,   \* history: who made the last step, "user" or "program"
  settled,  \* history: nobody but a refresh wrote since the last link change
  edits     \* how often the settings were edited

linkVars == <<disk, staged, journal, handle, doing, local, head, author, settled, edits>>

\* What a provider answered for one link.
Answer == [source : Remote, commit : Commits \ {0}]

Local == [links : Seq(Link), document : SettingsDocument \union {Nothing},
          todo : Seq(Link), resolved : SUBSET Answer]

Blank == [links |-> <<>>, document |-> Nothing, todo |-> <<>>, resolved |-> {}]

Fresh == [version |-> SupportedVersion, fields |-> [f \in Field |-> "absent"],
          links |-> [defined |-> FALSE, entries |-> <<>>], unknown |-> 0]

\* initialize() writes a document with a version and nothing else.
LinksInit ==
  /\ disk = [database |-> <<>>, settings |-> Fresh]
  /\ staged = [f \in File |-> Nothing]
  /\ journal = {}
  /\ handle = [p \in Process |-> FALSE]
  /\ doing = [p \in Process |-> "idle"]
  /\ local = [p \in Process |-> Blank]
  /\ head = [s \in Remote |-> 1]
  /\ author = "program"
  /\ settled = TRUE
  /\ edits = 0

\* A torn file is not JSON.
Readable(document) == document # Torn /\ Accepted(document)

Step == {"idle", "mirror", "stage_database", "stage_settings", "journal", "promote_database",
         "promote_settings", "forget", "resolve", "record", "write_staged", "rename"}

Goto(p, step) == doing' = [doing EXCEPT ![p] = step]

Finish(p) == Goto(p, "idle") /\ local' = [local EXCEPT ![p] = Blank]

\* A refresh that waits for its provider holds nothing anybody writes.
Writing(p) == doing[p] \notin {"idle", "resolve"}

Alone(p) == "one_writer" \in Rules => \A q \in Process \ {p} : ~Writing(q)

MayWrite(p) == Alone(p) /\ ("open_first" \in Rules => journal = {})

MayStart(p) == doing[p] = "idle" /\ handle[p] /\ MayWrite(p)

Author(who) == author' = who /\ edits' = edits + (IF who = "user" THEN 1 ELSE 0)

Program == Author("program") /\ UNCHANGED settled

\* What the next open finds: the files after the journal has been replayed.
Recovered(f) ==
  IF f \in journal /\ staged[f] # Nothing THEN staged[f] ELSE disk[f]

\* open(): recover(), then read and merge the settings documents.
Open(p) ==
  /\ doing[p] = "idle"
  /\ Alone(p)
  /\ disk' = [f \in File |-> Recovered(f)]
  /\ staged' = [f \in File |-> IF f \in journal THEN Nothing ELSE staged[f]]
  /\ journal' = {}
  /\ handle' = [handle EXCEPT ![p] = Readable(disk'.settings)]
  /\ Program
  /\ UNCHANGED <<doing, local, head>>

\* The documents open() merges.
Documents == <<disk.settings>> \o IF Global = Nothing THEN <<>> ELSE <<Global>>

-----------------------------------------------------------------------------
(* add_link() and remove_link() *)

add_link(p) ==
  /\ MayStart(p)
  /\ \E link \in Link :
       /\ \A i \in DOMAIN disk.database :
            /\ disk.database[i].source # link.source
            /\ link.alias = "none" \/ disk.database[i].alias # link.alias
       /\ local' = [local EXCEPT ![p].links = Append(disk.database, link)]
  /\ Goto(p, "mirror")
  /\ Program
  /\ UNCHANGED <<disk, staged, journal, handle, head>>

remove_link(p) ==
  /\ MayStart(p)
  /\ \E i \in DOMAIN disk.database :
       local' = [local EXCEPT ![p].links = RemoveAt(disk.database, i)]
  /\ Goto(p, "mirror")
  /\ Program
  /\ UNCHANGED <<disk, staged, journal, handle, head>>

\* Mutant: the mirror is rendered afresh.
MirroredAfresh(document, links) == [i \in DOMAIN links |-> Entry(links[i].source)]

\* In the graph's order, each surviving entry as the user left it.
Mirrored(document, links) ==
  [i \in DOMAIN links |->
     LET at == Find(document.links.entries, links[i].source)
     IN IF at = 0 THEN Entry(links[i].source) ELSE document.links.entries[at]]

\* mirror_to_write(): nothing when the document agrees already.
mirror_to_write(p) ==
  LET entries == Mirrored(disk.settings, local[p].links)
  IN IF entries = disk.settings.links.entries /\ (entries # <<>> => disk.settings.links.defined)
     THEN Nothing
     ELSE [disk.settings EXCEPT !.links = [defined |-> TRUE, entries |-> entries]]

Mirror(p) ==
  /\ doing[p] = "mirror"
  /\ IF Readable(disk.settings)
     THEN /\ local' = [local EXCEPT ![p].document = mirror_to_write(p)]
          /\ Goto(p, "stage_database")
     ELSE Finish(p)
  /\ Program
  /\ UNCHANGED <<disk, staged, journal, handle, head>>

Stage(p, file, contents, next) ==
  /\ \/ staged' = [staged EXCEPT ![file] = contents] /\ Goto(p, next) /\ UNCHANGED local
     \/ \* The write fails: whatever was staged so far is removed.
        /\ staged' = [f \in File |-> Nothing]
        /\ Finish(p)
  /\ Program
  /\ UNCHANGED <<disk, journal, handle, head>>

StageDatabase(p) ==
  /\ doing[p] = "stage_database"
  /\ Stage(p, "database", local[p].links,
           IF local[p].document = Nothing THEN "journal" ELSE "stage_settings")

StageSettings(p) ==
  /\ doing[p] = "stage_settings"
  /\ Stage(p, "settings", local[p].document, "journal")

\* Mutant: the journal names the database alone.
JournalDatabaseOnly(p) ==
  /\ doing[p] = "journal"
  /\ journal' = {"database"}
  /\ Goto(p, "promote_database")
  /\ Author("program")
  /\ settled' = TRUE
  /\ UNCHANGED <<disk, staged, handle, local, head>>

Journal(p) ==
  /\ doing[p] = "journal"
  /\ journal' = IF local[p].document = Nothing THEN {"database"} ELSE File
  /\ Goto(p, "promote_database")
  /\ Author("program")
  /\ settled' = TRUE
  /\ UNCHANGED <<disk, staged, handle, local, head>>

\* A staged file that is not there has been promoted already.
Promote(f) ==
  /\ disk' = [disk EXCEPT ![f] = IF staged[f] = Nothing THEN @ ELSE staged[f]]
  /\ staged' = [staged EXCEPT ![f] = Nothing]

PromoteDatabase(p) ==
  /\ doing[p] = "promote_database"
  /\ Promote("database")
  /\ Goto(p, IF local[p].document = Nothing THEN "forget" ELSE "promote_settings")
  /\ Program
  /\ UNCHANGED <<journal, handle, local, head>>

PromoteSettings(p) ==
  /\ doing[p] = "promote_settings"
  /\ Promote("settings")
  /\ Goto(p, "forget")
  /\ Program
  /\ UNCHANGED <<journal, handle, local, head>>

Forget(p) ==
  /\ doing[p] = "forget"
  /\ journal' = {}
  /\ Finish(p)
  /\ Program
  /\ UNCHANGED <<disk, staged, handle, head>>

-----------------------------------------------------------------------------
(* refresh_links() *)

refresh_links(p) ==
  /\ MayStart(p)
  /\ "one_refresh" \in Rules => \A q \in Process : doing[q] # "resolve"
  /\ local' = [local EXCEPT ![p].todo = disk.database]
  /\ Goto(p, "resolve")
  /\ Program
  /\ UNCHANGED <<disk, staged, journal, handle, head>>

\* The provider answers for a remote link with a commit, or not.
Resolve(p) ==
  /\ doing[p] = "resolve"
  /\ local[p].todo # <<>>
  /\ LET s == Head(local[p].todo).source
     IN \E answer \in SUBSET {[source |-> r, commit |-> head[r]] : r \in {s} \cap Remote} :
          local' = [local EXCEPT ![p].todo = Tail(@), ![p].resolved = @ \union answer]
  /\ Program
  /\ UNCHANGED <<disk, staged, journal, handle, doing, head>>

Resolved(p) ==
  /\ doing[p] = "resolve"
  /\ local[p].todo = <<>>
  /\ IF local[p].resolved = {} THEN Finish(p)
     ELSE MayWrite(p) /\ Goto(p, "record") /\ UNCHANGED local
  /\ Program
  /\ UNCHANGED <<disk, staged, journal, handle, head>>

\* Mutant: every resolved link gets an entry, whether it has one or not.
RecordedTwice(entries, resolved) ==
  entries \o SetToSeq({[Entry(r.source) EXCEPT !.commit = r.commit] : r \in resolved})

\* Mutant: the entry is rendered afresh, without what the user wrote.
RecordedAfresh(entries, resolved) ==
  LET commit(s) == {r.commit : r \in {r \in resolved : r.source = s}}
      new == {r \in resolved : Find(entries, r.source) = 0}
  IN [i \in DOMAIN entries |->
        IF commit(entries[i].source) = {} THEN entries[i]
        ELSE [Entry(entries[i].source) EXCEPT
                !.commit = CHOOSE c \in commit(entries[i].source) : TRUE]]
     \o SetToSeq({[Entry(r.source) EXCEPT !.commit = r.commit] : r \in new})

\* Each resolved commit goes into the entry of its source, or into a new one.
Recorded(entries, resolved) ==
  LET commit(s) == {r.commit : r \in {r \in resolved : r.source = s}}
      new == {r \in resolved : Find(entries, r.source) = 0}
  IN [i \in DOMAIN entries |->
        IF commit(entries[i].source) = {} THEN entries[i]
        ELSE [entries[i] EXCEPT !.commit = CHOOSE c \in commit(entries[i].source) : TRUE]]
     \o SetToSeq({[Entry(r.source) EXCEPT !.commit = r.commit] : r \in new})

\* record_snapshots() reads the settings as they are now.
record_snapshots(p) ==
  /\ doing[p] = "record"
  /\ IF Readable(disk.settings)
     THEN /\ local' = [local EXCEPT ![p].document =
               [disk.settings EXCEPT !.links =
                  [defined |-> TRUE, entries |-> Recorded(@.entries, local[p].resolved)]]]
          /\ Goto(p, "write_staged")
     ELSE Finish(p)
  /\ Program
  /\ UNCHANGED <<disk, staged, journal, handle, head>>

\* write_atomically(): under the name FileTransaction stages the settings to.
WriteStaged(p) ==
  /\ doing[p] = "write_staged"
  /\ \/ staged' = [staged EXCEPT !["settings"] = local[p].document]
        /\ Goto(p, "rename") /\ UNCHANGED local
     \/ staged' = [staged EXCEPT !["settings"] = Torn] /\ Finish(p)
  /\ Program
  /\ UNCHANGED <<disk, journal, handle, head>>

Rename(p) ==
  /\ doing[p] = "rename"
  /\ \/ Promote("settings")
     \/ staged' = [staged EXCEPT !["settings"] = Nothing] /\ UNCHANGED disk
  /\ Finish(p)
  /\ Program
  /\ UNCHANGED <<journal, handle, head>>

-----------------------------------------------------------------------------
(* The environment *)

\* Death of a process: a file that is being staged stays as far as it was
\* written, a journal that is being written holds no commit record.
Crash(p) ==
  /\ doing[p] # "idle"
  /\ handle' = [handle EXCEPT ![p] = FALSE]
  /\ staged' \in {staged} \union
       (IF doing[p] = "stage_database" THEN {[staged EXCEPT !["database"] = Torn]} ELSE {})
       \union (IF doing[p] \in {"stage_settings", "write_staged"}
               THEN {[staged EXCEPT !["settings"] = Torn]} ELSE {})
  /\ Finish(p)
  /\ Program
  /\ UNCHANGED <<disk, journal, head>>

\* Another command commits a graph with other links, and leaves the settings.
Adopt ==
  /\ "one_writer" \in Rules => \A p \in Process : ~Writing(p)
  /\ "open_first" \in Rules => journal = {}
  /\ \E i \in DOMAIN disk.database : disk' = [disk EXCEPT !.database = RemoveAt(@, i)]
  /\ Author("program")
  /\ settled' = FALSE
  /\ UNCHANGED <<staged, journal, handle, doing, local, head>>

\* A remote source moves on.
Advance(s) ==
  /\ head[s] < MaxCommit
  /\ head' = [head EXCEPT ![s] = @ + 1]
  /\ Program
  /\ UNCHANGED <<disk, staged, journal, handle, doing, local>>

\* What a person does to the settings file in one sitting.
Edited(document) ==
  LET entries == document.links.entries
      with(e) == [document EXCEPT !.links = [defined |-> TRUE, entries |-> e]]
  IN {with([entries EXCEPT ![i].credential = IF @ = "none" THEN "named" ELSE "none"]) :
        i \in DOMAIN entries}
     \union {with(RemoveAt(entries, i)) : i \in DOMAIN entries}
     \union {with(Append(entries, Entry(s))) :
        s \in IF Len(entries) < Cardinality(Source) THEN Source ELSE {}}
     \union {[document EXCEPT !.unknown = 1 - @]}
     \union {[document EXCEPT !.fields[f] = v] : f \in Field, v \in {"null", "set"}}

Edit ==
  /\ edits < MaxEdits
  /\ "editor_waits" \in Rules =>
       journal = {} /\ \A p \in Process : ~Writing(p)
  /\ \E document \in Edited(disk.settings) : disk' = [disk EXCEPT !.settings = document]
  /\ Author("user")
  /\ settled' = FALSE
  /\ UNCHANGED <<staged, journal, handle, doing, local, head>>

LinksNext ==
  \/ \E p \in Process :
       \/ Open(p) \/ add_link(p) \/ remove_link(p) \/ Mirror(p)
       \/ StageDatabase(p) \/ StageSettings(p) \/ Journal(p)
       \/ PromoteDatabase(p) \/ PromoteSettings(p) \/ Forget(p)
       \/ refresh_links(p) \/ Resolve(p) \/ Resolved(p) \/ record_snapshots(p)
       \/ WriteStaged(p) \/ Rename(p)
       \/ Crash(p)
  \/ Adopt
  \/ \E s \in Remote : Advance(s)
  \/ Edit

LinksSpec == LinksInit /\ [][LinksNext]_linkVars

-----------------------------------------------------------------------------
(* Properties *)

\* Every variable holds a value of its kind; what a journal promotes is whole.
LinksTypeOK ==
  /\ disk \in [database : Seq(Link), settings : SettingsDocument]
  /\ staged \in [database : Seq(Link) \union {Nothing, Torn},
                 settings : SettingsDocument \union {Nothing, Torn}]
  /\ journal \in {{}, {"database"}, File}
  /\ \A f \in journal : staged[f] # Torn
  /\ handle \in [Process -> BOOLEAN]
  /\ doing \in [Process -> Step]
  /\ local \in [Process -> Local]
  /\ head \in [Remote -> Commits \ {0}]
  /\ author \in {"user", "program"}
  /\ settled \in BOOLEAN
  /\ edits \in 0 .. MaxEdits

Declared == {link.source : link \in ToSet(Recovered("database"))}

Document == Recovered("settings")

EntryOf(document, s) ==
  document.links.entries[Find(document.links.entries, s)]

CommitOf(document, s) ==
  IF s \in Sources(document.links.entries) THEN EntryOf(document, s).commit ELSE 0

\* No step of the program turns settings that Project::open() accepts into
\* settings it refuses, whether a crash cuts it short or not: a link change or a
\* refresh never locks its user out of the project.
StaysReadable ==
  [][ author' = "program"
      => /\ Readable(disk.settings) => Readable(disk.settings)'
         /\ Readable(Document) => Readable(Document)' ]_linkVars

\* What the user wrote into the settings survives every link change and every
\* refresh: the fields, those this build does not know, and the credential of
\* each link that stays declared.
UserFieldsKept ==
  [][ author' = "program"
      => /\ Document.fields = Document'.fields
         /\ Document.unknown = Document'.unknown
         /\ \A s \in Sources(Document.links.entries) \cap Declared' :
              /\ s \in Sources(Document'.links.entries)
              /\ EntryOf(Document, s).credential = EntryOf(Document, s)'.credential ]_linkVars

\* The commit a declared link resolved to only moves on: a provider that cannot
\* be reached, a link change and a crash leave it, and no refresh sets it back.
SnapshotsAdvance ==
  [][ author' = "program"
      => \A s \in Declared' : CommitOf(Document, s) <= CommitOf(Document, s)' ]_linkVars

\* After a link change every declared link has its entry, and what has none in
\* the graph is a commit that a refresh recorded for a link removed meanwhile:
\* database and settings move together, although the refresh stages the settings
\* under the name the link change stages them.
MirrorFollowsGraph ==
  settled =>
    /\ Declared \subseteq Sources(Document.links.entries)
    /\ \A e \in orphan_link_settings(resolve(<<Document>>), Declared) :
         e.source \in Remote /\ e.commit > 0

\* The effective settings, rendered with every section and put in the place of
\* the project's own document, are the effective settings again, whatever was
\* absent, null or taken from the global file: a limit somebody lifted with null
\* does not come back.
RenderingIsStable ==
  Readable(disk.settings) =>
    LET effective == resolve(Documents)
        rendered == to_json(effective)
    IN Accepted(rendered) /\ resolve([Documents EXCEPT ![1] = rendered]) = effective

=============================================================================
