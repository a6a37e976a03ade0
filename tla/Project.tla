------------------------------- MODULE Project -------------------------------
(***************************************************************************)
(* src/project.rs and src/sync.rs: the database, the .nost file and the    *)
(* baseline of one project, the commands that read and write them, and a   *)
(* person who edits the .nost file.                                        *)
(*                                                                         *)
(* Replacing the database is one step (Storage implements it), and so is   *)
(* the journaled promotion of all files of a link change (FileTransaction  *)
(* implements it).  Everything else is a step per file read or written.    *)
(***************************************************************************)
EXTENDS Naturals

CONSTANTS
  Process,        \* the processes with a command on this project
  Command,        \* which commands they run, see CommandKind
  NostEnabled,    \* the setting database.nost
  Fact,           \* what graphs and texts can state
  MaxGeneration,  \* bound on the generations of the database
  Discipline,     \* which rules the users keep, see Rule
  Nothing         \* a file that is not there, a value that was not read

CommandKind == {"synchronize", "export", "query", "build", "link"}

\* "one_command": no command starts while another runs.
\* "editor_waits": the .nost file is edited only while no command runs.
\* "mirror_waits": it is not edited while a command mirrors the graph into it.
Rule == {"one_command", "editor_waits", "mirror_waits"}

Container == [gen : 1 .. MaxGeneration, graph : SUBSET Fact]

\* format(from_graph(g)) is the canonical text of g.  A person writes others,
\* and some of those parse() or validate() refuses.
Text == [facts : SUBSET Fact, form : {"canonical", "edited", "broken"}]

Canonical(g) == [facts |-> g, form |-> "canonical"]

\* A digest stands for the bytes it was computed from.
Baseline == [gen : 1 .. MaxGeneration, database : Container, nost : Text]

ASSUME ProjectAssumption ==
  /\ Command \subseteq CommandKind
  /\ NostEnabled \in BOOLEAN
  /\ MaxGeneration \in Nat \ {0}
  /\ Discipline \subseteq Rule
  /\ Nothing \notin Container
  /\ Nothing \notin Text
  /\ Nothing \notin Baseline

VARIABLES
  db,        \* the database file
  nost,      \* the .nost file
  baseline,  \* the file that records the last agreement
  pc,        \* the next step of each process, "idle" between commands
  cmd,       \* the command each process runs
  local,     \* what each process has read and computed, see Local
  fate       \* history: which facts were stated, and which removed on purpose

vars == <<db, nost, baseline, pc, cmd, local, fate>>

files == <<db, nost, baseline>>

\* text: the .nost text it adopts or has written     seen: the one it compares
\* database, gen: the bytes and the generation       base: the baseline
\* graph: the graph it is about to write
Local == [text : Text \union {Nothing}, seen : Text \union {Nothing},
          database : Container \union {Nothing}, gen : 0 .. MaxGeneration,
          base : Baseline \union {Nothing}, graph : SUBSET Fact]

Blank == [text |-> Nothing, seen |-> Nothing, database |-> Nothing, gen |-> 0,
          base |-> Nothing, graph |-> {}]

Init ==
  /\ db = [gen |-> 1, graph |-> {}]
  /\ nost = Nothing
  /\ baseline = Nothing
  /\ pc = [p \in Process |-> "idle"]
  /\ cmd = [p \in Process |-> "none"]
  /\ local = [p \in Process |-> Blank]
  /\ fate = [f \in Fact |-> "unstated"]

\* Mutant: only the .nost file is compared.
decideOnNostAlone(b, s) ==
  IF b.nost # s.nost THEN "AdoptNost" ELSE "UpToDate"

decide(b, s) ==
  LET moved == b.gen # s.gen \/ b.database # s.database
      edited == b.nost # s.nost
  IN IF moved THEN IF edited THEN "Conflict" ELSE "NostStale"
     ELSE IF edited THEN "AdoptNost" ELSE "UpToDate"

\* What sync_state() would find if nothing moved while it reads.
State == [gen |-> db.gen, database |-> db, nost |-> nost]

Goto(p, step) == pc' = [pc EXCEPT ![p] = step]

Finish(p) ==
  /\ Goto(p, "idle")
  /\ cmd' = [cmd EXCEPT ![p] = "none"]
  /\ local' = [local EXCEPT ![p] = Blank]

Start(p, command) ==
  /\ command \in Command
  /\ pc[p] = "idle"
  /\ "one_command" \in Discipline => \A q \in Process : pc[q] = "idle"
  /\ cmd' = [cmd EXCEPT ![p] = command]

\* A graph or a text that states one new fact more than g, or one less.
Change(g) ==
  {g \union {f} : f \in {f \in Fact : fate[f] = "unstated"}} \union {g \ {f} : f \in g}

Remove(facts) == [f \in Fact |-> IF f \in facts THEN "removed" ELSE fate[f]]

\* The history once somebody has turned `old` into `new` on purpose.
Worked(old, new) ==
  [f \in Fact |-> IF f \in new \ old THEN "stated" ELSE Remove(old \ new)[f]]

\* Mutant: the last generation has a successor.
AdvancesPastTheEnd(g) == g <= MaxGeneration

\* Generation::next() refuses to wrap.
Advances(g) == g < MaxGeneration

Facts(file) == IF file = Nothing THEN {} ELSE file.facts

-----------------------------------------------------------------------------
(* synchronize() *)

Synchronize(p) ==
  /\ Start(p, "synchronize")
  /\ nost # Nothing \/ NostEnabled
  /\ local' = [local EXCEPT ![p].text = nost]
  /\ Goto(p, IF nost = Nothing THEN "read_graph" ELSE "read_baseline")
  /\ UNCHANGED <<files, fate>>

\* Without a baseline synchronize() reports it and a link change is refused.
ReadBaseline(p) ==
  /\ pc[p] = "read_baseline"
  /\ IF baseline = Nothing THEN Finish(p)
     ELSE /\ local' = [local EXCEPT ![p].base = baseline]
          /\ Goto(p, "read_bytes")
          /\ UNCHANGED cmd
  /\ UNCHANGED <<files, fate>>

\* sync_state() reads the bytes, the text, and the database again for its
\* generation.
ReadBytes(p) ==
  /\ pc[p] = "read_bytes"
  /\ local' = [local EXCEPT ![p].database = db]
  /\ Goto(p, "read_nost")
  /\ UNCHANGED <<files, cmd, fate>>

ReadNost(p) ==
  /\ pc[p] = "read_nost"
  /\ local' = [local EXCEPT ![p].seen = nost]
  /\ Goto(p, "decide")
  /\ UNCHANGED <<files, cmd, fate>>

Outcome(p) ==
  decide(local[p].base,
         [gen |-> db.gen, database |-> local[p].database, nost |-> local[p].seen])

\* Mutant: a conflict is settled in favour of the text.
AdoptsOverConflict(p) ==
  Outcome(p) \in {"AdoptNost", "Conflict"} /\ local[p].text.form # "broken"

\* synchronize() acts on AdoptNost alone, and only on a text it can read.

Adopts(p) == Outcome(p) = "AdoptNost" /\ local[p].text.form # "broken"

\* A link change goes on unless the .nost file holds something of its own.
Decide(p) ==
  /\ pc[p] = "decide"
  /\ \/ /\ cmd[p] = "synchronize"
        /\ Adopts(p)
        /\ Goto(p, "adopt_open")
        /\ UNCHANGED <<cmd, local>>
     \/ /\ cmd[p] = "synchronize"
        /\ ~Adopts(p)
        /\ Finish(p)
     \/ /\ cmd[p] = "link"
        /\ Outcome(p) \in {"UpToDate", "NostStale"}
        /\ Goto(p, "link_commit")
        /\ UNCHANGED <<cmd, local>>
     \/ /\ cmd[p] = "link"
        /\ Outcome(p) \notin {"UpToDate", "NostStale"}
        /\ Finish(p)
  /\ UNCHANGED <<files, fate>>

\* adopt() opens the database anew and commits over whatever it finds.
AdoptOpen(p) ==
  /\ pc[p] = "adopt_open"
  /\ local' = [local EXCEPT ![p].gen = db.gen]
  /\ Goto(p, "adopt_commit")
  /\ UNCHANGED <<files, cmd, fate>>

\* Mutant: the baseline is not read back after the commit.
AdoptCommitOldBaseline(p) ==
  /\ pc[p] = "adopt_commit"
  /\ Advances(local[p].gen)
  /\ db' = [gen |-> local[p].gen + 1, graph |-> local[p].text.facts]
  /\ Goto(p, "write_baseline")
  /\ UNCHANGED <<nost, baseline, cmd, local, fate>>

AdoptCommit(p) ==
  /\ pc[p] = "adopt_commit"
  /\ Advances(local[p].gen)
  /\ db' = [gen |-> local[p].gen + 1, graph |-> local[p].text.facts]
  /\ Goto(p, "agreed_bytes")
  /\ UNCHANGED <<nost, baseline, cmd, local, fate>>

\* baseline_for() reads the bytes and then the database again.
AgreedBytes(p) ==
  /\ pc[p] = "agreed_bytes"
  /\ local' = [local EXCEPT ![p].database = db]
  /\ Goto(p, "agreed_generation")
  /\ UNCHANGED <<files, cmd, fate>>

AgreedGeneration(p) ==
  /\ pc[p] = "agreed_generation"
  /\ local' = [local EXCEPT ![p].gen = db.gen]
  /\ Goto(p, "write_baseline")
  /\ UNCHANGED <<files, cmd, fate>>

\* Mutant: the baseline names the text that was compared, not the one adopted.
WriteBaselineSeen(p) ==
  /\ pc[p] = "write_baseline"
  /\ baseline' = [gen |-> local[p].gen, database |-> local[p].database,
                  nost |-> IF cmd[p] = "export" THEN local[p].text ELSE local[p].seen]
  /\ Finish(p)
  /\ UNCHANGED <<db, nost, fate>>

WriteBaseline(p) ==
  /\ pc[p] = "write_baseline"
  /\ baseline' = [gen |-> local[p].gen, database |-> local[p].database,
                  nost |-> local[p].text]
  /\ Finish(p)
  /\ UNCHANGED <<db, nost, fate>>

-----------------------------------------------------------------------------
(* export_nost(), and synchronize() when there is no .nost file *)

Export(p) ==
  /\ Start(p, "export")
  /\ Goto(p, "read_graph")
  /\ UNCHANGED <<files, local, fate>>

ReadGraph(p) ==
  /\ pc[p] = "read_graph"
  /\ local' = [local EXCEPT ![p].graph = db.graph]
  /\ Goto(p, "write_nost")
  /\ UNCHANGED <<files, cmd, fate>>

\* Whoever asks for an export gives up what only the .nost file states.
WriteNost(p) ==
  /\ pc[p] = "write_nost"
  /\ nost' = Canonical(local[p].graph)
  /\ local' = [local EXCEPT ![p].text = nost']
  /\ fate' = IF cmd[p] = "export" THEN Remove(Facts(nost) \ local[p].graph) ELSE fate
  /\ Goto(p, "agreed_bytes")
  /\ UNCHANGED <<db, baseline, cmd>>

-----------------------------------------------------------------------------
(* Commands that change the database: a query that writes, build(), apply() *)

Open(p) ==
  /\ \E command \in {"query", "build"} :
       /\ Start(p, command)
       /\ Goto(p, IF command = "query" THEN "check" ELSE "commit")
  /\ \E g \in Change(db.graph) :
       local' = [local EXCEPT ![p] = [@ EXCEPT !.database = db, !.gen = db.gen, !.graph = g]]
  /\ UNCHANGED <<files, fate>>

\* Transaction::commit() compares generations; build() and apply() do not.
Check(p) ==
  /\ pc[p] = "check"
  /\ IF db.gen = local[p].gen
     THEN Goto(p, "commit") /\ UNCHANGED <<cmd, local>>
     ELSE Finish(p)
  /\ UNCHANGED <<files, fate>>

Commit(p) ==
  /\ pc[p] = "commit"
  /\ Advances(local[p].gen)
  /\ db' = [gen |-> local[p].gen + 1, graph |-> local[p].graph]
  /\ fate' = Worked(local[p].database.graph, local[p].graph)
  /\ Finish(p)
  /\ UNCHANGED <<nost, baseline>>

\* Generation::next() refuses to wrap.
Exhausted(p) ==
  /\ pc[p] \in {"adopt_commit", "commit", "link_commit"}
  /\ ~Advances(local[p].gen)
  /\ Finish(p)
  /\ UNCHANGED <<files, fate>>

-----------------------------------------------------------------------------
(* add_link() and remove_link() *)

Link(p) ==
  /\ Start(p, "link")
  /\ \E g \in Change(db.graph) :
       local' = [local EXCEPT ![p] = [@ EXCEPT !.database = db, !.graph = g]]
  /\ Goto(p, "link_open")
  /\ UNCHANGED <<files, fate>>

LinkOpen(p) ==
  /\ pc[p] = "link_open"
  /\ local' = [local EXCEPT ![p].gen = db.gen]
  /\ Goto(p, IF NostEnabled THEN "link_nost" ELSE "link_commit")
  /\ UNCHANGED <<files, cmd, fate>>

\* nost_to_write() has nothing to lose when there is no .nost file.
LinkNost(p) ==
  /\ pc[p] = "link_nost"
  /\ Goto(p, IF nost = Nothing THEN "link_commit" ELSE "read_baseline")
  /\ UNCHANGED <<files, cmd, local, fate>>

LinkCommit(p) ==
  /\ pc[p] = "link_commit"
  /\ Advances(local[p].gen)
  /\ db' = [gen |-> local[p].gen + 1, graph |-> local[p].graph]
  /\ IF NostEnabled
     THEN /\ nost' = Canonical(local[p].graph)
          /\ baseline' = [gen |-> db'.gen, database |-> db', nost |-> nost']
     ELSE UNCHANGED <<nost, baseline>>
  /\ fate' = Worked(local[p].database.graph, local[p].graph)
  /\ Finish(p)

-----------------------------------------------------------------------------
(* The environment *)

\* A link change, or a synchronization that found no .nost file.
Mirrors(p) ==
  /\ NostEnabled
  /\ \/ cmd[p] = "link"
     \/ cmd[p] = "synchronize" /\ pc[p] \in {"read_graph", "write_nost"}

MayEdit ==
  /\ "editor_waits" \in Discipline => \A p \in Process : pc[p] = "idle"
  /\ "mirror_waits" \in Discipline => \A p \in Process : ~Mirrors(p)

\* Whoever writes the file again after deleting it starts from what it last said.
Edit ==
  /\ MayEdit
  /\ LET old == IF nost = Nothing /\ baseline # Nothing THEN baseline.nost.facts
                ELSE Facts(nost)
     IN \E facts \in Change(old), form \in {"edited", "broken"} :
          /\ nost' = [facts |-> facts, form |-> form]
          /\ fate' = Worked(old, facts)
  /\ UNCHANGED <<db, baseline, pc, cmd, local>>

Delete ==
  /\ \A p \in Process : pc[p] = "idle"
  /\ nost # Nothing
  /\ nost' = Nothing
  /\ fate' = Remove(nost.facts \ db.graph)
  /\ UNCHANGED <<db, baseline, pc, cmd, local>>

Crash(p) ==
  /\ pc[p] # "idle"
  /\ Finish(p)
  /\ UNCHANGED <<files, fate>>

Next ==
  \/ \E p \in Process :
       \/ Synchronize(p) \/ ReadBaseline(p) \/ ReadBytes(p) \/ ReadNost(p)
       \/ Decide(p) \/ AdoptOpen(p) \/ AdoptCommit(p)
       \/ AgreedBytes(p) \/ AgreedGeneration(p) \/ WriteBaseline(p)
       \/ Export(p) \/ ReadGraph(p) \/ WriteNost(p)
       \/ Open(p) \/ Check(p) \/ Commit(p) \/ Exhausted(p)
       \/ Link(p) \/ LinkOpen(p) \/ LinkNost(p) \/ LinkCommit(p)
       \/ Crash(p)
  \/ Edit \/ Delete

Spec == Init /\ [][Next]_vars

-----------------------------------------------------------------------------
(* Properties *)

Step == {"idle", "read_baseline", "read_bytes", "read_nost", "decide", "adopt_open",
         "adopt_commit", "agreed_bytes", "agreed_generation", "write_baseline",
         "read_graph", "write_nost", "check", "commit", "link_open", "link_nost",
         "link_commit"}

\* Every variable holds a value of its kind.
TypeOK ==
  /\ db \in Container
  /\ nost \in Text \union {Nothing}
  /\ baseline \in Baseline \union {Nothing}
  /\ pc \in [Process -> Step]
  /\ cmd \in [Process -> CommandKind \union {"none"}]
  /\ local \in [Process -> Local]
  /\ fate \in [Fact -> {"unstated", "stated", "removed"}]

\* What somebody wrote into either representation, and nobody removed, is in one
\* of them: synchronization never discards one side's work silently.
NoWorkLost ==
  \A f \in Fact : fate[f] = "stated" => f \in Facts(nost) \union db.graph

\* The baseline records a state in which the two representations did agree.
BaselineIsAgreement ==
  baseline # Nothing =>
    /\ baseline.database.gen = baseline.gen
    /\ baseline.database.graph = baseline.nost.facts

\* When synchronize() would find nothing to do, the two say the same.
UpToDateAgrees ==
  baseline # Nothing /\ nost # Nothing /\ decide(baseline, State) = "UpToDate"
    => nost.facts = db.graph

\* While both representations have moved from the baseline, no step of
\* synchronize() modifies either.
ConflictModifiesNeither ==
  [][ \A p \in Process :
        /\ cmd[p] = "synchronize" /\ pc'[p] # pc[p]
        /\ baseline # Nothing /\ nost # Nothing /\ decide(baseline, State) = "Conflict"
        => UNCHANGED <<db, nost>> ]_vars

=============================================================================
