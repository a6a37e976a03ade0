---------------------------- MODULE ProjectProofs ----------------------------
(***************************************************************************)
(* Synchronization loses nothing, for every set of facts, processes and    *)
(* generations, when commands run one at a time and nobody edits the .nost *)
(* file while a command mirrors the graph into it.  It may be edited while *)
(* any other command runs, and a command may die at any step.              *)
(*                                                                         *)
(* The heart of Inv is RemovedOnPurpose: a fact the last agreed text       *)
(* stated is gone from either side only because somebody removed it.  So   *)
(* whichever side has moved alone, the other holds nothing of its own.     *)
(* What a command read may be out of date when it uses it: what an edit    *)
(* has dropped from the file since is removed (Taken), and what it has     *)
(* added is still there.                                                   *)
(***************************************************************************)
EXTENDS Project, TLAPS

\* One command at a time, and nobody edits a file that is being mirrored.
Disciplined ==
  /\ "one_command" \in Discipline
  /\ "mirror_waits" \in Discipline \/ "editor_waits" \in Discipline

SoleCommand ==
  \A p, q \in Process : p # q => pc[p] = "idle" \/ pc[q] = "idle"

Reading == {"read_baseline", "read_bytes", "read_nost", "decide"}

AllRemoved(g) == \A f \in g : fate[f] = "removed"

\* Whoever took this text from the .nost file, or wrote it there: what an edit
\* has dropped from the file since then is removed.
Taken(text) ==
  /\ text # Nothing
  /\ nost # Nothing
  /\ AllRemoved(text.facts \ nost.facts)

\* What a process has read at each step, and what of it the files still hold while
\* others may only edit the .nost file.
StepInv(p) ==
  LET here == local[p] IN
  /\ pc[p] \in Reading => nost # Nothing /\ cmd[p] \in {"synchronize", "link"}
  /\ pc[p] \in {"read_bytes", "read_nost", "decide"} =>
       here.base = baseline /\ baseline # Nothing
  /\ pc[p] \in {"read_nost", "decide"} => here.database = db
  /\ pc[p] = "decide" /\ cmd[p] = "link" => here.seen = nost
  /\ pc[p] \in Reading \union {"adopt_open", "adopt_commit"} /\ cmd[p] = "synchronize" =>
       /\ Taken(here.text)
       /\ baseline # Nothing => AllRemoved(baseline.nost.facts \ here.text.facts)
  /\ pc[p] \in {"adopt_open", "adopt_commit"} =>
       cmd[p] = "synchronize" /\ baseline # Nothing /\ db = baseline.database
  /\ pc[p] \in {"agreed_bytes", "agreed_generation", "write_baseline"} =>
       Taken(here.text) /\ here.text.facts = db.graph
  /\ pc[p] \in {"agreed_generation", "write_baseline"} => here.database = db
  /\ pc[p] \in {"adopt_commit", "write_baseline", "check", "commit", "link_commit"} =>
       here.gen = db.gen
  /\ pc[p] \in {"read_graph", "write_nost"} =>
       \/ cmd[p] = "export"
       \/ cmd[p] = "synchronize" /\ nost = Nothing /\ NostEnabled
  /\ pc[p] = "write_nost" => here.graph = db.graph
  /\ (pc[p] \in {"check", "commit", "link_open", "link_nost", "link_commit"} \/ cmd[p] = "link") =>
       /\ here.database # Nothing
       /\ here.database.graph = db.graph
       /\ baseline # Nothing =>
            \A f \in here.graph \ db.graph : f \notin baseline.nost.facts
  /\ cmd[p] = "link" /\ pc[p] # "link_open" => here.gen = db.gen
  /\ cmd[p] = "link" /\ pc[p] \notin {"link_open", "link_commit"} => NostEnabled
  /\ pc[p] \in {"check", "commit"} => cmd[p] \in {"query", "build"}
  /\ pc[p] \in {"link_open", "link_nost", "link_commit"} => cmd[p] = "link"
  /\ pc[p] = "link_commit" /\ NostEnabled /\ nost # Nothing =>
       baseline # Nothing /\ nost = baseline.nost
  /\ pc[p] = "idle" => cmd[p] = "none"

\* A fact the agreed text stated is gone from a side only if it was removed.
RemovedOnPurpose ==
  baseline # Nothing =>
    /\ AllRemoved(baseline.nost.facts \ db.graph)
    /\ nost # Nothing => AllRemoved(baseline.nost.facts \ nost.facts)

\* What a file states has been stated by somebody.
Known ==
  \A f \in Fact : fate[f] = "unstated" =>
    /\ f \notin db.graph \union Facts(nost)
    /\ baseline # Nothing => f \notin baseline.nost.facts

\* What the files and the history say of each other between any two steps.
Kept == RemovedOnPurpose /\ Known /\ BaselineIsAgreement /\ NoWorkLost

Inv ==
  /\ SoleCommand
  /\ \A p \in Process : StepInv(p)
  /\ Kept

\* The values a step uses have been read, whoever else runs.
Ready(p) ==
  /\ pc[p] \in {"read_baseline", "read_bytes", "read_nost", "decide"} /\ cmd[p] = "synchronize"
       => local[p].text # Nothing
  /\ pc[p] \in {"adopt_open", "adopt_commit", "agreed_bytes", "agreed_generation",
                "write_baseline"} => local[p].text # Nothing
  /\ pc[p] \in {"agreed_generation", "write_baseline"} => local[p].database # Nothing
  /\ pc[p] = "write_baseline" => local[p].gen # 0
  /\ pc[p] \in {"link_open", "link_nost"} => cmd[p] = "link"

Typed == TypeOK /\ \A p \in Process : Ready(p)

-----------------------------------------------------------------------------

LEMMA BlankType == Blank \in Local
BY ProjectAssumption DEF Blank, Local

LEMMA TextType ==
  ASSUME NEW r \in Local, NEW text \in Text \union {Nothing}
  PROVE  [r EXCEPT !.text = text] \in Local /\ [r EXCEPT !.seen = text] \in Local
BY DEF Local

LEMMA RecordType ==
  ASSUME NEW r \in Local, NEW d \in Container, NEW n \in 0 .. MaxGeneration,
         NEW g \in SUBSET Fact
  PROVE  /\ [r EXCEPT !.database = d, !.gen = n, !.graph = g] \in Local
         /\ [r EXCEPT !.database = d, !.graph = g] \in Local
BY DEF Local

LEMMA FateType ==
  ASSUME fate \in [Fact -> {"unstated", "stated", "removed"}]
  PROVE  /\ \A facts : Remove(facts) \in [Fact -> {"unstated", "stated", "removed"}]
         /\ \A old, new : Worked(old, new) \in [Fact -> {"unstated", "stated", "removed"}]
BY DEF Remove, Worked

LEMMA ChangeType ==
  ASSUME NEW g \in SUBSET Fact
  PROVE  Change(g) \subseteq SUBSET Fact
BY DEF Change

\* Every step of one process keeps the kinds of its own entries.
LEMMA FinishType ==
  ASSUME Typed, NEW p \in Process, Finish(p)
  PROVE  /\ pc' \in [Process -> Step]
         /\ cmd' \in [Process -> CommandKind \union {"none"}]
         /\ local' \in [Process -> Local]
         /\ \A q \in Process : Ready(q)'
BY BlankType DEF Typed, TypeOK, Finish, Goto, Step, Ready

\* Every variable keeps its kind, whatever rules the users keep.
LEMMA TypeStep == Typed /\ [Next]_vars => Typed'
<1> SUFFICES ASSUME Typed, [Next]_vars
             PROVE  Typed'
  OBVIOUS
<1> USE ProjectAssumption DEF Typed, TypeOK, files, Step, Ready
<1>1. CASE UNCHANGED vars
  BY <1>1 DEF vars
<1>2. ASSUME NEW p \in Process, Synchronize(p) PROVE Typed'
  <2>1. local' = [local EXCEPT ![p].text = nost]
    BY <1>2 DEF Synchronize
  <2>2. local' \in [Process -> Local]
    <3>1. [local[p] EXCEPT !.text = nost] \in Local
      BY TextType
    <3>2. QED BY <2>1, <3>1
  <2>3. \A q \in Process : local'[q].text = IF q = p THEN nost ELSE local[q].text
    BY <2>1 DEF Local
  <2>4. QED BY <1>2, <2>1, <2>2, <2>3 DEF Synchronize, Start, Goto
<1>3. ASSUME NEW p \in Process, ReadBaseline(p) PROVE Typed'
  <2>1. CASE baseline = Nothing
    BY <1>3, <2>1, FinishType DEF ReadBaseline
  <2>2. CASE baseline # Nothing
    <3>1. local' = [local EXCEPT ![p].base = baseline] /\ Goto(p, "read_bytes")
      BY <1>3, <2>2 DEF ReadBaseline
    <3>2. local' \in [Process -> Local]
      BY <3>1, <2>2 DEF Local
    <3>3. \A q \in Process : local'[q].text = local[q].text
      BY <3>1 DEF Local
    <3>4. QED BY <1>3, <2>2, <3>1, <3>2, <3>3 DEF ReadBaseline, Goto
  <2>3. QED BY <2>1, <2>2
<1>4. ASSUME NEW p \in Process, ReadBytes(p) PROVE Typed'
  BY <1>4 DEF ReadBytes, Goto, Local
<1>5. ASSUME NEW p \in Process, ReadNost(p) PROVE Typed'
  <2>1. /\ local' = [local EXCEPT ![p].seen = nost]
        /\ pc' = [pc EXCEPT ![p] = "decide"] /\ UNCHANGED <<db, nost, baseline, cmd, fate>>
        /\ pc[p] = "read_nost"
    BY <1>5 DEF ReadNost, Goto
  <2>2. local' \in [Process -> Local]
    <3>1. [local[p] EXCEPT !.seen = nost] \in Local
      BY TextType
    <3>2. QED BY <2>1, <3>1
  <2>3. \A q \in Process : local'[q].text = local[q].text
    BY <2>1 DEF Local
  <2>4. QED BY <2>1, <2>2, <2>3
<1>6. ASSUME NEW p \in Process, Decide(p) PROVE Typed'
  <2>1. CASE Finish(p)
    BY <1>6, <2>1, FinishType DEF Decide
  <2>2. CASE ~Finish(p)
    BY <1>6, <2>2 DEF Decide, Goto
  <2>3. QED BY <2>1, <2>2
<1>7. ASSUME NEW p \in Process, AdoptOpen(p) PROVE Typed'
  BY <1>7 DEF AdoptOpen, Goto, Local, Container
<1>8. ASSUME NEW p \in Process, AdoptCommit(p) PROVE Typed'
  <2>1. local[p].text \in Text /\ local[p].gen \in 0 .. MaxGeneration
    BY <1>8 DEF AdoptCommit, Local
  <2>2. db' \in Container
    BY <1>8, <2>1 DEF AdoptCommit, Container, Advances, Text
  <2>3. QED BY <1>8, <2>2 DEF AdoptCommit, Goto
<1>9. ASSUME NEW p \in Process, AgreedBytes(p) PROVE Typed'
  BY <1>9 DEF AgreedBytes, Goto, Local
<1>10. ASSUME NEW p \in Process, AgreedGeneration(p) PROVE Typed'
  BY <1>10 DEF AgreedGeneration, Goto, Local, Container
<1>11. ASSUME NEW p \in Process, WriteBaseline(p) PROVE Typed'
  <2>1. /\ local[p].text \in Text
        /\ local[p].database \in Container
        /\ local[p].gen \in 1 .. MaxGeneration
    BY <1>11 DEF WriteBaseline, Local
  <2>2. baseline' \in Baseline
    BY <1>11, <2>1 DEF WriteBaseline, Baseline
  <2>3. QED BY <1>11, <2>2, FinishType DEF WriteBaseline
<1>12. ASSUME NEW p \in Process, Export(p) PROVE Typed'
  BY <1>12 DEF Export, Start, Goto
<1>13. ASSUME NEW p \in Process, ReadGraph(p) PROVE Typed'
  BY <1>13 DEF ReadGraph, Goto, Local, Container
<1>14. ASSUME NEW p \in Process, WriteNost(p) PROVE Typed'
  <2>1. nost' \in Text
    BY <1>14 DEF WriteNost, Canonical, Text, Local
  <2>2. fate' \in [Fact -> {"unstated", "stated", "removed"}]
    BY <1>14, FateType DEF WriteNost
  <2>3. local' = [local EXCEPT ![p].text = nost']
    BY <1>14 DEF WriteNost
  <2>4. local' \in [Process -> Local]
    <3>1. [local[p] EXCEPT !.text = nost'] \in Local
      BY <2>1, TextType
    <3>2. QED BY <2>3, <3>1
  <2>5. \A q \in Process : Ready(q)'
    BY <1>14, <2>1, <2>3 DEF WriteNost, Goto, Local
  <2>6. QED BY <1>14, <2>1, <2>2, <2>4, <2>5 DEF WriteNost, Goto
<1>15. ASSUME NEW p \in Process, Open(p) PROVE Typed'
  <2>1. PICK g \in Change(db.graph) :
          local' = [local EXCEPT ![p] = [@ EXCEPT !.database = db, !.gen = db.gen, !.graph = g]]
    BY <1>15 DEF Open
  <2>2. g \in SUBSET Fact /\ db.gen \in 1 .. MaxGeneration
    BY ChangeType DEF Container
  <2> DEFINE r == [local[p] EXCEPT !.database = db, !.gen = db.gen, !.graph = g]
  <2>3. r \in Local
    <3>1. local[p] \in Local /\ db.gen \in 0 .. MaxGeneration
      BY <2>2
    <3>2. QED BY <2>2, <3>1, RecordType
  <2>4. local' = [local EXCEPT ![p] = r]
    BY <2>1
  <2> HIDE DEF r
  <2>5. local' \in [Process -> Local]
    BY <2>3, <2>4
  <2>6. \A q \in Process : q # p => local'[q] = local[q]
    BY <2>4
  <2>7. PICK command \in {"query", "build"} :
          /\ cmd' = [cmd EXCEPT ![p] = command]
          /\ pc' = [pc EXCEPT ![p] = IF command = "query" THEN "check" ELSE "commit"]
    BY <1>15 DEF Open, Start, Goto
  <2>8. UNCHANGED <<files, fate>>
    BY <1>15 DEF Open
  <2>9. TypeOK'
    BY <2>5, <2>7, <2>8 DEF CommandKind
  <2>10. \A q \in Process : Ready(q)'
    BY <2>6, <2>7
  <2>11. QED BY <2>9, <2>10
<1>16. ASSUME NEW p \in Process, Check(p) PROVE Typed'
  <2>1. CASE Finish(p)
    BY <1>16, <2>1, FinishType DEF Check
  <2>2. CASE ~Finish(p)
    BY <1>16, <2>2 DEF Check, Goto
  <2>3. QED BY <2>1, <2>2
<1>17. ASSUME NEW p \in Process, Commit(p) PROVE Typed'
  BY <1>17, FinishType, FateType DEF Commit, Local, Container, Advances
<1>18. ASSUME NEW p \in Process, Exhausted(p) PROVE Typed'
  BY <1>18, FinishType DEF Exhausted
<1>19. ASSUME NEW p \in Process, Link(p) PROVE Typed'
  <2>1. PICK g \in Change(db.graph) :
          local' = [local EXCEPT ![p] = [@ EXCEPT !.database = db, !.graph = g]]
    BY <1>19 DEF Link
  <2>2. g \in SUBSET Fact
    BY ChangeType DEF Container
  <2>3. [local[p] EXCEPT !.database = db, !.graph = g] \in Local
    <3>1. local[p] \in Local
      OBVIOUS
    <3>2. db \in Container \union {Nothing}
      OBVIOUS
    <3>3. QED BY <2>2, <3>1, <3>2 DEF Local
  <2>4. local' \in [Process -> Local]
    BY <2>1, <2>3
  <2>5. QED BY <1>19, <2>1, <2>4 DEF Link, Start, Goto, Local
<1>20. ASSUME NEW p \in Process, LinkOpen(p) PROVE Typed'
  <2>1. db.gen \in 0 .. MaxGeneration
    BY DEF Container
  <2>2. local' = [local EXCEPT ![p].gen = db.gen]
    BY <1>20 DEF LinkOpen
  <2>3. local' \in [Process -> Local]
    BY <2>1, <2>2 DEF Local
  <2>4. \A q \in Process : /\ local'[q].text = local[q].text
                           /\ q # p => local'[q] = local[q]
    BY <2>2 DEF Local
  <2>5. QED BY <1>20, <2>3, <2>4 DEF LinkOpen, Goto
<1>21. ASSUME NEW p \in Process, LinkNost(p) PROVE Typed'
  BY <1>21 DEF LinkNost, Goto
<1>22. ASSUME NEW p \in Process, LinkCommit(p) PROVE Typed'
  BY <1>22, FinishType, FateType DEF LinkCommit, Local, Container, Advances, Canonical, Text, Baseline
<1>23. ASSUME NEW p \in Process, Crash(p) PROVE Typed'
  BY <1>23, FinishType DEF Crash
<1>24. CASE Edit
  BY <1>24, FateType, ChangeType DEF Edit, Facts, Text, Baseline
<1>25. CASE Delete
  BY <1>25, FateType DEF Delete
<1>26. QED
  BY <1>1, <1>2, <1>3, <1>4, <1>5, <1>6, <1>7, <1>8, <1>9, <1>10, <1>11, <1>12,
     <1>13, <1>14, <1>15, <1>16, <1>17, <1>18, <1>19, <1>20, <1>21, <1>22, <1>23,
     <1>24, <1>25 DEF Next

\* Every variable keeps its kind, for every discipline of the users: TypeOK.
THEOREM TypeCorrect == Spec => []TypeOK
<1>1. Init => Typed
  BY ProjectAssumption, BlankType DEF Init, Typed, TypeOK, Ready, Step, Container
<1>2. Typed => TypeOK
  BY DEF Typed
<1>3. QED BY <1>1, <1>2, TypeStep, PTL DEF Spec

-----------------------------------------------------------------------------
(* The inductive step, one action at a time *)

Quiet(p) == \A q \in Process : q # p => pc[q] = "idle"

\* p takes a step: nobody else is inside a command.
LEMMA QuietOthers ==
  ASSUME Inv, NEW p \in Process,
         pc[p] # "idle" \/ (Disciplined /\ \E command : Start(p, command))
  PROVE  Quiet(p)
BY DEF Inv, SoleCommand, Quiet, Disciplined, Rule, Start

\* The processes that do not run claim nothing.
LEMMA Others ==
  ASSUME Inv, TypeOK, NEW p \in Process, Quiet(p),
         \A q \in Process : q # p => pc'[q] = pc[q] /\ cmd'[q] = cmd[q],
         StepInv(p)'
  PROVE  SoleCommand' /\ \A q \in Process : StepInv(q)'
<1>1. \A q \in Process : q # p => pc'[q] = "idle" /\ cmd'[q] = "none"
  BY DEF Inv, StepInv, Quiet
<1>2. SoleCommand'
  BY <1>1 DEF SoleCommand
<1>3. ASSUME NEW q \in Process, q # p PROVE StepInv(q)'
  BY <1>1, <1>3 DEF StepInv, Reading
<1>4. QED BY <1>2, <1>3

\* A command that ends claims nothing either.
LEMMA Finished ==
  ASSUME Inv, TypeOK, NEW p \in Process, pc[p] # "idle", Finish(p)
  PROVE  SoleCommand' /\ \A q \in Process : StepInv(q)'
<1>1. pc'[p] = "idle" /\ cmd'[p] = "none"
  BY DEF Finish, Goto, TypeOK
<1>2. StepInv(p)'
  BY <1>1 DEF StepInv, Reading
<1>3. \A q \in Process : q # p => pc'[q] = pc[q] /\ cmd'[q] = cmd[q]
  BY DEF Finish, Goto, TypeOK
<1>4. Quiet(p)
  BY QuietOthers
<1>5. QED BY <1>2, <1>3, <1>4, Others

\* A step inside a command.
LEMMA Inside ==
  ASSUME Inv, TypeOK, NEW p \in Process, pc[p] # "idle", NEW step, Goto(p, step),
         UNCHANGED cmd, StepInv(p)'
  PROVE  SoleCommand' /\ \A q \in Process : StepInv(q)'
<1>1. \A q \in Process : q # p => pc'[q] = pc[q] /\ cmd'[q] = cmd[q]
  BY DEF Goto, TypeOK
<1>2. Quiet(p)
  BY QuietOthers
<1>3. QED BY <1>1, <1>2, Others

LEMMA FilesKeep == Kept /\ UNCHANGED <<files, fate>> => Kept'
BY DEF Kept, RemovedOnPurpose, AllRemoved, Known, BaselineIsAgreement, NoWorkLost, files, Facts

LEMMA WorkKeeps ==
  ASSUME TypeOK, NEW old \in SUBSET Fact, NEW new \in SUBSET Fact,
         fate' = Worked(old, new)
  PROVE  /\ \A f \in Fact : fate[f] = "removed" /\ f \notin new \ old => fate'[f] = "removed"
         /\ \A f \in old \ new : fate'[f] = "removed"
         /\ \A f \in Fact \ new : fate'[f] = "stated" => fate[f] = "stated" /\ f \notin old
         /\ \A f \in Fact : fate'[f] = "unstated" => fate[f] = "unstated" /\ f \notin new \ old
BY DEF TypeOK, Worked, Remove

LEMMA ChangeFacts ==
  ASSUME NEW g \in SUBSET Fact, NEW new \in Change(g)
  PROVE  new \in SUBSET Fact /\ \A f \in new \ g : fate[f] = "unstated"
BY DEF Change

\* What a text, a graph or a baseline states are facts.
LEMMA FactsType ==
  ASSUME TypeOK
  PROVE  /\ db.graph \in SUBSET Fact /\ Facts(nost) \in SUBSET Fact
         /\ nost # Nothing => nost.facts \in SUBSET Fact
         /\ baseline # Nothing => baseline.nost.facts \in SUBSET Fact
         /\ \A p \in Process :
              /\ local[p].graph \in SUBSET Fact
              /\ local[p].text # Nothing => local[p].text.facts \in SUBSET Fact
BY DEF TypeOK, Container, Text, Baseline, Facts, Local

LEMMA CommitWorks ==
  ASSUME TypeOK, NEW new \in SUBSET Fact, fate' = Worked(db.graph, new)
  PROVE  /\ \A f \in Fact : fate[f] = "removed" /\ f \notin new \ db.graph => fate'[f] = "removed"
         /\ \A f \in db.graph \ new : fate'[f] = "removed"
         /\ \A f \in Fact \ new : fate'[f] = "stated" => fate[f] = "stated" /\ f \notin db.graph
         /\ \A f \in Fact : fate'[f] = "unstated" => fate[f] = "unstated" /\ f \notin new \ db.graph
<1>1. db.graph \in SUBSET Fact
  BY FactsType
<1>2. QED BY <1>1, WorkKeeps

\* A change of the database alone keeps the files' agreement: nothing it adds is a
\* fact of the agreed text, which nobody could have added again.
LEMMA CommitKeeps ==
  ASSUME Kept, TypeOK, NEW new \in SUBSET Fact,
         baseline # Nothing => \A f \in new \ db.graph : f \notin baseline.nost.facts,
         db'.graph = new, fate' = Worked(db.graph, new), UNCHANGED <<nost, baseline>>
  PROVE  Kept'
<1>1. db.graph \in SUBSET Fact /\ (baseline # Nothing => baseline.nost.facts \in SUBSET Fact)
  BY FactsType
<1>2. /\ \A f \in Fact : fate[f] = "removed" /\ f \notin new \ db.graph => fate'[f] = "removed"
      /\ \A f \in db.graph \ new : fate'[f] = "removed"
      /\ \A f \in Fact \ new : fate'[f] = "stated" => fate[f] = "stated" /\ f \notin db.graph
      /\ \A f \in Fact : fate'[f] = "unstated" => fate[f] = "unstated" /\ f \notin new \ db.graph
  BY CommitWorks
<1>3. RemovedOnPurpose'
  BY <1>1, <1>2 DEF Kept, RemovedOnPurpose, AllRemoved
<1>4. Known'
  BY <1>2 DEF Kept, Known, Facts
<1>5. BaselineIsAgreement'
  BY DEF Kept, BaselineIsAgreement
<1>6. NoWorkLost'
  BY <1>2 DEF Kept, NoWorkLost, Facts
<1>7. QED BY <1>3, <1>4, <1>5, <1>6 DEF Kept

LEMMA InvInit == Init => Inv
BY ProjectAssumption DEF Init, Inv, SoleCommand, StepInv, Reading, Kept, RemovedOnPurpose,
   Known, Facts, BaselineIsAgreement, NoWorkLost, Blank

LEMMA ReadingStep ==
  ASSUME Inv, TypeOK, NEW p \in Process,
         ReadBaseline(p) \/ ReadBytes(p) \/ ReadNost(p) \/ Decide(p)
  PROVE  Inv'
<1> USE DEF TypeOK
<1>1. Kept'
  BY FilesKeep DEF Inv, ReadBaseline, ReadBytes, ReadNost, Decide
<1>2. CASE Finish(p)
  BY <1>1, <1>2, Finished DEF Inv, ReadBaseline, ReadBytes, ReadNost, Decide
<1>3. CASE ReadBaseline(p) /\ ~Finish(p)
  <2>1. /\ baseline # Nothing
        /\ local' = [local EXCEPT ![p].base = baseline]
        /\ Goto(p, "read_bytes")
        /\ UNCHANGED <<files, cmd, fate>>
    BY <1>3 DEF ReadBaseline
  <2>2. local'[p] = [local[p] EXCEPT !.base = baseline]
    BY <2>1
  <2>3. StepInv(p)'
    <3>1. /\ pc[p] = "read_baseline" /\ pc'[p] = "read_bytes" /\ cmd'[p] = cmd[p]
          /\ UNCHANGED <<db, nost, baseline, fate>>
      BY <1>3, <2>1 DEF ReadBaseline, Goto, files
    <3>2. /\ local'[p].base = baseline /\ local'[p].text = local[p].text
          /\ local'[p].database = local[p].database /\ local'[p].gen = local[p].gen
          /\ local'[p].graph = local[p].graph
      BY <2>2 DEF Local
    <3>3. StepInv(p)
      BY DEF Inv
    <3>4. QED BY <2>1, <3>1, <3>2, <3>3 DEF StepInv, Reading, Taken, AllRemoved
  <2>4. QED BY <1>1, <1>3, <2>1, <2>3, Inside DEF Inv, ReadBaseline
<1>4. CASE ReadBytes(p)
  <2>1. /\ pc[p] = "read_bytes" /\ pc'[p] = "read_nost"
        /\ UNCHANGED <<db, nost, baseline, cmd, fate>>
    BY <1>4 DEF ReadBytes, Goto, files
  <2>2. /\ local'[p].database = db
        /\ local'[p].base = local[p].base /\ local'[p].text = local[p].text
        /\ local'[p].graph = local[p].graph /\ local'[p].gen = local[p].gen
    BY <1>4 DEF ReadBytes, Local
  <2>3. db # Nothing
    BY ProjectAssumption
  <2>4. StepInv(p)
    BY DEF Inv
  <2>5. StepInv(p)'
    BY <2>1, <2>2, <2>3, <2>4 DEF StepInv, Reading, Taken, AllRemoved
  <2>6. QED BY <1>1, <1>4, <2>5, Inside DEF Inv, ReadBytes
<1>5. CASE ReadNost(p)
  <2>1. StepInv(p)'
    BY <1>5 DEF Inv, StepInv, Reading, Taken, AllRemoved, Goto, ReadNost, files, Local
  <2>2. QED BY <1>1, <1>5, <2>1, Inside DEF Inv, ReadNost
<1>6. CASE Decide(p) /\ ~Finish(p)
  <2>1. CASE cmd[p] = "synchronize"
    <3>1. Adopts(p) /\ Goto(p, "adopt_open") /\ UNCHANGED <<cmd, local, files, fate>>
      BY <1>6, <2>1 DEF Decide
    <3>2. db = baseline.database
      BY <1>6, <3>1 DEF Adopts, Outcome, decide, Inv, StepInv, Decide
    <3>3. StepInv(p)'
      BY <1>6, <2>1, <3>1, <3>2 DEF Inv, StepInv, Reading, Taken, AllRemoved, Goto, Decide, files
    <3>4. QED BY <1>1, <1>6, <3>1, <3>3, Inside DEF Inv, Decide
  <2>2. CASE cmd[p] = "link"
    <3>1. /\ Outcome(p) \in {"UpToDate", "NostStale"}
          /\ Goto(p, "link_commit") /\ UNCHANGED <<cmd, local, files, fate>>
      BY <1>6, <2>2 DEF Decide
    <3>2. nost = baseline.nost
      BY <1>6, <2>2, <3>1 DEF Outcome, decide, Inv, StepInv, Decide
    <3>3. StepInv(p)'
      BY <1>6, <2>2, <3>1, <3>2 DEF Inv, StepInv, Reading, Taken, AllRemoved, Goto, Decide, files
    <3>4. QED BY <1>1, <1>6, <3>1, <3>3, Inside DEF Inv, Decide
  <2>3. QED BY <1>6, <2>1, <2>2 DEF Decide
<1>7. QED BY <1>2, <1>3, <1>4, <1>5, <1>6 DEF ReadBytes, ReadNost

LEMMA AdoptingStep ==
  ASSUME Inv, TypeOK, TypeOK', NEW p \in Process,
         \/ AdoptOpen(p) \/ AdoptCommit(p) \/ AgreedBytes(p)
         \/ AgreedGeneration(p) \/ WriteBaseline(p)
  PROVE  Inv'
<1> USE DEF TypeOK
<1>1. StepInv(p)
  BY DEF Inv
<1>2. CASE AdoptOpen(p)
  <2>1. Kept'
    BY <1>2, FilesKeep DEF Inv, AdoptOpen
  <2>2. StepInv(p)'
    BY <1>1, <1>2 DEF StepInv, Reading, Taken, AllRemoved, Goto, AdoptOpen, files, Local
  <2>3. QED BY <1>2, <2>1, <2>2, Inside DEF Inv, AdoptOpen
<1>3. CASE AdoptCommit(p)
  <2> DEFINE text == local[p].text
  <2>1. /\ pc[p] = "adopt_commit" /\ pc'[p] = "agreed_bytes"
        /\ db'.graph = text.facts
        /\ UNCHANGED <<nost, baseline, cmd, local, fate>>
        /\ baseline # Nothing /\ db = baseline.database
        /\ Taken(text) /\ AllRemoved(baseline.nost.facts \ text.facts)
        /\ cmd[p] = "synchronize"
    BY <1>1, <1>3 DEF StepInv, AdoptCommit, Goto
  <2>2. text.facts \in SUBSET Fact
    BY <2>1, FactsType DEF Taken
  <2>3. StepInv(p)'
    BY <1>1, <2>1 DEF StepInv, Reading, Taken, AllRemoved
  <2>4. RemovedOnPurpose' /\ BaselineIsAgreement'
    BY <2>1 DEF Inv, Kept, RemovedOnPurpose, AllRemoved, BaselineIsAgreement
  <2>5. Known'
    BY <2>1, <2>2 DEF Inv, Kept, Known, Facts, Taken, AllRemoved
  <2>6. NoWorkLost'
    <3>1. \A f \in db.graph : f \notin text.facts => fate[f] = "removed"
      BY <2>1 DEF Inv, Kept, AllRemoved, BaselineIsAgreement
    <3>2. QED BY <2>1, <3>1 DEF Inv, Kept, NoWorkLost, Facts
  <2>7. QED BY <1>3, <2>3, <2>4, <2>5, <2>6, Inside DEF Inv, Kept, AdoptCommit
<1>4. CASE AgreedBytes(p)
  <2>1. Kept'
    BY <1>4, FilesKeep DEF Inv, AgreedBytes
  <2>2. /\ pc[p] = "agreed_bytes" /\ pc'[p] = "agreed_generation"
        /\ UNCHANGED <<db, nost, baseline, cmd, fate>>
    BY <1>4 DEF AgreedBytes, Goto, files
  <2>3. /\ local'[p].database = db
        /\ local'[p].text = local[p].text /\ local'[p].gen = local[p].gen
        /\ local'[p].graph = local[p].graph
    BY <1>4 DEF AgreedBytes, Local
  <2>4. StepInv(p)'
    BY <1>1, <2>2, <2>3, ProjectAssumption DEF StepInv, Reading, Taken, AllRemoved
  <2>5. QED BY <1>4, <2>1, <2>4, Inside DEF Inv, AgreedBytes
<1>5. CASE AgreedGeneration(p)
  <2>1. Kept'
    BY <1>5, FilesKeep DEF Inv, AgreedGeneration
  <2>2. StepInv(p)'
    BY <1>1, <1>5 DEF StepInv, Reading, Taken, AllRemoved, Goto, AgreedGeneration, files, Local
  <2>3. QED BY <1>5, <2>1, <2>2, Inside DEF Inv, AgreedGeneration
<1>6. CASE WriteBaseline(p)
  <2> DEFINE text == local[p].text
  <2>1. /\ baseline' = [gen |-> db.gen, database |-> db, nost |-> text]
        /\ Taken(text) /\ text.facts = db.graph
        /\ UNCHANGED <<db, nost, fate>>
    BY <1>1, <1>6 DEF StepInv, WriteBaseline
  <2>2. Kept'
    BY <2>1 DEF Inv, Kept, RemovedOnPurpose, AllRemoved, Known, Taken, Facts,
       BaselineIsAgreement, NoWorkLost
  <2>3. QED BY <1>6, <2>2, Finished DEF Inv, WriteBaseline
<1>7. QED BY <1>2, <1>3, <1>4, <1>5, <1>6

LEMMA ExportingStep ==
  ASSUME Inv, TypeOK, TypeOK', NEW p \in Process, ReadGraph(p) \/ WriteNost(p)
  PROVE  Inv'
<1> USE DEF TypeOK
<1>1. StepInv(p)
  BY DEF Inv
<1>2. CASE ReadGraph(p)
  <2>1. Kept'
    BY <1>2, FilesKeep DEF Inv, ReadGraph
  <2>2. StepInv(p)'
    BY <1>1, <1>2 DEF StepInv, Reading, Goto, ReadGraph, files, Local
  <2>3. QED BY <1>2, <2>1, <2>2, Inside DEF Inv, ReadGraph
<1>3. CASE WriteNost(p)
  <2>1. /\ pc[p] = "write_nost" /\ pc'[p] = "agreed_bytes"
        /\ nost' = [facts |-> db.graph, form |-> "canonical"]
        /\ UNCHANGED <<db, baseline, cmd>>
        /\ fate' = IF cmd[p] = "export" THEN Remove(Facts(nost) \ db.graph) ELSE fate
        /\ cmd[p] = "export" \/ (cmd[p] = "synchronize" /\ nost = Nothing)
    BY <1>1, <1>3 DEF StepInv, WriteNost, Goto, Canonical
  <2>2. local'[p].text = nost'
    BY <1>3 DEF WriteNost, Local
  <2>3. nost' # Nothing /\ nost'.facts = db'.graph
    <3>1. nost'.facts = db'.graph
      BY <2>1
    <3>2. nost' \in Text
      BY <2>1 DEF Text, Container
    <3>3. QED BY <3>1, <3>2, ProjectAssumption
  <2>4. StepInv(p)'
    <3>1. pc'[p] = "agreed_bytes" /\ cmd'[p] \in {"export", "synchronize"}
      BY <2>1
    <3>2. QED BY <2>2, <2>3, <3>1 DEF StepInv, Reading, Taken, AllRemoved
  <2>5. \A f \in Fact : /\ fate[f] = "removed" => fate'[f] = "removed"
                        /\ fate'[f] = "unstated" => fate[f] = "unstated"
    BY <2>1 DEF Remove
  <2>6. \A f \in Fact : fate'[f] = "stated" =>
          fate[f] = "stated" /\ f \notin Facts(nost) \ db.graph
    BY <2>1 DEF Remove, Facts
  <2>7. RemovedOnPurpose' /\ Known'
    BY <2>1, <2>5, FactsType DEF Inv, Kept, RemovedOnPurpose, AllRemoved, Known, Facts
  <2>8. BaselineIsAgreement' /\ NoWorkLost'
    BY <2>1, <2>3, <2>6 DEF Inv, Kept, BaselineIsAgreement, NoWorkLost, Facts
  <2>9. QED BY <1>3, <2>4, <2>7, <2>8, Inside DEF Inv, Kept, WriteNost
<1>4. QED BY <1>2, <1>3

LEMMA ChangingStep ==
  ASSUME Inv, TypeOK, TypeOK', Disciplined, NEW p \in Process,
         Open(p) \/ Check(p) \/ Commit(p) \/ Exhausted(p) \/ Crash(p)
  PROVE  Inv'
<1> USE DEF TypeOK
<1>1. StepInv(p)
  BY DEF Inv
<1>2. CASE Open(p)
  <2>1. PICK command \in {"query", "build"} :
          /\ Start(p, command)
          /\ cmd' = [cmd EXCEPT ![p] = command]
          /\ pc' = [pc EXCEPT ![p] = IF command = "query" THEN "check" ELSE "commit"]
    BY <1>2 DEF Open, Start, Goto
  <2>2. PICK g \in Change(db.graph) :
          local' = [local EXCEPT ![p] = [@ EXCEPT !.database = db, !.gen = db.gen, !.graph = g]]
    BY <1>2 DEF Open
  <2>3. /\ local'[p].database = db /\ local'[p].gen = db.gen /\ local'[p].graph = g
    BY <2>2 DEF Local
  <2>4. baseline # Nothing => \A f \in g \ db.graph : f \notin baseline.nost.facts
    BY ChangeFacts, FactsType DEF Inv, Kept, Known
  <2>5. UNCHANGED <<db, nost, baseline, fate>>
    BY <1>2 DEF Open, files
  <2>6. StepInv(p)'
    <3>1. pc'[p] \in {"check", "commit"} /\ cmd'[p] \in {"query", "build"}
      BY <2>1
    <3>2. QED BY <2>3, <2>4, <2>5, <3>1, ProjectAssumption DEF StepInv, Reading
  <2>7. Quiet(p)
    BY <2>1, QuietOthers
  <2>8. \A q \in Process : q # p => pc'[q] = pc[q] /\ cmd'[q] = cmd[q]
    BY <2>1
  <2>9. Kept'
    BY <2>5, FilesKeep DEF Inv, files
  <2>10. QED BY <2>6, <2>7, <2>8, <2>9, Others DEF Inv
<1>3. CASE Check(p)
  <2>1. Kept'
    BY <1>3, FilesKeep DEF Inv, Check
  <2>2. CASE Finish(p)
    BY <1>3, <2>1, <2>2, Finished DEF Inv, Check
  <2>3. CASE ~Finish(p)
    <3>1. StepInv(p)'
      BY <1>1, <1>3, <2>3 DEF StepInv, Reading, Goto, Check, files
    <3>2. QED BY <1>3, <2>1, <2>3, <3>1, Inside DEF Inv, Check
  <2>4. QED BY <2>2, <2>3
<1>4. CASE Commit(p)
  <2>1. /\ db'.graph = local[p].graph
        /\ fate' = Worked(db.graph, local[p].graph)
        /\ UNCHANGED <<nost, baseline>>
        /\ baseline # Nothing =>
             \A f \in local[p].graph \ db.graph : f \notin baseline.nost.facts
    BY <1>1, <1>4 DEF StepInv, Commit
  <2>2. local[p].graph \in SUBSET Fact
    BY FactsType
  <2>3. Kept'
    BY <2>1, <2>2, CommitKeeps DEF Inv
  <2>4. QED BY <1>4, <2>3, Finished DEF Inv, Commit
<1>5. CASE Exhausted(p) \/ Crash(p)
  <2>1. pc[p] # "idle" /\ Finish(p) /\ UNCHANGED <<files, fate>>
    BY <1>5 DEF Exhausted, Crash
  <2>2. QED BY <2>1, FilesKeep, Finished DEF Inv
<1>6. QED BY <1>2, <1>3, <1>4, <1>5

LEMMA LinkingStep ==
  ASSUME Inv, TypeOK, TypeOK', Disciplined, NEW p \in Process,
         Link(p) \/ LinkOpen(p) \/ LinkNost(p) \/ LinkCommit(p)
  PROVE  Inv'
<1> USE DEF TypeOK
<1>1. StepInv(p)
  BY DEF Inv
<1>2. CASE Link(p)
  <2>1. /\ Start(p, "link")
        /\ cmd' = [cmd EXCEPT ![p] = "link"]
        /\ pc' = [pc EXCEPT ![p] = "link_open"]
        /\ UNCHANGED <<db, nost, baseline, fate>>
    BY <1>2 DEF Link, Start, Goto, files
  <2>2. PICK g \in Change(db.graph) :
          local' = [local EXCEPT ![p] = [@ EXCEPT !.database = db, !.graph = g]]
    BY <1>2 DEF Link
  <2>3. local'[p].database = db /\ local'[p].graph = g
    BY <2>2 DEF Local
  <2>4. baseline # Nothing => \A f \in g \ db.graph : f \notin baseline.nost.facts
    BY ChangeFacts, FactsType DEF Inv, Kept, Known
  <2>5. StepInv(p)'
    <3>1. pc'[p] = "link_open" /\ cmd'[p] = "link"
      BY <2>1
    <3>2. QED BY <2>1, <2>3, <2>4, <3>1, ProjectAssumption DEF StepInv, Reading
  <2>6. Quiet(p)
    BY <2>1, QuietOthers
  <2>7. \A q \in Process : q # p => pc'[q] = pc[q] /\ cmd'[q] = cmd[q]
    BY <2>1
  <2>8. Kept'
    BY <2>1, FilesKeep DEF Inv, files
  <2>9. QED BY <2>5, <2>6, <2>7, <2>8, Others DEF Inv
<1>3. CASE LinkOpen(p)
  <2>1. Kept'
    BY <1>3, FilesKeep DEF Inv, LinkOpen
  <2>2. /\ pc[p] = "link_open"
        /\ pc'[p] = IF NostEnabled THEN "link_nost" ELSE "link_commit"
        /\ UNCHANGED <<db, nost, baseline, cmd, fate>>
    BY <1>3 DEF LinkOpen, Goto, files
  <2>3. /\ local'[p].gen = db.gen /\ local'[p].database = local[p].database
        /\ local'[p].graph = local[p].graph
    BY <1>3 DEF LinkOpen, Local
  <2>4. StepInv(p)'
    BY <1>1, <2>2, <2>3 DEF StepInv, Reading
  <2>5. QED BY <1>3, <2>1, <2>4, Inside DEF Inv, LinkOpen
<1>4. CASE LinkNost(p)
  <2>1. Kept'
    BY <1>4, FilesKeep DEF Inv, LinkNost
  <2>2. StepInv(p)'
    BY <1>1, <1>4 DEF StepInv, Reading, Goto, LinkNost, files
  <2>3. QED BY <1>4, <2>1, <2>2, Inside DEF Inv, LinkNost
<1>5. CASE LinkCommit(p)
  <2> DEFINE new == local[p].graph
  <2>1. /\ db'.graph = new
        /\ fate' = Worked(db.graph, new)
        /\ baseline # Nothing => \A f \in new \ db.graph : f \notin baseline.nost.facts
    BY <1>1, <1>5 DEF StepInv, LinkCommit
  <2>2. new \in SUBSET Fact /\ db.graph \in SUBSET Fact
    BY FactsType
  <2> HIDE DEF new
  <2>3. CASE ~NostEnabled
    <3>1. UNCHANGED <<nost, baseline>>
      BY <1>5, <2>3 DEF LinkCommit
    <3>2. QED BY <1>5, <2>1, <2>2, <3>1, CommitKeeps, Finished DEF Inv, LinkCommit
  <2>4. CASE NostEnabled
    <3>1. /\ nost' = [facts |-> new, form |-> "canonical"]
          /\ baseline'.database = db' /\ baseline'.gen = db'.gen /\ baseline'.nost = nost'
      BY <1>5, <2>4 DEF LinkCommit, Canonical, new
    <3>2. /\ \A f \in Fact : fate[f] = "removed" /\ f \notin new \ db.graph => fate'[f] = "removed"
          /\ \A f \in db.graph \ new : fate'[f] = "removed"
          /\ \A f \in Fact \ new : fate'[f] = "stated" => fate[f] = "stated" /\ f \notin db.graph
          /\ \A f \in Fact : fate'[f] = "unstated" => fate[f] = "unstated" /\ f \notin new \ db.graph
      BY <2>1, <2>2, CommitWorks
    <3>3. RemovedOnPurpose' /\ BaselineIsAgreement'
      BY <2>1, <3>1 DEF RemovedOnPurpose, AllRemoved, BaselineIsAgreement
    <3>4. Known'
      BY <2>1, <3>1, <3>2 DEF Inv, Kept, Known, Facts
    <3>5. nost # Nothing => baseline # Nothing /\ nost = baseline.nost
      BY <1>1, <1>5, <2>4 DEF StepInv, LinkCommit
    <3>6. \A f \in Facts(nost) \ db.graph : fate[f] = "removed"
      BY <3>5 DEF Facts, Inv, Kept, RemovedOnPurpose, AllRemoved
    <3>7. NoWorkLost'
      BY <2>1, <2>2, <3>1, <3>2, <3>6 DEF Inv, Kept, NoWorkLost, Facts
    <3>8. QED BY <1>5, <3>3, <3>4, <3>7, Finished DEF Inv, Kept, LinkCommit
  <2>5. QED BY <2>3, <2>4
<1>6. QED BY <1>2, <1>3, <1>4, <1>5

\* An edit changes nothing that a process with a command has read: no command
\* mirrors, and what the edit drops from the file is removed.
LEMMA EditUnder ==
  ASSUME Inv, TypeOK, Disciplined, NEW p \in Process,
         ~Mirrors(p) \/ \A q \in Process : pc[q] = "idle",
         UNCHANGED <<db, baseline, pc, cmd, local>>, nost' # Nothing,
         \A f \in Fact : fate[f] = "removed" => fate'[f] = "removed",
         \A f \in Facts(nost) \ nost'.facts : fate'[f] = "removed"
  PROVE  StepInv(p)'
<1>1. StepInv(p)
  BY DEF Inv
<1>2. CASE pc[p] = "idle"
  BY <1>1, <1>2 DEF StepInv, Reading
<1>3. CASE pc[p] # "idle"
  <2>1. ~Mirrors(p)
    BY <1>3
  <2>2. ASSUME NEW text, Taken(text), text.facts \in SUBSET Fact
        PROVE  Taken(text)'
    BY <2>2 DEF Taken, AllRemoved, Facts
  <2>3. local[p].text # Nothing => local[p].text.facts \in SUBSET Fact
    BY FactsType
  <2>4. Taken(local[p].text) => Taken(local[p].text)'
    BY <2>2, <2>3 DEF Taken
  <2>5. baseline # Nothing /\ AllRemoved(baseline.nost.facts \ local[p].text.facts) =>
          AllRemoved(baseline.nost.facts \ local[p].text.facts)'
    BY FactsType DEF AllRemoved
  <2>6. QED BY <1>1, <1>3, <2>1, <2>4, <2>5 DEF StepInv, Reading, Mirrors
<1>4. QED BY <1>2, <1>3

LEMMA EnvironmentStep ==
  ASSUME Inv, TypeOK, TypeOK', Disciplined, Edit \/ Delete
  PROVE  Inv'
<1> USE DEF TypeOK
<1>1. UNCHANGED <<db, baseline, pc, cmd, local>>
  BY DEF Edit, Delete
<1>2. SoleCommand' /\ BaselineIsAgreement'
  BY <1>1 DEF Inv, SoleCommand, Kept, BaselineIsAgreement
<1>3. CASE Edit
  <2> DEFINE old == IF nost = Nothing /\ baseline # Nothing THEN baseline.nost.facts
                    ELSE Facts(nost)
  <2>1. old \in SUBSET Fact
    BY FactsType
  <2>2. PICK facts \in Change(old), form \in {"edited", "broken"} :
          /\ nost' = [facts |-> facts, form |-> form]
          /\ fate' = Worked(old, facts)
    BY <1>3 DEF Edit
  <2>3. facts \in SUBSET Fact /\ \A f \in facts \ old : fate[f] = "unstated"
    BY <2>1, <2>2, ChangeFacts
  <2>4. nost'.facts = facts /\ nost' # Nothing
    <3>1. nost' \in Text /\ nost'.facts = facts
      BY <2>2, <2>3 DEF Text
    <3>2. QED BY <3>1, ProjectAssumption
  <2>5. \A f \in Facts(nost) : f \in old
    BY DEF Facts
  <2>6. baseline # Nothing => \A f \in baseline.nost.facts : f \in old \/ fate[f] = "removed"
    BY DEF Inv, Kept, RemovedOnPurpose, AllRemoved, Facts
  <2>7. baseline # Nothing => baseline.nost.facts \in SUBSET Fact
    BY FactsType
  <2> HIDE DEF old
  <2>8. /\ \A f \in Fact : fate[f] = "removed" => fate'[f] = "removed"
        /\ \A f \in old \ facts : fate'[f] = "removed"
        /\ \A f \in Fact \ facts : fate'[f] = "stated" => fate[f] = "stated" /\ f \notin old
        /\ \A f \in Fact : fate'[f] = "unstated" => fate[f] = "unstated" /\ f \notin facts \ old
    BY <2>1, <2>2, <2>3, WorkKeeps
  <2>9. RemovedOnPurpose'
    BY <1>1, <2>4, <2>6, <2>7, <2>8 DEF Inv, Kept, RemovedOnPurpose, AllRemoved
  <2>10. Known'
    <3>1. \A f \in Fact : fate[f] = "unstated" => f \notin old
      BY DEF old, Inv, Kept, Known
    <3>2. QED BY <1>1, <2>4, <2>8, <3>1 DEF Inv, Kept, Known, Facts
  <2>11. NoWorkLost'
    BY <1>1, <2>4, <2>5, <2>8 DEF Inv, Kept, NoWorkLost, Facts
  <2>12. \A p \in Process : ~Mirrors(p) \/ \A q \in Process : pc[q] = "idle"
    BY <1>3 DEF Edit, MayEdit, Disciplined
  <2>13. \A f \in Facts(nost) \ nost'.facts : fate'[f] = "removed"
    BY <2>4, <2>5, <2>8
  <2>14. \A p \in Process : StepInv(p)'
    BY <1>1, <2>4, <2>8, <2>12, <2>13, EditUnder
  <2>15. QED BY <1>2, <2>9, <2>10, <2>11, <2>14 DEF Inv, Kept
<1>4. CASE Delete
  <2>1. /\ \A p \in Process : pc[p] = "idle"
        /\ nost' = Nothing /\ nost # Nothing /\ fate' = Remove(nost.facts \ db.graph)
    BY <1>4 DEF Delete
  <2>2. \A p \in Process : StepInv(p)'
    BY <1>1, <2>1 DEF Inv, StepInv, Reading
  <2>3. /\ \A f \in Fact : fate[f] = "removed" => fate'[f] = "removed"
        /\ \A f \in Fact : fate'[f] = "stated" =>
             fate[f] = "stated" /\ f \notin nost.facts \ db.graph
        /\ \A f \in Fact : fate'[f] = "unstated" => fate[f] = "unstated"
    BY <2>1 DEF Remove
  <2>4. RemovedOnPurpose' /\ Known' /\ NoWorkLost'
    BY <1>1, <2>1, <2>3, FactsType DEF Inv, Kept, RemovedOnPurpose, AllRemoved, Known,
       NoWorkLost, Facts
  <2>5. QED BY <1>2, <2>2, <2>4 DEF Inv, Kept
<1>5. QED BY <1>3, <1>4

\* The commands that take the first step from idle read nothing yet.
LEMMA StartingStep ==
  ASSUME Inv, TypeOK, TypeOK', Disciplined, NEW p \in Process, Synchronize(p) \/ Export(p)
  PROVE  Inv'
<1> USE DEF TypeOK
<1>1. PICK command \in {"synchronize", "export"} :
        Start(p, command) /\ cmd'[p] = command /\ UNCHANGED <<db, nost, baseline, fate>>
  BY DEF Synchronize, Export, Start, files
<1>2. Quiet(p)
  BY <1>1, QuietOthers
<1>3. \A q \in Process : q # p => pc'[q] = pc[q] /\ cmd'[q] = cmd[q]
  BY DEF Synchronize, Export, Start, Goto
<1>4. Kept'
  BY <1>1, FilesKeep DEF Inv, files
<1>5. StepInv(p)'
  <2>1. CASE Synchronize(p)
    <3>1. /\ local'[p].text = nost /\ cmd'[p] = "synchronize"
          /\ pc'[p] = IF nost = Nothing THEN "read_graph" ELSE "read_baseline"
      BY <2>1 DEF Synchronize, Start, Goto, Local
    <3>2. CASE nost = Nothing
      <4>1. NostEnabled
        BY <2>1, <3>2 DEF Synchronize
      <4>2. QED BY <1>1, <3>1, <3>2, <4>1 DEF StepInv, Reading
    <3>3. CASE nost # Nothing
      BY <1>1, <3>1, <3>3 DEF StepInv, Reading, Taken, AllRemoved, Inv, Kept, RemovedOnPurpose
    <3>4. QED BY <3>2, <3>3
  <2>2. CASE Export(p)
    <3>1. pc'[p] = "read_graph" /\ cmd'[p] = "export"
      BY <2>2 DEF Export, Start, Goto
    <3>2. QED BY <1>1, <3>1 DEF StepInv, Reading
  <2>3. QED BY <2>1, <2>2
<1>6. QED BY <1>2, <1>3, <1>4, <1>5, Others DEF Inv

LEMMA InvStep ==
  ASSUME Inv, TypeOK, TypeOK', Disciplined, [Next]_vars
  PROVE  Inv'
<1>1. CASE UNCHANGED vars
  BY <1>1 DEF vars, Inv, SoleCommand, StepInv, Taken, AllRemoved, Kept, RemovedOnPurpose,
     Known, BaselineIsAgreement, NoWorkLost, Facts
<1>2. CASE Next
  BY <1>2, StartingStep, ReadingStep, AdoptingStep, ExportingStep, ChangingStep, LinkingStep,
     EnvironmentStep DEF Next
<1>3. QED BY <1>1, <1>2

\* Inv holds of every state when the users keep to Disciplined.
LEMMA AlwaysInv == ASSUME Disciplined PROVE Spec => []Inv
<1>1. Inv /\ TypeOK /\ TypeOK' /\ [Next]_vars => Inv'
  BY InvStep
<1>2. QED BY <1>1, InvInit, TypeCorrect, PTL DEF Spec

\* Synchronization discards nobody's work, whatever crashes: NoWorkLost.
THEOREM WorkNeverLost == ASSUME Disciplined PROVE Spec => []NoWorkLost
<1>1. Inv => NoWorkLost
  BY DEF Inv, Kept
<1>2. QED BY <1>1, AlwaysInv, PTL

\* The baseline always records an agreement: BaselineIsAgreement.
THEOREM BaselineAlwaysAgreement == ASSUME Disciplined PROVE Spec => []BaselineIsAgreement
<1>1. Inv => BaselineIsAgreement
  BY DEF Inv, Kept
<1>2. QED BY <1>1, AlwaysInv, PTL

\* When synchronize() has nothing to do, both representations say the same:
\* UpToDateAgrees.
THEOREM UpToDateAlwaysAgrees == ASSUME Disciplined PROVE Spec => []UpToDateAgrees
<1>1. Inv => UpToDateAgrees
  BY DEF Inv, Kept, BaselineIsAgreement, UpToDateAgrees, decide, State
<1>2. QED BY <1>1, AlwaysInv, PTL

\* Synchronization modifies neither side of a conflict: ConflictModifiesNeither.
THEOREM ConflictsUntouched == ASSUME Disciplined PROVE Spec => ConflictModifiesNeither
<1> DEFINE Untouched ==
      \A p \in Process :
        /\ cmd[p] = "synchronize" /\ pc'[p] # pc[p]
        /\ baseline # Nothing /\ nost # Nothing /\ decide(baseline, State) = "Conflict"
        => UNCHANGED <<db, nost>>
<1>1. ASSUME Inv, TypeOK, [Next]_vars PROVE Untouched
  <2> SUFFICES ASSUME NEW p \in Process, cmd[p] = "synchronize", pc'[p] # pc[p],
                      baseline # Nothing, nost # Nothing,
                      decide(baseline, State) = "Conflict"
               PROVE  UNCHANGED <<db, nost>>
    OBVIOUS
  <2>1. db.gen # baseline.gen \/ db # baseline.database
    BY DEF decide, State
  <2>2. StepInv(p) /\ BaselineIsAgreement
    BY <1>1 DEF Inv, Kept
  <2>3. pc[p] \notin {"adopt_commit", "write_nost", "commit", "link_commit"}
    BY <2>1, <2>2 DEF StepInv, BaselineIsAgreement
  <2>4. Next
    BY <1>1 DEF vars
  <2>5. ASSUME NEW q \in Process,
               AdoptCommit(q) \/ WriteNost(q) \/ Commit(q) \/ LinkCommit(q)
        PROVE  FALSE
    <3>1. q # p
      BY <2>3, <2>5 DEF AdoptCommit, WriteNost, Commit, LinkCommit
    <3>2. pc'[p] = pc[p]
      BY <1>1, <2>5, <3>1 DEF AdoptCommit, WriteNost, Commit, LinkCommit, Finish, Goto, TypeOK
    <3>3. QED BY <3>2
  <2>6. ~Edit /\ ~Delete
    BY DEF Edit, Delete
  <2>7. QED
    BY <2>4, <2>5, <2>6 DEF Next, Synchronize, ReadBaseline, ReadBytes, ReadNost, Decide,
       AdoptOpen, AgreedBytes, AgreedGeneration, WriteBaseline, Export, ReadGraph, Open, Check,
       Exhausted, Link, LinkOpen, LinkNost, Crash, files
<1>2. Inv /\ TypeOK /\ [Next]_vars => [Untouched]_vars
  BY <1>1
<1>3. QED BY <1>2, AlwaysInv, TypeCorrect, PTL DEF Spec, ConflictModifiesNeither

=============================================================================
