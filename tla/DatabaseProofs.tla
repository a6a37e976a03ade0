--------------------------- MODULE DatabaseProofs ---------------------------
(***************************************************************************)
(* One database: its file across crashes, and the queries over its graph.  *)
(*                                                                         *)
(* Crash safety, for every set of processes, every payload and every       *)
(* generation bound: when callers keep the three rules, storage.rs keeps   *)
(* what its documentation promises, whatever crashes and whichever call to *)
(* the filesystem fails.  The properties are not inductive: that a         *)
(* promoted file is whole depends on what a durable journal says about the *)
(* staged file, which depends on where the one process that has the        *)
(* database open is in commit() or recover().  Inv states that dependency, *)
(* step by step.                                                           *)
(*                                                                         *)
(* The writing clauses, for every expression, pattern, graph and query:    *)
(* what a clause's counts say is what it did, a deletion leaves no loose   *)
(* edge, and a SET takes its values from the graph the clause found.       *)
(* execute.rs goes through the rows of a clause and mutate.rs through the  *)
(* writes of a row, so the first half of the argument is about a writer    *)
(* record that goes from one write to the next (Moves, Sheds, SoFar), and  *)
(* the second about the session (SessionInv).                              *)
(*                                                                         *)
(* The page a projection answers with: given that the values it compares   *)
(* have one order, so have its rows and its sort keys, and the sort, the   *)
(* duplicates and the window lose nothing (PagesAreSlices).                *)
(***************************************************************************)
EXTENDS Storage, Query, FiniteSetTheorems, WellFoundedInduction, TLAPS

\* Callers keep the rules; every fault may happen.
Disciplined == Rule \subseteq Discipline

\* No two processes are inside the engine at once.
SoleProcess ==
  \A p, q \in Process : p # q => pc[p] = "closed" \/ pc[q] = "closed"

\* What a process that is building the next container knows about the files.
Building(p) ==
  /\ journal # "durable"
  /\ db = intent
  /\ held[p] = db

\* The container `c` is the one that follows the file's.
Follows(c) == c \in Container /\ c.gen = db.gen + 1

\* What each step of commit() and recover() may assume of the three files.
StepInv(p) ==
  /\ out[p] = (IF pc[p] = "staging" THEN "staged" ELSE "none")
  /\ pc[p] = "open" => Building(p)
  /\ pc[p] = "staging" => Building(p) /\ Follows(next[p]) /\ staged = Torn
  /\ pc[p] = "staged" => Building(p) /\ Follows(next[p]) /\ staged = next[p]
  /\ pc[p] = "journalled" => /\ journal = "durable"
                             /\ Follows(next[p])
                             /\ staged = next[p]
                             /\ intent = next[p]
  /\ pc[p] = "promoted" => /\ db = next[p]
                           /\ intent = next[p]
                           /\ staged = NoFile
  /\ pc[p] = "recovering" => plan[p] = journal
  /\ pc[p] = "discarding" => plan[p] = journal /\ db = intent
  /\ pc[p] = "forgetting" => db = intent /\ staged = NoFile
  /\ pc[p] = "recovered" => journal = "none" /\ db = intent

\* What the three files mean to the next recovery, whoever runs it.
FilesInv ==
  /\ db \in Container
  /\ journal # "durable" => db = intent
  /\ journal = "durable" /\ staged = NoFile => db = intent
  /\ journal = "durable" /\ staged # NoFile => staged = intent /\ Follows(intent)
  /\ acked # NoFile => acked \in Container /\ (db = acked \/ db.gen > acked.gen)

Inv == TypeOK /\ SoleProcess /\ FilesInv /\ \A p \in Process : StepInv(p)

-----------------------------------------------------------------------------

\* TypeOK alone is inductive, with no assumption on faults or callers.
LEMMA TypeStep == TypeOK /\ [Next]_vars => TypeOK'
<1> SUFFICES ASSUME TypeOK, [Next]_vars
             PROVE  TypeOK'
  OBVIOUS
<1> USE StorageAssumption
       DEF TypeOK, Goto, File, Step, CommitStep, RecoverStep, files, memory, history
<1>1. CASE UNCHANGED vars
  BY <1>1 DEF vars
<1>2. ASSUME NEW p \in Process, Open(p) PROVE TypeOK'
  BY <1>2 DEF Open
<1>3. ASSUME NEW p \in Process, Close(p) PROVE TypeOK'
  BY <1>3 DEF Close
<1>4. ASSUME NEW p \in Process, StageCreate(p) PROVE TypeOK'
  <2>1. PICK v \in Payload :
          next' = [next EXCEPT ![p] = [gen |-> held[p].gen + 1, payload |-> v]]
    BY <1>4 DEF StageCreate, Advances, Successor
  <2>2. [gen |-> held[p].gen + 1, payload |-> v] \in Container
    BY <1>4 DEF StageCreate, Advances, Successor, Container
  <2>3. /\ next' \in [Process -> File]
        /\ next'[p] \in Container
        /\ \A q \in Process \ {p} : next'[q] = next[q]
    BY <2>1, <2>2
  <2>4. /\ pc' \in [Process -> Step] /\ pc'[p] = "staging"
        /\ \A q \in Process \ {p} : pc'[q] = pc[q]
        /\ held' = held /\ held[p] \in Container
    BY <1>4 DEF StageCreate, Advances, Successor
  <2>5. QED BY <1>4, <2>3, <2>4 DEF StageCreate, Advances, Successor
<1>5. ASSUME NEW p \in Process, StageWrite(p) PROVE TypeOK'
  BY <1>5 DEF StageWrite, Written
<1>6. ASSUME NEW p \in Process, JournalWrite(p) PROVE TypeOK'
  BY <1>6 DEF JournalWrite
<1>7. ASSUME NEW p \in Process, Promote(p) PROVE TypeOK'
  BY <1>7 DEF Promote, HandlesAfterRename
<1>8. ASSUME NEW p \in Process, Forget(p) PROVE TypeOK'
  BY <1>8 DEF Forget
<1>9. ASSUME NEW p \in Process, Fail(p) PROVE TypeOK'
  BY <1>9 DEF Fail, TornJournal
<1>10. ASSUME NEW p \in Process, RecoverRead(p) PROVE TypeOK'
  BY <1>10 DEF RecoverRead
<1>11. ASSUME NEW p \in Process, RecoverPromote(p) PROVE TypeOK'
  BY <1>11 DEF RecoverPromote, HandlesAfterRename
<1>12. ASSUME NEW p \in Process, RecoverDiscard(p) PROVE TypeOK'
  BY <1>12 DEF RecoverDiscard, HandlesAfterUnlink
<1>13. ASSUME NEW p \in Process, RecoverForget(p) PROVE TypeOK'
  BY <1>13 DEF RecoverForget
<1>14. ASSUME NEW p \in Process, Crash(p) PROVE TypeOK'
  BY <1>14 DEF Crash, TornJournal
<1>15. ASSUME NEW p \in Process, RecoverFail(p) PROVE TypeOK'
  BY <1>15 DEF RecoverFail
<1>16. QED
  BY <1>1, <1>2, <1>3, <1>4, <1>5, <1>6, <1>7, <1>8, <1>9, <1>10, <1>11,
     <1>12, <1>13, <1>14, <1>15 DEF Next

\* While a process acts, every other one is outside the engine.
LEMMA OthersClosed ==
  ASSUME Disciplined, TypeOK, SoleProcess, NEW p \in Process,
         pc[p] # "closed" \/ Alone(p)
  PROVE  \A q \in Process \ {p} : pc[q] = "closed"
BY DEF SoleProcess, Alone, Disciplined, Rule

\* A step of one process that leaves the others outside, and their handles
\* alone, keeps what the invariant says of them.
LEMMA OthersKeep ==
  ASSUME Disciplined, Inv, NEW p \in Process,
         pc[p] # "closed" \/ Alone(p),
         \E s \in Step : Goto(p, s),
         \A q \in Process \ {p} : out'[q] = out[q]
  PROVE  SoleProcess' /\ \A q \in Process \ {p} : StepInv(q)'
<1>1. \A q \in Process \ {p} : pc[q] = "closed"
  BY OthersClosed DEF Inv
<1>2. \A q \in Process \ {p} : pc'[q] = "closed"
  BY <1>1 DEF Goto, Inv, TypeOK
<1>3. \A q \in Process \ {p} : out'[q] = "none"
  BY <1>1 DEF Inv, StepInv
<1>4. SoleProcess'
  BY <1>2 DEF SoleProcess
<1>5. ASSUME NEW q \in Process \ {p} PROVE StepInv(q)'
  BY <1>2, <1>3 DEF StepInv
<1>6. QED BY <1>4, <1>5

\* No handle is open on the staged file when a promotion or a recovery acts,
\* so a rename or an unlink leaves every handle as it is.
LEMMA HandlesIdle ==
  ASSUME Disciplined, Inv, NEW p \in Process,
         pc[p] # "closed", pc[p] # "staging"
  PROVE  /\ HandlesAfterRename = out
         /\ HandlesAfterUnlink = out
<1>1. \A q \in Process : out[q] = "none"
  <2>1. out[p] = "none"
    BY DEF Inv, StepInv
  <2>2. \A q \in Process \ {p} : pc[q] = "closed"
    BY OthersClosed DEF Inv
  <2>3. QED BY <2>1, <2>2 DEF Inv, StepInv
<1>2. out \in [Process -> {"none", "staged", "db", "unlinked"}]
  BY DEF Inv, TypeOK
<1>3. QED BY <1>1, <1>2 DEF HandlesAfterRename, HandlesAfterUnlink

LEMMA InvInit == Init => Inv
<1> SUFFICES ASSUME Init PROVE Inv
  OBVIOUS
<1> USE StorageAssumption DEF Init
<1>1. TypeOK
  BY DEF TypeOK, File, Container, Step, CommitStep, RecoverStep
<1>2. SoleProcess
  BY DEF SoleProcess
<1>3. FilesInv
  BY DEF FilesInv, Container
<1>4. ASSUME NEW p \in Process PROVE StepInv(p)
  BY DEF StepInv
<1>5. QED BY <1>1, <1>2, <1>3, <1>4 DEF Inv

LEMMA InvStep ==
  ASSUME Disciplined PROVE Inv /\ [Next]_vars => Inv'
<1> SUFFICES ASSUME Inv, [Next]_vars PROVE Inv'
  OBVIOUS
<1>t. TypeOK /\ TypeOK'
  BY TypeStep DEF Inv
<1>f. NoFile \notin Container /\ Torn \notin Container /\ NoFile # Torn
  BY StorageAssumption
<1>c. \A c \in Container : c.gen \in Nat
  BY StorageAssumption DEF Container
<1> DEFINE Kept(p) == FilesInv' /\ StepInv(p)'
           Others(p) == SoleProcess' /\ \A q \in Process \ {p} : StepInv(q)'
<1>1. CASE UNCHANGED vars
  <2>1. SoleProcess' /\ FilesInv'
    BY <1>1 DEF Inv, vars, SoleProcess, FilesInv, Follows
  <2>2. ASSUME NEW p \in Process PROVE StepInv(p)'
    BY <1>1 DEF Inv, vars, StepInv, Building, Follows
  <2>3. QED BY <1>t, <2>1, <2>2 DEF Inv
<1>2. ASSUME NEW p \in Process, Open(p) PROVE Kept(p) /\ Others(p)
  <2>1. pc[p] = "recovered"
    BY <1>2 DEF Open, Disciplined, Rule
  <2>2. Others(p)
    BY <1>2, <2>1, OthersKeep DEF Open, Step
  <2>3. Kept(p)
    BY <1>2, <1>t, <2>1 DEF Open, Goto, Inv, TypeOK, FilesInv, Follows, StepInv,
                            Building, files, history
  <2>4. QED BY <2>2, <2>3
<1>3. ASSUME NEW p \in Process, Close(p) PROVE Kept(p) /\ Others(p)
  <2>1. Others(p)
    BY <1>3, OthersKeep DEF Close, Step
  <2>2. Kept(p)
    BY <1>3, <1>t DEF Close, Goto, Inv, TypeOK, FilesInv, Follows, StepInv,
                      files, history
  <2>3. QED BY <2>1, <2>2
<1>4. ASSUME NEW p \in Process, StageCreate(p) PROVE Kept(p) /\ Others(p)
  <2>1. Others(p)
    <3>1. \A q \in Process \ {p} : out'[q] = out[q]
      BY <1>4, <1>t DEF StageCreate, Advances, Successor, TypeOK
    <3>2. QED BY <1>4, <3>1, OthersKeep DEF StageCreate, Advances, Successor, Step, CommitStep
  <2>2. FilesInv'
    BY <1>4, <1>t DEF StageCreate, Advances, Successor, Inv, FilesInv, Follows, StepInv, Building, history
  <2>3. Follows(next[p])'
    <3>1. PICK v \in Payload :
            next' = [next EXCEPT ![p] = [gen |-> held[p].gen + 1, payload |-> v]]
      BY <1>4 DEF StageCreate, Advances, Successor
    <3>2. next'[p] = [gen |-> held[p].gen + 1, payload |-> v]
      BY <3>1, <1>t DEF TypeOK
    <3>3. held[p] = db /\ db' = db /\ db \in Container /\ held[p].gen < MaxGeneration
      BY <1>4 DEF StageCreate, Advances, Successor, Inv, StepInv, Building, FilesInv
    <3>4. next'[p] \in Container
      BY <3>2, <3>3, StorageAssumption DEF Container
    <3>5. QED BY <3>2, <3>3, <3>4 DEF Follows
  <2>4. StepInv(p)'
    BY <1>4, <1>t, <2>3 DEF StageCreate, Advances, Successor, Goto, Inv, TypeOK, StepInv, Building, history
  <2>5. QED BY <2>1, <2>2, <2>4
<1>5. ASSUME NEW p \in Process, StageWrite(p) PROVE Kept(p) /\ Others(p)
  <2>1. Others(p)
    <3>1. \A q \in Process \ {p} : out'[q] = out[q]
      BY <1>5, <1>t DEF StageWrite, TypeOK
    <3>2. QED BY <1>5, <3>1, OthersKeep DEF StageWrite, Step, CommitStep
  <2>2. out[p] = "staged" /\ staged = Torn
    BY <1>5 DEF StageWrite, Inv, StepInv
  <2>3. staged' = next[p] /\ db' = db
    BY <1>5, <2>2 DEF StageWrite, Written
  <2>4. Kept(p)
    BY <1>5, <1>t, <1>f, <2>3 DEF StageWrite, Goto, Inv, TypeOK, FilesInv, Follows,
                             StepInv, Building, memory, history
  <2>5. QED BY <2>1, <2>4
<1>6. ASSUME NEW p \in Process, JournalWrite(p) PROVE Kept(p) /\ Others(p)
  <2>1. Others(p)
    BY <1>6, OthersKeep DEF JournalWrite, Step, CommitStep
  <2>2. Kept(p)
    BY <1>6, <1>t, <1>f DEF JournalWrite, Goto, Inv, TypeOK, FilesInv, Follows,
                       StepInv, Building, memory
  <2>3. QED BY <2>1, <2>2
<1>7. ASSUME NEW p \in Process, Promote(p) PROVE Kept(p) /\ Others(p)
  <2>1. out' = out
    BY <1>7, HandlesIdle DEF Promote
  <2>2. Others(p)
    BY <1>7, <2>1, OthersKeep DEF Promote, Step, CommitStep
  <2>3. Kept(p)
    BY <1>7, <1>t, <1>f, <1>c, <2>1
       DEF Promote, Goto, Inv, TypeOK, FilesInv, Follows, StepInv, memory, history
  <2>4. QED BY <2>2, <2>3
<1>8. ASSUME NEW p \in Process, Forget(p) PROVE Kept(p) /\ Others(p)
  <2>1. Others(p)
    BY <1>8, OthersKeep DEF Forget, Step
  <2>2. Kept(p)
    BY <1>8, <1>t, <1>f DEF Forget, Goto, Inv, TypeOK, FilesInv, Follows, StepInv, Building
  <2>3. QED BY <2>1, <2>2
<1>9. ASSUME NEW p \in Process, Fail(p) PROVE Kept(p) /\ Others(p)
  <2>1. Goto(p, "closed") /\ UNCHANGED <<db, staged, history>>
    BY <1>9 DEF Fail, Disciplined, Rule
  <2>2. Others(p)
    <3>1. \A q \in Process \ {p} : out'[q] = out[q]
      BY <1>9, <1>t DEF Fail, TypeOK
    <3>2. pc[p] # "closed"
      BY <1>9 DEF Fail
    <3>3. QED BY <2>1, <3>1, <3>2, OthersKeep DEF Step
  <2>3. FilesInv'
    <3>1. CASE pc[p] = "staged"
      <4>1. journal # "durable" /\ journal' # "durable" /\ db = intent
        BY <1>9, <3>1 DEF Fail, Inv, StepInv, Building, TornJournal
      <4>2. QED BY <2>1, <4>1 DEF Inv, FilesInv, history
    <3>2. CASE pc[p] # "staged"
      <4>1. journal' = journal
        BY <1>9, <3>2 DEF Fail
      <4>2. QED BY <2>1, <4>1 DEF Inv, FilesInv, Follows, history
    <3>3. QED BY <3>1, <3>2
  <2>4. StepInv(p)'
    BY <1>9, <1>t, <2>1 DEF Fail, Goto, TypeOK, StepInv
  <2>5. QED BY <2>2, <2>3, <2>4
<1>10. ASSUME NEW p \in Process, RecoverRead(p) PROVE Kept(p) /\ Others(p)
  <2>1. Others(p)
    BY <1>10, OthersKeep DEF RecoverRead, Step, RecoverStep
  <2>2. Kept(p)
    BY <1>10, <1>t DEF RecoverRead, Goto, Inv, TypeOK, FilesInv, Follows, StepInv,
                       files, history
  <2>3. QED BY <2>1, <2>2
<1>11. ASSUME NEW p \in Process, RecoverPromote(p) PROVE Kept(p) /\ Others(p)
  <2>1. out' = out
    BY <1>11, HandlesIdle DEF RecoverPromote
  <2>2. Others(p)
    BY <1>11, <2>1, OthersKeep DEF RecoverPromote, Step, RecoverStep
  <2>3. Kept(p)
    BY <1>11, <1>t, <1>f, <1>c, <2>1
       DEF RecoverPromote, Goto, Inv, TypeOK, FilesInv, Follows, StepInv, memory, history
  <2>4. QED BY <2>2, <2>3
<1>12. ASSUME NEW p \in Process, RecoverDiscard(p) PROVE Kept(p) /\ Others(p)
  <2>1. out' = out
    BY <1>12, HandlesIdle DEF RecoverDiscard
  <2>2. Others(p)
    BY <1>12, <2>1, OthersKeep DEF RecoverDiscard, Step, RecoverStep
  <2>3. Kept(p)
    BY <1>12, <1>t, <1>f, <2>1
       DEF RecoverDiscard, Goto, Inv, TypeOK, FilesInv, Follows, StepInv, memory, history
  <2>4. QED BY <2>2, <2>3
<1>13. ASSUME NEW p \in Process, RecoverForget(p) PROVE Kept(p) /\ Others(p)
  <2>1. Others(p)
    BY <1>13, OthersKeep DEF RecoverForget, Step
  <2>2. Kept(p)
    BY <1>13, <1>t DEF RecoverForget, Goto, Inv, TypeOK, FilesInv, Follows, StepInv,
                       memory, history
  <2>3. QED BY <2>1, <2>2
<1>14. ASSUME NEW p \in Process, Crash(p) PROVE Kept(p) /\ Others(p)
  <2>1. Others(p)
    <3>1. \A q \in Process \ {p} : out'[q] = out[q]
      BY <1>14, <1>t DEF Crash, TypeOK
    <3>2. QED BY <1>14, <3>1, OthersKeep DEF Crash, Step
  <2>2. journal' = journal \/ (pc[p] = "staged" /\ journal' = "torn")
    BY <1>14 DEF Crash, TornJournal
  <2>3. Kept(p)
    BY <1>14, <1>t, <1>f, <2>2 DEF Crash, Goto, Inv, TypeOK, FilesInv, Follows, StepInv,
                              Building, history
  <2>4. QED BY <2>1, <2>3
<1>15. ASSUME NEW p \in Process, RecoverFail(p) PROVE Kept(p) /\ Others(p)
  <2>1. Others(p)
    BY <1>15, OthersKeep DEF RecoverFail, Step, RecoverStep
  <2>2. Kept(p)
    BY <1>15, <1>t DEF RecoverFail, RecoverStep, Goto, Inv, TypeOK, FilesInv, Follows, StepInv,
                       files, memory, history
  <2>3. QED BY <2>1, <2>2
<1>16. ASSUME NEW p \in Process, Kept(p) /\ Others(p) PROVE Inv'
  BY <1>16, <1>t DEF Inv
<1>17. QED
  BY <1>1, <1>2, <1>3, <1>4, <1>5, <1>6, <1>7, <1>8, <1>9, <1>10, <1>11,
     <1>12, <1>13, <1>14, <1>15, <1>16 DEF Next

-----------------------------------------------------------------------------

\* Every variable keeps its kind, under every fault and every caller.
THEOREM TypeCorrect == Spec => []TypeOK
<1>1. Init => TypeOK
  BY StorageAssumption
     DEF Init, TypeOK, File, Container, Step, CommitStep, RecoverStep
<1>2. QED
  BY <1>1, TypeStep, PTL DEF Spec

LEMMA Invariance == ASSUME Disciplined PROVE Spec => []Inv
BY InvInit, InvStep, PTL DEF Spec

\* A reader of the database file always decodes one whole container: a staged
\* file is only ever renamed into place complete (storage.rs, commit, recover).
THEOREM ReadableAlways == ASSUME Disciplined PROVE Spec => []DatabaseReadable
<1>1. Inv => DatabaseReadable
  BY DEF Inv, FilesInv, DatabaseReadable
<1>2. QED
  BY <1>1, Invariance, PTL

\* recover() finishes exactly the commit whose journal was durable, and a
\* handle opened after it builds on that container.
THEOREM IntentAlwaysCarriedOut ==
  ASSUME Disciplined PROVE Spec => [](RecoveredIsIntent /\ OpenedIsIntent)
<1>1. Inv => RecoveredIsIntent /\ OpenedIsIntent
  BY DEF Inv, StepInv, Building, RecoveredIsIntent, OpenedIsIntent
<1>2. QED
  BY <1>1, Invariance, PTL

\* What commit() returned Ok for is never taken back.
THEOREM AcknowledgedAlwaysSurvives ==
  ASSUME Disciplined PROVE Spec => []AcknowledgedSurvives
<1>1. Inv => AcknowledgedSurvives
  BY DEF Inv, FilesInv, AcknowledgedSurvives
<1>2. QED
  BY <1>1, Invariance, PTL

\* A durable journal never promises a file that is not whole.
THEOREM PromiseAlwaysWhole ==
  ASSUME Disciplined PROVE Spec => []PromisedFileIsWhole
<1>1. Inv => PromisedFileIsWhole
  BY DEF Inv, FilesInv, PromisedFileIsWhole
<1>2. QED
  BY <1>1, Invariance, PTL

\* Under the invariant, a step changes the database file only by renaming the
\* next generation over it.
LEMMA FileStep ==
  ASSUME Disciplined, Inv, [Next]_vars
  PROVE  db' = db \/ (db' \in Container /\ db'.gen = db.gen + 1)
<1>1. Inv'
  BY InvStep
<1>2. ASSUME NEW p \in Process, Promote(p)
      PROVE  db' \in Container /\ db'.gen = db.gen + 1
  BY <1>2 DEF Promote, Inv, StepInv, Follows
<1>3. ASSUME NEW p \in Process, RecoverPromote(p)
      PROVE  db' = db \/ (db' \in Container /\ db'.gen = db.gen + 1)
  <2>1. journal = "durable"
    BY <1>3 DEF RecoverPromote, Inv, StepInv
  <2>2. QED
    BY <1>3, <2>1 DEF RecoverPromote, Inv, FilesInv, Follows
<1>4. ASSUME NEW p \in Process, StageWrite(p) PROVE db' = db
  BY <1>4 DEF StageWrite, Inv, StepInv
<1>5. QED
  BY <1>2, <1>3, <1>4
     DEF Next, vars, files, Open, Close, StageCreate, Advances, Successor, JournalWrite, Forget, Fail,
         RecoverRead, RecoverDiscard, RecoverForget, RecoverFail, Crash

\* Two different contents of the file never share a generation number.
THEOREM GenerationAlwaysAdvances ==
  ASSUME Disciplined PROVE Spec => GenerationAdvances
<1>1. Inv /\ [Next]_vars =>
        [db' # db => db' \in Container /\ db.gen + 1 = db'.gen]_vars
  <2>1. ASSUME Inv, [Next]_vars, db' # db
        PROVE  db' \in Container /\ db.gen + 1 = db'.gen
    BY <2>1, FileStep
  <2>2. QED BY <2>1
<1>2. QED
  BY <1>1, Invariance, PTL DEF Spec, GenerationAdvances

\* The three files and every process inside the engine implement the abstract
\* database: each step is one commit, one acknowledgement, or invisible.
THEOREM Refinement == ASSUME Disciplined PROVE Spec => ImplementsAtomicDatabase
<1>1. Init => Atomic!Init
  BY DEF Init, Atomic!Init, Container, Atomic!Container
<1>2. Inv /\ [Next]_vars => [Atomic!Next]_<<db, acked>>
  <2> SUFFICES ASSUME Inv, [Next]_vars PROVE [Atomic!Next]_<<db, acked>>
    OBVIOUS
  <2>1. ASSUME NEW p \in Process, Forget(p) PROVE Atomic!Acknowledge
    BY <2>1 DEF Forget, Inv, StepInv, Atomic!Acknowledge
  <2>2. CASE db' # db /\ acked' = acked
    BY <2>2, FileStep DEF Atomic!Next, Atomic!Commit, Container, Atomic!Container
  <2>3. acked' = acked \/ \E p \in Process : Forget(p)
    BY DEF Next, vars, files, history, Open, Close, StageCreate, Advances, Successor, StageWrite,
           JournalWrite, Promote, Fail, RecoverRead, RecoverPromote,
           RecoverDiscard, RecoverForget, RecoverFail, Crash
  <2>4. QED
    BY <2>1, <2>2, <2>3 DEF Atomic!Next
<1>3. QED
  BY <1>1, <1>2, Invariance, PTL
     DEF Spec, ImplementsAtomicDatabase, Atomic!Spec, Atomic!vars

-----------------------------------------------------------------------------
(* The writer                                                               *)

LEMMA Least ==
  ASSUME NEW S \in SUBSET Nat, S # {}
  PROVE  \E m \in S : \A k \in S : m <= k
<1>1. PICK m \in S : \A y \in S : ~(<<y, m>> \in OpToRel(<, Nat))
  BY WFMin, NatLessThanWellFounded
<1>2. \A y \in S : ~(y < m)
  BY <1>1 DEF OpToRel
<1>3. QED BY <1>2

\* The least of some places is one of them.
LEMMA MinIsLeast ==
  ASSUME NEW S \in SUBSET Nat, S # {}
  PROVE  Min(S) \in S /\ \A k \in S : Min(S) <= k
BY Least DEF Min

WriterField == {"graph", "summary", "minted", "row", "found", "rows", "id", "refused"}

\* A writer that has a whole graph, and counts.
IsWriter(w) ==
  /\ DOMAIN w = WriterField
  /\ IsGraph(w.graph)
  /\ w.summary \in [Counter -> Nat]
  /\ w.minted \in Nat

\* How many records there would be without the writes that are counted.
NodesBefore(w) == Len(w.graph.nodes) - w.summary["nodes_created"] + w.summary["nodes_deleted"]
EdgesBefore(w) == Len(w.graph.edges) - w.summary["edges_created"] + w.summary["edges_deleted"]

\* What the writes that lead from one writer to another are told by their counts.
Tells(w, v) ==
  /\ \A c \in Counter : w.summary[c] <= v.summary[c]
  /\ NodesBefore(v) = NodesBefore(w)
  /\ EdgesBefore(v) = EdgesBefore(w)
  /\ (\A c \in Counter : v.summary[c] = w.summary[c]) => v.graph = w.graph

Moves(w, v) == IsWriter(v) /\ Tells(w, v)

LEMMA MovesNowhere ==
  ASSUME NEW w, IsWriter(w)
  PROVE  Moves(w, w)
<1>1. \A c \in Counter : w.summary[c] \in Nat
  BY DEF IsWriter
<1>2. QED BY <1>1 DEF Moves, Tells

LEMMA MovesOn ==
  ASSUME NEW w, NEW v, NEW u, IsWriter(w), Moves(w, v), Moves(v, u)
  PROVE  Moves(w, u)
<1>1. \A c \in Counter : w.summary[c] \in Nat /\ v.summary[c] \in Nat /\ u.summary[c] \in Nat
  BY DEF IsWriter, Moves
<1>2. \A c \in Counter : w.summary[c] <= u.summary[c]
  BY <1>1 DEF Moves, Tells
<1>3. ASSUME \A c \in Counter : u.summary[c] = w.summary[c]
      PROVE  u.graph = w.graph
  BY <1>1, <1>3 DEF Moves, Tells
<1>4. QED BY <1>2, <1>3 DEF Moves, Tells

\* What does not touch graph, summary and minter moves nothing.
LEMMA MovesAside ==
  ASSUME NEW w, NEW v, NEW u, Moves(w, v), DOMAIN u = WriterField,
         u.graph = v.graph, u.summary = v.summary, u.minted = v.minted
  PROVE  Moves(w, u)
BY DEF Moves, Tells, IsWriter, NodesBefore, EdgesBefore

LEMMA RefusingMoves ==
  ASSUME NEW w, NEW v, Moves(w, v), NEW code
  PROVE  Moves(w, Refusing(v, code))
<1>1. DOMAIN v = WriterField
  BY DEF Moves, IsWriter
<1>2. QED BY <1>1, MovesAside DEF Refusing, WriterField

\* The record as it was, or with the user's claim and those the others had.
Holds(new, old) ==
  /\ new.id = old.id
  /\ new # old => ClaimedByUser(new) /\ ClaimsOfOthers(new) = ClaimsOfOthers(old)

\* No record goes, and those that come are the user's.
Grown(after, before) ==
  /\ \A i \in DOMAIN before : i \in DOMAIN after /\ Holds(after[i], before[i])
  /\ \A i \in DOMAIN after : i \notin DOMAIN before => ClaimedByUser(after[i])

Grows(w, v) == Grown(v.graph.nodes, w.graph.nodes) /\ Grown(v.graph.edges, w.graph.edges)

LEMMA GrownNowhere ==
  ASSUME NEW records
  PROVE  Grown(records, records)
BY DEF Grown, Holds

LEMMA GrownOn ==
  ASSUME NEW a, NEW b, NEW c, Grown(b, a), Grown(c, b)
  PROVE  Grown(c, a)
<1>1. ASSUME NEW i \in DOMAIN a PROVE i \in DOMAIN c /\ Holds(c[i], a[i])
  <2>1. i \in DOMAIN b /\ i \in DOMAIN c /\ Holds(b[i], a[i]) /\ Holds(c[i], b[i])
    BY DEF Grown
  <2>2. QED BY <2>1 DEF Holds
<1>2. ASSUME NEW i \in DOMAIN c, i \notin DOMAIN a PROVE ClaimedByUser(c[i])
  <2>1. CASE i \in DOMAIN b
    <3>1. ClaimedByUser(b[i]) /\ Holds(c[i], b[i])
      BY <1>2, <2>1 DEF Grown
    <3>2. QED BY <3>1 DEF Holds
  <2>2. CASE i \notin DOMAIN b
    BY <1>2, <2>2 DEF Grown
  <2>3. QED BY <2>1, <2>2
<1>3. QED BY <1>1, <1>2 DEF Grown

\* A write that takes nothing away.
Adds(w, v) == Moves(w, v) /\ Grows(w, v)

LEMMA AddsNowhere ==
  ASSUME NEW w, IsWriter(w)
  PROVE  Adds(w, w)
BY MovesNowhere, GrownNowhere DEF Adds, Grows

LEMMA AddsOn ==
  ASSUME NEW w, NEW v, NEW u, IsWriter(w), Adds(w, v), Adds(v, u)
  PROVE  Adds(w, u)
BY MovesOn, GrownOn DEF Adds, Grows

LEMMA AddsAside ==
  ASSUME NEW w, NEW v, NEW u, Adds(w, v), DOMAIN u = WriterField,
         u.graph = v.graph, u.summary = v.summary, u.minted = v.minted
  PROVE  Adds(w, u)
<1>1. Moves(w, u)
  BY MovesAside DEF Adds
<1>2. Grows(w, u)
  BY DEF Adds, Grows
<1>3. QED BY <1>1, <1>2 DEF Adds

LEMMA RefusingAdds ==
  ASSUME NEW w, NEW v, Adds(w, v), NEW code
  PROVE  Adds(w, Refusing(v, code))
<1>1. DOMAIN v = WriterField
  BY DEF Adds, Moves, IsWriter
<1>2. QED BY <1>1, AddsAside DEF Refusing, WriterField

-----------------------------------------------------------------------------
(* Sequences of records                                                     *)

LEMMA IsSeq ==
  ASSUME NEW s, IsSequence(s)
  PROVE  /\ s \in Seq({s[i] : i \in DOMAIN s})
         /\ DOMAIN s = 1 .. Len(s)
         /\ Len(s) \in Nat
<1>1. DOMAIN s = 1 .. Len(s) /\ Len(s) \in Nat
  BY DEF IsSequence
<1>2. s \in [1 .. Len(s) -> {s[i] : i \in DOMAIN s}]
  BY <1>1 DEF IsSequence
<1>3. QED BY <1>1, <1>2

LEMMA SeqIs ==
  ASSUME NEW S, NEW s \in Seq(S)
  PROVE  IsSequence(s)
BY DEF IsSequence

LEMMA Appended ==
  ASSUME NEW s, IsSequence(s), NEW e
  PROVE  /\ IsSequence(Append(s, e))
         /\ Len(Append(s, e)) = Len(s) + 1
         /\ DOMAIN Append(s, e) = 1 .. Len(s) + 1
         /\ \A i \in 1 .. Len(s) : Append(s, e)[i] = s[i]
         /\ Append(s, e)[Len(s) + 1] = e
<1> DEFINE S == {s[i] : i \in DOMAIN s} \union {e}
<1>1. DOMAIN s = 1 .. Len(s) /\ Len(s) \in Nat
  BY IsSeq
<1>2. s \in [1 .. Len(s) -> S]
  BY <1>1 DEF IsSequence
<1> HIDE DEF S
<1>3. s \in Seq(S)
  BY <1>1, <1>2
<1>4. e \in S
  BY DEF S
<1>5. Append(s, e) \in Seq(S)
  BY <1>3, <1>4
<1>6. IsSequence(Append(s, e))
  BY <1>5, SeqIs
<1>7. QED BY <1>1, <1>3, <1>4, <1>6

\* Sequences of the same records are the same.
LEMMA SameSequence ==
  ASSUME NEW s, NEW t, IsSequence(s), IsSequence(t), Len(s) = Len(t),
         \A i \in 1 .. Len(s) : s[i] = t[i]
  PROVE  s = t
BY DEF IsSequence

\* Records in a sequence, no two with the same identifier.
AreRecords(records, field) ==
  /\ IsSequence(records)
  /\ \A i \in DOMAIN records : DOMAIN records[i] = field /\ IsSequence(records[i].contributions)
  /\ AllDistinct(records)

AreEnds(records) ==
  \A i \in DOMAIN records : IsEndpoint(records[i].source) /\ IsEndpoint(records[i].target)

LEMMA GraphParts ==
  ASSUME NEW g
  PROVE  IsGraph(g) <=> /\ g = [nodes |-> g.nodes, edges |-> g.edges, links |-> g.links]
                        /\ AreRecords(g.nodes, NodeField)
                        /\ AreRecords(g.edges, EdgeField) /\ AreEnds(g.edges)
BY DEF IsGraph, AreRecords, AreEnds

IdsOf(records) == {records[i].id : i \in DOMAIN records}

LEMMA AppendedRecord ==
  ASSUME NEW records, NEW field, AreRecords(records, field),
         NEW record, DOMAIN record = field, IsSequence(record.contributions), record.id \notin IdsOf(records)
  PROVE  AreRecords(Append(records, record), field)
<1>1. /\ IsSequence(records) /\ Len(records) \in Nat
      /\ DOMAIN records = 1 .. Len(records)
  BY IsSeq DEF AreRecords
<1>2. /\ IsSequence(Append(records, record))
      /\ DOMAIN Append(records, record) = 1 .. Len(records) + 1
      /\ \A i \in 1 .. Len(records) : Append(records, record)[i] = records[i]
      /\ Append(records, record)[Len(records) + 1] = record
  BY <1>1, Appended
<1>3. \A i \in 1 .. Len(records) + 1 : i \in 1 .. Len(records) \/ i = Len(records) + 1
  BY <1>1
<1>4. \A i \in DOMAIN Append(records, record) :
        DOMAIN Append(records, record)[i] = field /\ IsSequence(Append(records, record)[i].contributions)
  BY <1>1, <1>2, <1>3 DEF AreRecords
<1>5. AllDistinct(Append(records, record))
  <2> SUFFICES ASSUME NEW i \in 1 .. Len(records) + 1, NEW j \in 1 .. Len(records) + 1,
                      Append(records, record)[i].id = Append(records, record)[j].id
               PROVE  i = j
    BY <1>2 DEF AllDistinct
  <2>1. CASE i \in 1 .. Len(records) /\ j \in 1 .. Len(records)
    BY <2>1, <1>1, <1>2 DEF AreRecords, AllDistinct
  <2>2. CASE i = Len(records) + 1 /\ j \in 1 .. Len(records)
    BY <2>2, <1>1, <1>2 DEF IdsOf
  <2>3. CASE i \in 1 .. Len(records) /\ j = Len(records) + 1
    BY <2>3, <1>1, <1>2 DEF IdsOf
  <2>4. QED BY <2>1, <2>2, <2>3, <1>3
<1>6. QED BY <1>2, <1>4, <1>5 DEF AreRecords

\* The minter passes over the identifiers that are taken, and always finds one.
LEMMA FreshIsNew ==
  ASSUME NEW w, w.minted \in Nat, NEW records, IsSequence(records)
  PROVE  Fresh(w, records) \in Nat /\ Fresh(w, records) \notin IdsOf(records)
<1> DEFINE used == {records[i].id : i \in DOMAIN records}
           span == w.minted + 1 .. w.minted + 1 + Cardinality(used)
           free == {n \in span : n \notin used}
<1>1. IsFiniteSet(used) /\ Cardinality(used) \in Nat
  <2>1. IsFiniteSet(DOMAIN records)
    <3>1. DOMAIN records = 1 .. Len(records) /\ 1 \in Int /\ Len(records) \in Int
      BY IsSeq
    <3>2. QED BY <3>1, FS_Interval
  <2> DEFINE f == [i \in DOMAIN records |-> records[i].id]
  <2>2. f \in Surjection(DOMAIN records, used)
    BY DEF Surjection
  <2>3. QED BY <2>1, <2>2, FS_Surjection, FS_CardinalityType
<1>2. IsFiniteSet(span) /\ Cardinality(span) = Cardinality(used) + 1
  <2> DEFINE n == Cardinality(used)
  <2>1. n \in Nat
    BY <1>1
  <2> HIDE DEF n
  <2>2. /\ w.minted + 1 \in Int /\ w.minted + 1 + n \in Int
        /\ ~ (w.minted + 1 > w.minted + 1 + n)
        /\ (w.minted + 1 + n) - (w.minted + 1) + 1 = n + 1
    BY <2>1
  <2>3. /\ IsFiniteSet(w.minted + 1 .. w.minted + 1 + n)
        /\ Cardinality(w.minted + 1 .. w.minted + 1 + n) = n + 1
    BY <2>2, FS_Interval
  <2>4. QED BY <2>3 DEF n
<1>3. free # {}
  <2> SUFFICES ASSUME free = {} PROVE FALSE
    OBVIOUS
  <2>1. span \subseteq used
    OBVIOUS
  <2>2. Cardinality(span) <= Cardinality(used)
    BY <2>1, <1>1, FS_Subset
  <2>3. QED BY <2>2, <1>1, <1>2
<1>4. free \in SUBSET Nat
  BY <1>1
<1>5. Min(free) \in free
  BY <1>3, <1>4, MinIsLeast
<1>6. QED BY <1>4, <1>5 DEF Fresh, IdsOf

-----------------------------------------------------------------------------
(* The records a deletion leaves                                            *)

\* What is left of the first records, in order.
Leaves(left, records, dropped, n) ==
  left = [i \in 0 .. n |->
            IF i = 0 THEN << >>
            ELSE IF records[i].id \in dropped THEN left[i - 1] ELSE Append(left[i - 1], records[i])]

LEMMA LeavesExist ==
  ASSUME NEW records, NEW dropped, NEW n \in Nat
  PROVE  \E left : Leaves(left, records, dropped, n)
<1> DEFINE S == {k \in Nat : ~ \E left : Leaves(left, records, dropped, k)}
<1> SUFFICES ASSUME S # {} PROVE FALSE
  OBVIOUS
<1>1. PICK m \in S : \A k \in S : m <= k
  BY Least
<1>2. CASE m = 0
  <2>1. Leaves([i \in 0 .. 0 |-> << >>], records, dropped, 0)
    BY DEF Leaves
  <2>2. QED BY <1>1, <1>2, <2>1
<1>3. CASE m # 0
  <2>1. m - 1 \in Nat /\ m - 1 \notin S
    BY <1>1, <1>3
  <2>2. PICK left : Leaves(left, records, dropped, m - 1)
    BY <2>1
  <2> DEFINE more == [i \in 0 .. m |->
                        IF i = m
                        THEN IF records[m].id \in dropped THEN left[m - 1] ELSE Append(left[m - 1], records[m])
                        ELSE left[i]]
  <2> DEFINE step(h, i) == IF i = 0 THEN << >>
                           ELSE IF records[i].id \in dropped THEN h[i - 1] ELSE Append(h[i - 1], records[i])
  <2>3. \A i \in 0 .. m : more[i] = step(more, i)
    <3> TAKE i \in 0 .. m
    <3>1. CASE i = m
      BY <3>1, <1>1, <1>3, <2>1
    <3>2. CASE i # m
      <4>1. i \in 0 .. m - 1 /\ (i # 0 => i - 1 \in 0 .. m - 1 /\ i - 1 \in 0 .. m /\ i - 1 # m)
        BY <3>2, <2>1
      <4>2. more[i] = left[i] /\ (i # 0 => more[i - 1] = left[i - 1])
        BY <3>2, <4>1
      <4>3. left[i] = step(left, i)
        BY <4>1, <2>2 DEF Leaves
      <4>4. QED BY <4>1, <4>2, <4>3
    <3>3. QED BY <3>1, <3>2
  <2>4. more = [i \in 0 .. m |-> step(more, i)]
    <3> HIDE DEF step
    <3>1. more = [i \in 0 .. m |-> more[i]]
      OBVIOUS
    <3>2. QED BY <2>3, <3>1
  <2>5. Leaves(more, records, dropped, m)
    BY <2>4 DEF Leaves
  <2>6. QED BY <1>1, <2>5
<1>4. QED BY <1>2, <1>3

LEMMA RetainedLeaves ==
  ASSUME NEW records, NEW dropped, Len(records) \in Nat
  PROVE  \E left : /\ Leaves(left, records, dropped, Len(records))
                   /\ Retained(records, dropped) = left[Len(records)]
<1> DEFINE left == CHOOSE h : Leaves(h, records, dropped, Len(records))
<1>1. Leaves(left, records, dropped, Len(records))
  BY LeavesExist
<1>2. Retained(records, dropped) = left[Len(records)]
  BY DEF Retained, Leaves
<1>3. QED BY <1>1, <1>2

\* The records of one sequence that the first of another are not all.
RetainedOf(left, records, dropped, n) ==
  /\ IsSequence(left) /\ Len(left) <= n
  /\ Len(left) = n => \A i \in 1 .. n : left[i] = records[i]
  /\ \A i \in DOMAIN left : \E j \in 1 .. n : left[i] = records[j] /\ records[j].id \notin dropped
  /\ \A j \in 1 .. n : records[j].id \notin dropped => \E i \in DOMAIN left : left[i] = records[j]
  /\ AllDistinct(left)

LEMMA LeavesRetain ==
  ASSUME NEW records, NEW dropped, NEW field, AreRecords(records, field), NEW left,
         Leaves(left, records, dropped, Len(records)), NEW n \in 0 .. Len(records)
  PROVE  RetainedOf(left[n], records, dropped, n)
<1> DEFINE S == {k \in 0 .. Len(records) : ~ RetainedOf(left[k], records, dropped, k)}
<1>0. IsSequence(records) /\ Len(records) \in Nat /\ DOMAIN records = 1 .. Len(records)
  BY IsSeq DEF AreRecords
<1> SUFFICES ASSUME S # {} PROVE FALSE
  OBVIOUS
<1>1. PICK m \in S : \A k \in S : m <= k
  <2>1. S \in SUBSET Nat
    BY <1>0
  <2>2. QED BY <2>1, Least
<1>2. CASE m = 0
  <2>1. left[0] = << >>
    BY <1>0 DEF Leaves
  <2>2. IsSequence(<< >>) /\ Len(<< >>) = 0 /\ DOMAIN << >> = {}
    BY DEF IsSequence
  <2>3. RetainedOf(<< >>, records, dropped, 0)
    BY <2>2 DEF RetainedOf, AllDistinct
  <2>4. QED BY <1>1, <1>2, <2>1, <2>3
<1>3. CASE m # 0
  <2>1. m - 1 \in 0 .. Len(records) /\ m \in 1 .. Len(records) /\ RetainedOf(left[m - 1], records, dropped, m - 1)
    BY <1>0, <1>1, <1>3
  <2> DEFINE before == left[m - 1]
  <2>2. IsSequence(before) /\ Len(before) \in Nat /\ DOMAIN before = 1 .. Len(before)
    BY <2>1, IsSeq DEF RetainedOf
  <2>3. \A j \in 1 .. m : j \in 1 .. m - 1 \/ j = m
    BY <2>1
  <2>4. CASE records[m].id \in dropped
    <3>1. left[m] = before
      BY <1>0, <1>3, <2>1, <2>4 DEF Leaves
    <3>2. RetainedOf(before, records, dropped, m)
      <4>1. Len(before) <= m - 1 /\ m \in Nat
        BY <2>1, <1>0 DEF RetainedOf
      <4>2. \A i \in DOMAIN before : \E j \in 1 .. m : before[i] = records[j] /\ records[j].id \notin dropped
        BY <2>1, <4>1 DEF RetainedOf
      <4>3. \A j \in 1 .. m : records[j].id \notin dropped => \E i \in DOMAIN before : before[i] = records[j]
        BY <2>1, <2>3, <2>4 DEF RetainedOf
      <4>4. QED BY <2>1, <2>2, <4>1, <4>2, <4>3 DEF RetainedOf
    <3>3. QED BY <3>1, <3>2, <1>1
  <2>5. CASE records[m].id \notin dropped
    <3> DEFINE after == Append(before, records[m])
    <3>1. left[m] = after
      BY <1>0, <1>3, <2>1, <2>5 DEF Leaves
    <3>2. /\ IsSequence(after) /\ Len(after) = Len(before) + 1
          /\ DOMAIN after = 1 .. Len(before) + 1
          /\ \A i \in 1 .. Len(before) : after[i] = before[i]
          /\ after[Len(before) + 1] = records[m]
      BY <2>2, Appended
    <3> HIDE DEF after, before
    <3>3. \A i \in 1 .. Len(before) + 1 : i \in 1 .. Len(before) \/ i = Len(before) + 1
      BY <2>2
    <3>4. Len(before) <= m - 1 /\ m \in Nat
      BY <2>1, <1>0 DEF RetainedOf, before
    <3>5. ASSUME Len(after) = m
          PROVE  \A i \in 1 .. m : after[i] = records[i]
      <4>1. Len(before) = m - 1
        BY <2>2, <3>2, <3>4, <3>5
      <4>2. \A i \in 1 .. m - 1 : before[i] = records[i]
        BY <4>1, <2>1 DEF RetainedOf, before
      <4>3. QED BY <4>1, <4>2, <3>2, <3>4, <2>3
    <3>6. \A i \in DOMAIN after : \E j \in 1 .. m : after[i] = records[j] /\ records[j].id \notin dropped
      <4> TAKE i \in DOMAIN after
      <4>1. CASE i = Len(before) + 1
        BY <4>1, <2>1, <2>5, <3>2, <3>4
      <4>2. CASE i \in 1 .. Len(before)
        <5>1. PICK j \in 1 .. m - 1 : before[i] = records[j] /\ records[j].id \notin dropped
          BY <4>2, <2>1, <2>2 DEF RetainedOf, before
        <5>2. j \in 1 .. m
          BY <3>4
        <5>3. QED BY <4>2, <5>1, <5>2, <3>2
      <4>3. QED BY <4>1, <4>2, <3>2, <3>3
    <3>7. \A j \in 1 .. m : records[j].id \notin dropped => \E i \in DOMAIN after : after[i] = records[j]
      <4> SUFFICES ASSUME NEW j \in 1 .. m, records[j].id \notin dropped
                   PROVE  \E i \in DOMAIN after : after[i] = records[j]
        OBVIOUS
      <4>1. CASE j = m
        <5>1. Len(before) + 1 \in DOMAIN after
          BY <2>2, <3>2
        <5>2. QED BY <4>1, <5>1, <3>2
      <4>2. CASE j \in 1 .. m - 1
        <5>1. PICK i \in DOMAIN before : before[i] = records[j]
          BY <4>2, <2>1 DEF RetainedOf, before
        <5>2. i \in DOMAIN after /\ after[i] = before[i]
          BY <2>2, <3>2
        <5>3. QED BY <5>1, <5>2
      <4>3. QED BY <4>1, <4>2, <2>3
    <3>8. AllDistinct(after)
      <4>1. AllDistinct(before)
        BY <2>1 DEF RetainedOf, before
      <4>2. \A i \in 1 .. Len(before) : before[i].id # records[m].id
        <5> TAKE i \in 1 .. Len(before)
        <5>1. PICK j \in 1 .. m - 1 : before[i] = records[j]
          BY <2>1, <2>2 DEF RetainedOf, before
        <5>2. j # m /\ j \in DOMAIN records /\ m \in DOMAIN records
          BY <1>0, <2>1
        <5>3. QED BY <5>1, <5>2 DEF AreRecords, AllDistinct
      <4>3. QED BY <4>1, <4>2, <3>2, <3>3, <2>2 DEF AllDistinct
    <3>9. Len(after) <= m
      BY <2>2, <3>2, <3>4
    <3>10. RetainedOf(after, records, dropped, m)
      BY <3>2, <3>5, <3>6, <3>7, <3>8, <3>9 DEF RetainedOf
    <3>11. QED BY <3>1, <3>10, <1>1
  <2>6. QED BY <2>4, <2>5
<1>4. QED BY <1>2, <1>3

\* Some of the records, as they were; all of them when none is dropped.
IsRest(left, records, dropped, field) ==
  /\ AreRecords(left, field)
  /\ Len(records) \in Nat /\ Len(left) \in Nat /\ Len(left) <= Len(records)
  /\ Len(left) = Len(records) => left = records
  /\ \A i \in DOMAIN left : \E j \in DOMAIN records : left[i] = records[j]
  /\ IdsOf(left) = IdsOf(records) \ dropped

LEMMA RetainedIsRest ==
  ASSUME NEW records, NEW dropped, NEW field, AreRecords(records, field)
  PROVE  IsRest(Retained(records, dropped), records, dropped, field)
<1>0. IsSequence(records) /\ Len(records) \in Nat /\ DOMAIN records = 1 .. Len(records)
  BY IsSeq DEF AreRecords
<1>1. PICK h : Leaves(h, records, dropped, Len(records)) /\ Retained(records, dropped) = h[Len(records)]
  BY <1>0, RetainedLeaves
<1> DEFINE left == Retained(records, dropped)
<1>2. RetainedOf(left, records, dropped, Len(records))
  BY <1>0, <1>1, LeavesRetain
<1> HIDE DEF left
<1>3. IsSequence(left) /\ Len(left) \in Nat /\ DOMAIN left = 1 .. Len(left)
  BY <1>2, IsSeq DEF RetainedOf
<1>4. Len(left) = Len(records) => left = records
  BY <1>0, <1>2, <1>3, SameSequence DEF RetainedOf
<1>5. \A i \in DOMAIN left : \E j \in DOMAIN records : left[i] = records[j] /\ records[j].id \notin dropped
  BY <1>0, <1>2 DEF RetainedOf
<1>6. AreRecords(left, field)
  BY <1>2, <1>3, <1>5 DEF AreRecords, RetainedOf
<1>7. IdsOf(left) = IdsOf(records) \ dropped
  <2>1. \A j \in DOMAIN records : records[j].id \notin dropped => \E i \in DOMAIN left : left[i] = records[j]
    BY <1>0, <1>2 DEF RetainedOf
  <2>2. QED BY <2>1, <1>5 DEF IdsOf
<1>8. QED BY <1>0, <1>2, <1>3, <1>4, <1>5, <1>6, <1>7 DEF left, RetainedOf, IsRest

-----------------------------------------------------------------------------
(* One record after another                                                 *)

WithNodes(g, records) == [g EXCEPT !.nodes = records]
WithEdges(g, records) == [g EXCEPT !.edges = records]

LEMMA GraphWithNodes ==
  ASSUME NEW g, IsGraph(g), NEW records, AreRecords(records, NodeField)
  PROVE  LET h == WithNodes(g, records) IN
         IsGraph(h) /\ h.nodes = records /\ h.edges = g.edges /\ (records = g.nodes => h = g)
<1> DEFINE h == [nodes |-> records, edges |-> g.edges, links |-> g.links]
<1>1. /\ g = [nodes |-> g.nodes, edges |-> g.edges, links |-> g.links]
      /\ AreRecords(g.edges, EdgeField) /\ AreEnds(g.edges)
  BY GraphParts
<1>2. WithNodes(g, records) = h
  BY <1>1 DEF WithNodes
<1>3. h = [nodes |-> h.nodes, edges |-> h.edges, links |-> h.links]
  OBVIOUS
<1>4. IsGraph(h)
  BY <1>1, <1>3, GraphParts
<1>5. QED BY <1>1, <1>2, <1>4

LEMMA GraphWithEdges ==
  ASSUME NEW g, IsGraph(g), NEW records, AreRecords(records, EdgeField), AreEnds(records)
  PROVE  LET h == WithEdges(g, records) IN
         IsGraph(h) /\ h.edges = records /\ h.nodes = g.nodes /\ (records = g.edges => h = g)
<1> DEFINE h == [nodes |-> g.nodes, edges |-> records, links |-> g.links]
<1>1. /\ g = [nodes |-> g.nodes, edges |-> g.edges, links |-> g.links]
      /\ AreRecords(g.nodes, NodeField)
  BY GraphParts
<1>2. WithEdges(g, records) = h
  BY <1>1 DEF WithEdges
<1>3. h = [nodes |-> h.nodes, edges |-> h.edges, links |-> h.links]
  OBVIOUS
<1>4. IsGraph(h)
  BY <1>1, <1>3, GraphParts
<1>5. QED BY <1>1, <1>2, <1>4

LEMMA GraphLengths ==
  ASSUME NEW g, IsGraph(g)
  PROVE  Len(g.nodes) \in Nat /\ Len(g.edges) \in Nat
BY IsSeq DEF IsGraph

\* How many records one counter stands for.
By(counter, n, made, gone) == IF counter = made THEN n ELSE IF counter = gone THEN 0 - n ELSE 0

LEMMA Balance ==
  \A l, n, a, b \in Int : /\ (l - n) - a + (b + n) = l - a + b
                          /\ (l + n) - (a + n) + b = l - a + b
OBVIOUS

\* A write that is counted as often as it makes or drops a record.
LEMMA CountedMoves ==
  ASSUME NEW w, IsWriter(w), NEW v, DOMAIN v = WriterField, IsGraph(v.graph), v.minted \in Nat,
         v.summary = w.summary, NEW counter \in Counter, NEW n \in Nat,
         Len(v.graph.nodes) = Len(w.graph.nodes) + By(counter, n, "nodes_created", "nodes_deleted"),
         Len(v.graph.edges) = Len(w.graph.edges) + By(counter, n, "edges_created", "edges_deleted"),
         n = 0 => v.graph = w.graph
  PROVE  Moves(w, Counted(v, counter, n)) /\ Counted(v, counter, n).graph = v.graph
<1> DEFINE u == Counted(v, counter, n)
<1>1. /\ DOMAIN u = WriterField /\ u.graph = v.graph /\ u.minted = v.minted
      /\ u.summary = [w.summary EXCEPT ![counter] = @ + n]
  BY DEF Counted, WriterField
<1> HIDE DEF u
<1>2. \A c \in Counter : w.summary[c] \in Nat
  BY DEF IsWriter
<1>3. \A c \in Counter : u.summary[c] = w.summary[c] + IF c = counter THEN n ELSE 0
  BY <1>1, <1>2 DEF IsWriter
<1>4. u.summary \in [Counter -> Nat]
  BY <1>1, <1>2 DEF IsWriter
<1>5. Len(v.graph.nodes) \in Nat /\ Len(v.graph.edges) \in Nat /\ Len(w.graph.nodes) \in Nat /\ Len(w.graph.edges) \in Nat
  BY GraphLengths DEF IsWriter
<1>6. {"nodes_created", "nodes_deleted", "edges_created", "edges_deleted"} \subseteq Counter
  BY DEF Counter
<1>7. NodesBefore(u) = NodesBefore(w)
  <2>1. /\ u.summary["nodes_created"] = w.summary["nodes_created"] + IF counter = "nodes_created" THEN n ELSE 0
        /\ u.summary["nodes_deleted"] = w.summary["nodes_deleted"] + IF counter = "nodes_deleted" THEN n ELSE 0
        /\ w.summary["nodes_created"] \in Nat /\ w.summary["nodes_deleted"] \in Nat
    BY <1>2, <1>3, <1>6
  <2>2. Len(u.graph.nodes) = Len(w.graph.nodes) + By(counter, n, "nodes_created", "nodes_deleted")
    BY <1>1
  <2>3. CASE counter = "nodes_created"
    <3>1. /\ u.summary["nodes_created"] = w.summary["nodes_created"] + n
          /\ u.summary["nodes_deleted"] = w.summary["nodes_deleted"]
          /\ Len(u.graph.nodes) = Len(w.graph.nodes) + n
      BY <2>1, <2>2, <2>3 DEF By
    <3>2. QED BY <1>1, <1>5, <2>1, <3>1, Balance DEF NodesBefore
  <2>4. CASE counter = "nodes_deleted"
    <3>1. /\ u.summary["nodes_created"] = w.summary["nodes_created"]
          /\ u.summary["nodes_deleted"] = w.summary["nodes_deleted"] + n
          /\ Len(u.graph.nodes) = Len(w.graph.nodes) - n
      <4>1. By(counter, n, "nodes_created", "nodes_deleted") = 0 - n /\ n \in Nat
        BY <2>4 DEF By
      <4>2. Len(u.graph.nodes) = Len(w.graph.nodes) - n
        BY <1>5, <2>2, <4>1
      <4>3. QED BY <2>1, <2>4, <4>2
    <3>2. QED BY <1>1, <1>5, <2>1, <3>1, Balance DEF NodesBefore
  <2>5. CASE counter # "nodes_created" /\ counter # "nodes_deleted"
    BY <1>5, <2>1, <2>2, <2>5 DEF NodesBefore, By
  <2>6. QED BY <2>3, <2>4, <2>5
<1>8. EdgesBefore(u) = EdgesBefore(w)
  <2>1. /\ u.summary["edges_created"] = w.summary["edges_created"] + IF counter = "edges_created" THEN n ELSE 0
        /\ u.summary["edges_deleted"] = w.summary["edges_deleted"] + IF counter = "edges_deleted" THEN n ELSE 0
        /\ w.summary["edges_created"] \in Nat /\ w.summary["edges_deleted"] \in Nat
    BY <1>2, <1>3, <1>6
  <2>2. Len(u.graph.edges) = Len(w.graph.edges) + By(counter, n, "edges_created", "edges_deleted")
    BY <1>1
  <2>3. CASE counter = "edges_created"
    <3>1. /\ u.summary["edges_created"] = w.summary["edges_created"] + n
          /\ u.summary["edges_deleted"] = w.summary["edges_deleted"]
          /\ Len(u.graph.edges) = Len(w.graph.edges) + n
      BY <2>1, <2>2, <2>3 DEF By
    <3>2. QED BY <1>1, <1>5, <2>1, <3>1, Balance DEF EdgesBefore
  <2>4. CASE counter = "edges_deleted"
    <3>1. /\ u.summary["edges_created"] = w.summary["edges_created"]
          /\ u.summary["edges_deleted"] = w.summary["edges_deleted"] + n
          /\ Len(u.graph.edges) = Len(w.graph.edges) - n
      <4>1. By(counter, n, "edges_created", "edges_deleted") = 0 - n /\ n \in Nat
        BY <2>4 DEF By
      <4>2. Len(u.graph.edges) = Len(w.graph.edges) - n
        BY <1>5, <2>2, <4>1
      <4>3. QED BY <2>1, <2>4, <4>2
    <3>2. QED BY <1>1, <1>5, <2>1, <3>1, Balance DEF EdgesBefore
  <2>5. CASE counter # "edges_created" /\ counter # "edges_deleted"
    BY <1>5, <2>1, <2>2, <2>5 DEF EdgesBefore, By
  <2>6. QED BY <2>3, <2>4, <2>5
<1>9. (\A c \in Counter : u.summary[c] = w.summary[c]) => u.graph = w.graph
  BY <1>1, <1>2, <1>3
<1>10. \A c \in Counter : w.summary[c] <= u.summary[c]
  BY <1>2, <1>3
<1>11. Moves(w, u)
  BY <1>1, <1>4, <1>7, <1>8, <1>9, <1>10 DEF Moves, Tells, IsWriter
<1>12. QED BY <1>1, <1>11 DEF u

LEMMA CountedAdds ==
  ASSUME NEW w, IsWriter(w), NEW v, DOMAIN v = WriterField, IsGraph(v.graph), v.minted \in Nat,
         v.summary = w.summary, NEW counter \in Counter, NEW n \in Nat,
         Len(v.graph.nodes) = Len(w.graph.nodes) + By(counter, n, "nodes_created", "nodes_deleted"),
         Len(v.graph.edges) = Len(w.graph.edges) + By(counter, n, "edges_created", "edges_deleted"),
         n = 0 => v.graph = w.graph, Grows(w, v)
  PROVE  Adds(w, Counted(v, counter, n))
<1>1. Moves(w, Counted(v, counter, n)) /\ Counted(v, counter, n).graph = v.graph
  BY CountedMoves
<1>2. QED BY <1>1 DEF Adds, Grows

\* A sequence that another record ends.
LEMMA AppendedGrows ==
  ASSUME NEW records, IsSequence(records), NEW record, ClaimedByUser(record)
  PROVE  Grown(Append(records, record), records)
<1>1. /\ DOMAIN records = 1 .. Len(records) /\ Len(records) \in Nat
      /\ DOMAIN Append(records, record) = 1 .. Len(records) + 1
      /\ \A i \in 1 .. Len(records) : Append(records, record)[i] = records[i]
      /\ Append(records, record)[Len(records) + 1] = record
  BY IsSeq, Appended
<1>2. \A i \in 1 .. Len(records) + 1 : i \in 1 .. Len(records) \/ i = Len(records) + 1
  BY <1>1
<1>3. 1 .. Len(records) \subseteq 1 .. Len(records) + 1
  BY <1>1
<1>4. QED BY <1>1, <1>2, <1>3 DEF Grown, Holds

LEMMA UserClaims ==
  ASSUME NEW record, record.contributions = <<UserContribution>>
  PROVE  IsSequence(record.contributions) /\ ClaimedByUser(record)
<1>1. DOMAIN <<UserContribution>> = {1} /\ <<UserContribution>>[1].owner = "user"
  BY DEF UserContribution
<1>2. IsSequence(<<UserContribution>>)
  BY DEF IsSequence
<1>3. QED BY <1>1, <1>2 DEF ClaimedByUser, ClaimsOn

LEMMA NewNodeAdds ==
  ASSUME NEW w, IsWriter(w), NEW pattern, NEW map
  PROVE  Adds(w, NewNode(w, pattern, map))
<1>1. Adds(w, w)
  BY AddsNowhere
<1>2. CASE pattern.labels = << >>
  BY <1>1, <1>2, RefusingAdds DEF NewNode
<1>3. CASE pattern.labels # << >> /\ IsRefused(stored_properties(map))
  BY <1>1, <1>3, RefusingAdds DEF NewNode, Proceed
<1>4. CASE pattern.labels # << >> /\ ~ IsRefused(stored_properties(map))
  <2> DEFINE id == Fresh(w, w.graph.nodes)
             record == [id |-> id,
                        labels |-> Distinct(pattern.labels, LAMBDA l, m : IF l = m THEN 0 ELSE 1),
                        properties |-> stored_properties(map)[2],
                        contributions |-> <<UserContribution>>]
             row == IF pattern.variable = << >> THEN w.row
                    ELSE Extended(w.row, pattern.variable, <<"node", <<0, id>>>>)
             v == [w EXCEPT !.minted = id, !.id = id, !.row = row, !.graph.nodes = Append(@, record)]
  <2>1. NewNode(w, pattern, map) = Counted(v, "nodes_created", 1)
    BY <1>4 DEF NewNode, Proceed, IsWriter, WriterField
  <2>2. AreRecords(w.graph.nodes, NodeField) /\ IsSequence(w.graph.nodes) /\ w.minted \in Nat
    BY GraphParts DEF IsWriter, AreRecords
  <2>3. id \in Nat /\ id \notin IdsOf(w.graph.nodes)
    BY <2>2, FreshIsNew
  <2>4. DOMAIN record = NodeField /\ record.id = id /\ record.contributions = <<UserContribution>>
    BY DEF NodeField
  <2> HIDE DEF id, record, row
  <2>5. AreRecords(Append(w.graph.nodes, record), NodeField)
    BY <2>2, <2>3, <2>4, AppendedRecord, UserClaims
  <2>6. /\ DOMAIN v = WriterField /\ v.minted = id /\ v.summary = w.summary
        /\ v.graph = WithNodes(w.graph, Append(w.graph.nodes, record))
    BY GraphParts DEF IsWriter, WriterField, WithNodes
  <2> HIDE DEF v
  <2>7. IsGraph(v.graph) /\ v.graph.nodes = Append(w.graph.nodes, record) /\ v.graph.edges = w.graph.edges
    <3>1. IsGraph(w.graph)
      BY DEF IsWriter
    <3>2. /\ IsGraph(WithNodes(w.graph, Append(w.graph.nodes, record)))
          /\ WithNodes(w.graph, Append(w.graph.nodes, record)).nodes = Append(w.graph.nodes, record)
          /\ WithNodes(w.graph, Append(w.graph.nodes, record)).edges = w.graph.edges
      BY <3>1, <2>5, GraphWithNodes
    <3>3. QED BY <2>6, <3>2
  <2>8. /\ Len(v.graph.nodes) = Len(w.graph.nodes) + By("nodes_created", 1, "nodes_created", "nodes_deleted")
        /\ Len(v.graph.edges) = Len(w.graph.edges) + By("nodes_created", 1, "edges_created", "edges_deleted")
    BY <2>2, <2>7, Appended, GraphLengths DEF By, IsWriter
  <2>9. "nodes_created" \in Counter
    BY DEF Counter
  <2>10. v.minted \in Nat /\ 1 \in Nat /\ (1 = 0 => v.graph = w.graph)
    BY <2>3, <2>6
  <2>11. Grows(w, v)
    BY <2>2, <2>4, <2>7, UserClaims, AppendedGrows, GrownNowhere DEF Grows
  <2>12. Adds(w, Counted(v, "nodes_created", 1))
    BY <2>6, <2>7, <2>8, <2>9, <2>10, <2>11, CountedAdds
  <2>13. QED BY <2>1, <2>12
<1>5. QED BY <1>2, <1>3, <1>4

LEMMA CreateNodeAdds ==
  ASSUME NEW w, IsWriter(w), NEW pattern, NEW map
  PROVE  Adds(w, create_node(w, pattern, map))
<1>1. Adds(w, w)
  BY AddsNowhere
<1>2. CASE ~ (pattern.variable # << >> /\ pattern.variable \in DOMAIN w.row)
  BY <1>2, NewNodeAdds DEF create_node
<1>3. CASE (pattern.variable # << >> /\ pattern.variable \in DOMAIN w.row)
  <2> DEFINE found == BoundNode(w, pattern, map)
             v == [w EXCEPT !.id = found[2]]
  <2>1. CASE IsRefused(found)
    BY <1>1, <1>3, <2>1, RefusingAdds DEF create_node, Proceed
  <2>2. CASE ~ IsRefused(found)
    <3>1. create_node(w, pattern, map) = v
      BY <1>3, <2>2 DEF create_node, Proceed
    <3>2. DOMAIN v = WriterField /\ v.graph = w.graph /\ v.summary = w.summary /\ v.minted = w.minted
      BY DEF IsWriter, WriterField
    <3>3. QED BY <1>1, <3>1, <3>2, AddsAside
  <2>3. QED BY <2>1, <2>2
<1>4. QED BY <1>2, <1>3

LEMMA CreateEdgeAdds ==
  ASSUME NEW w, IsWriter(w), NEW pattern, NEW from, NEW to, NEW map
  PROVE  Adds(w, create_edge(w, pattern, from, to, map))
<1>1. Adds(w, w)
  BY AddsNowhere
<1>2. CASE Len(pattern.types) # 1
  BY <1>1, <1>2, RefusingAdds DEF create_edge
<1>3. CASE Len(pattern.types) = 1 /\ IsRefused(stored_properties(map))
  BY <1>1, <1>3, RefusingAdds DEF create_edge, Proceed
<1>4. CASE Len(pattern.types) = 1 /\ ~ IsRefused(stored_properties(map))
  <2> DEFINE id == Fresh(w, w.graph.edges)
             record == [id |-> id, source |-> <<"local", from>>, target |-> <<"local", to>>,
                        relation |-> pattern.types[1], properties |-> stored_properties(map)[2],
                        contributions |-> <<UserContribution>>]
             row == IF pattern.variable = << >> THEN w.row
                    ELSE Extended(w.row, pattern.variable, <<"relationship", <<0, id>>>>)
             v == [w EXCEPT !.minted = id, !.row = row, !.graph.edges = Append(@, record)]
  <2>1. create_edge(w, pattern, from, to, map) = Counted(v, "edges_created", 1)
    BY <1>4 DEF create_edge, Proceed, IsWriter, WriterField
  <2>2. /\ AreRecords(w.graph.edges, EdgeField) /\ AreEnds(w.graph.edges)
        /\ IsSequence(w.graph.edges) /\ w.minted \in Nat
    BY GraphParts DEF IsWriter, AreRecords
  <2>3. id \in Nat /\ id \notin IdsOf(w.graph.edges)
    BY <2>2, FreshIsNew
  <2>4. /\ DOMAIN record = EdgeField /\ record.id = id /\ record.contributions = <<UserContribution>>
        /\ IsEndpoint(record.source) /\ IsEndpoint(record.target)
    BY DEF EdgeField, IsEndpoint
  <2> HIDE DEF id, record, row
  <2>5. AreRecords(Append(w.graph.edges, record), EdgeField)
    BY <2>2, <2>3, <2>4, AppendedRecord, UserClaims
  <2>6. AreEnds(Append(w.graph.edges, record))
    <3>1. /\ DOMAIN Append(w.graph.edges, record) = 1 .. Len(w.graph.edges) + 1
          /\ \A i \in 1 .. Len(w.graph.edges) : Append(w.graph.edges, record)[i] = w.graph.edges[i]
          /\ Append(w.graph.edges, record)[Len(w.graph.edges) + 1] = record
          /\ Len(w.graph.edges) \in Nat /\ DOMAIN w.graph.edges = 1 .. Len(w.graph.edges)
      BY <2>2, Appended, IsSeq
    <3>2. QED BY <3>1, <2>2, <2>4 DEF AreEnds
  <2>7. /\ DOMAIN v = WriterField /\ v.minted = id /\ v.summary = w.summary
        /\ v.graph = WithEdges(w.graph, Append(w.graph.edges, record))
    BY GraphParts DEF IsWriter, WriterField, WithEdges
  <2> HIDE DEF v
  <2>8. IsGraph(v.graph) /\ v.graph.edges = Append(w.graph.edges, record) /\ v.graph.nodes = w.graph.nodes
    <3>1. IsGraph(w.graph)
      BY DEF IsWriter
    <3>2. /\ IsGraph(WithEdges(w.graph, Append(w.graph.edges, record)))
          /\ WithEdges(w.graph, Append(w.graph.edges, record)).edges = Append(w.graph.edges, record)
          /\ WithEdges(w.graph, Append(w.graph.edges, record)).nodes = w.graph.nodes
      BY <3>1, <2>5, <2>6, GraphWithEdges
    <3>3. QED BY <2>7, <3>2
  <2>9. /\ Len(v.graph.nodes) = Len(w.graph.nodes) + By("edges_created", 1, "nodes_created", "nodes_deleted")
        /\ Len(v.graph.edges) = Len(w.graph.edges) + By("edges_created", 1, "edges_created", "edges_deleted")
    BY <2>2, <2>8, Appended, GraphLengths DEF By, IsWriter
  <2>10. "edges_created" \in Counter
    BY DEF Counter
  <2>11. v.minted \in Nat /\ 1 \in Nat /\ (1 = 0 => v.graph = w.graph)
    BY <2>3, <2>7
  <2>12. Grows(w, v)
    BY <2>2, <2>4, <2>8, UserClaims, AppendedGrows, GrownNowhere DEF Grows
  <2>13. Adds(w, Counted(v, "edges_created", 1))
    BY <2>7, <2>8, <2>9, <2>10, <2>11, <2>12, CountedAdds
  <2>14. QED BY <2>1, <2>13
<1>5. QED BY <1>2, <1>3, <1>4

LEMMA UnlessAdds ==
  ASSUME NEW w, NEW v, Adds(w, v), NEW u, v.refused = << >> => Adds(v, u), IsWriter(w)
  PROVE  Adds(w, IF v.refused # << >> THEN v ELSE u)
BY AddsOn

LEMMA CreateStepAdds ==
  ASSUME NEW w, IsWriter(w), NEW step, NEW values
  PROVE  Adds(w, create_step(w, step, values))
<1> DEFINE v == create_node(w, step.node, values[2])
           u == CASE step.relationship.direction = "outgoing" ->
                       create_edge(v, step.relationship, w.id, v.id, values[1])
                  [] step.relationship.direction = "incoming" ->
                       create_edge(v, step.relationship, v.id, w.id, values[1])
                  [] OTHER -> Refusing(v, Semantic)
<1>1. Adds(w, v) /\ IsWriter(v)
  BY CreateNodeAdds DEF Adds, Moves
<1>2. create_step(w, step, values) = IF v.refused # << >> THEN v ELSE u
  BY DEF create_step, Unless
<1> HIDE DEF v
<1>3. Adds(v, v)
  BY <1>1, AddsNowhere
<1>4. Adds(v, u)
  <2>1. CASE step.relationship.direction = "outgoing"
    BY <1>1, <2>1, CreateEdgeAdds
  <2>2. CASE step.relationship.direction = "incoming"
    BY <1>1, <2>2, CreateEdgeAdds
  <2>3. CASE step.relationship.direction \notin {"outgoing", "incoming"}
    BY <1>3, <2>3, RefusingAdds
  <2>4. QED BY <2>1, <2>2, <2>3
<1> HIDE DEF u
<1>5. QED BY <1>1, <1>2, <1>4, UnlessAdds

\* The records of a pattern, step by step.
Makes(made, w, pattern, values, n) ==
  made = [i \in 0 .. n |->
            IF i = 0 THEN create_node(w, pattern.start, values.start)
            ELSE IF made[i - 1].refused # << >> THEN made[i - 1]
            ELSE create_step(made[i - 1], pattern.steps[i], values.steps[i])]

LEMMA MakesExist ==
  ASSUME NEW w, NEW pattern, NEW values, NEW n \in Nat
  PROVE  \E made : Makes(made, w, pattern, values, n)
<1> DEFINE S == {k \in Nat : ~ \E made : Makes(made, w, pattern, values, k)}
<1> SUFFICES ASSUME S # {} PROVE FALSE
  OBVIOUS
<1>1. PICK m \in S : \A k \in S : m <= k
  BY Least
<1>2. CASE m = 0
  <2>1. Makes([i \in 0 .. 0 |-> create_node(w, pattern.start, values.start)], w, pattern, values, 0)
    BY DEF Makes
  <2>2. QED BY <1>1, <1>2, <2>1
<1>3. CASE m # 0
  <2>1. m - 1 \in Nat /\ m - 1 \notin S
    BY <1>1, <1>3
  <2>2. PICK made : Makes(made, w, pattern, values, m - 1)
    BY <2>1
  <2> DEFINE step(h, i) == IF i = 0 THEN create_node(w, pattern.start, values.start)
                           ELSE IF h[i - 1].refused # << >> THEN h[i - 1]
                           ELSE create_step(h[i - 1], pattern.steps[i], values.steps[i])
             more == [i \in 0 .. m |-> IF i = m THEN step(made, m) ELSE made[i]]
  <2>3. \A i \in 0 .. m : more[i] = step(more, i)
    <3> TAKE i \in 0 .. m
    <3>1. CASE i = m
      BY <3>1, <1>1, <1>3, <2>1
    <3>2. CASE i # m
      <4>1. i \in 0 .. m - 1 /\ (i # 0 => i - 1 \in 0 .. m - 1 /\ i - 1 \in 0 .. m /\ i - 1 # m)
        BY <3>2, <2>1
      <4>2. more[i] = made[i] /\ (i # 0 => more[i - 1] = made[i - 1])
        BY <3>2, <4>1
      <4>3. made[i] = step(made, i)
        BY <4>1, <2>2 DEF Makes
      <4>4. QED BY <4>1, <4>2, <4>3
    <3>3. QED BY <3>1, <3>2
  <2>4. more = [i \in 0 .. m |-> step(more, i)]
    <3> HIDE DEF step
    <3>1. more = [i \in 0 .. m |-> more[i]]
      OBVIOUS
    <3>2. QED BY <2>3, <3>1
  <2>5. Makes(more, w, pattern, values, m)
    BY <2>4 DEF Makes
  <2>6. QED BY <1>1, <2>5
<1>4. QED BY <1>2, <1>3

LEMMA CreateAdds ==
  ASSUME NEW w, IsWriter(w), NEW pattern, Len(pattern.steps) \in Nat, NEW values
  PROVE  Adds(w, create(w, pattern, values))
<1> DEFINE n == Len(pattern.steps)
           made == CHOOSE h : Makes(h, w, pattern, values, n)
<1>1. Makes(made, w, pattern, values, n)
  BY MakesExist
<1>2. create(w, pattern, values) = made[n]
  BY DEF create, Unless, Makes
<1> HIDE DEF made
<1> DEFINE S == {k \in 0 .. n : ~ Adds(w, made[k])}
<1>3. S = {}
  <2> SUFFICES ASSUME S # {} PROVE FALSE
    OBVIOUS
  <2>1. PICK m \in S : \A k \in S : m <= k
    <3>1. S \in SUBSET Nat
      OBVIOUS
    <3>2. QED BY <3>1, Least
  <2>2. CASE m = 0
    <3>1. made[0] = create_node(w, pattern.start, values.start)
      BY <1>1 DEF Makes
    <3>2. QED BY <2>1, <2>2, <3>1, CreateNodeAdds
  <2>3. CASE m # 0
    <3>1. m - 1 \in 0 .. n /\ Adds(w, made[m - 1])
      BY <2>1, <2>3
    <3> DEFINE v == made[m - 1]
               u == create_step(v, pattern.steps[m], values.steps[m])
    <3>2. Adds(v, u)
      BY <3>1, CreateStepAdds DEF Adds, Moves
    <3>3. made[m] = IF v.refused # << >> THEN v ELSE u
      BY <1>1, <2>1, <2>3 DEF Makes
    <3> HIDE DEF v, u
    <3>4. Adds(w, made[m])
      BY <3>1, <3>2, <3>3, UnlessAdds DEF v
    <3>5. QED BY <2>1, <3>4
  <2>4. QED BY <2>2, <2>3
<1>4. QED BY <1>2, <1>3

-----------------------------------------------------------------------------
(* A record that is there                                                   *)

\* The same record with other contents.
Revises(record, old) ==
  /\ DOMAIN record = DOMAIN old
  /\ record.id = old.id
  /\ "source" \in DOMAIN old => record.source = old.source /\ record.target = old.target

\* Neither counter is one of records that come or go.
ContentCounter == {"properties_set", "properties_removed", "labels_added", "labels_removed"}

\* What one of the changes makes of a record, if it changes anything.
IsChange(change, old) ==
  ~ IsRefused(change) /\ change[2].counter # << >> =>
    /\ change[2].counter[1] \in ContentCounter
    /\ Revises(change[2].record, old) /\ change[2].record.contributions = old.contributions

LEMMA ChangesRevise ==
  ASSUME NEW r, DOMAIN r \in {NodeField, EdgeField}, NEW key, NEW value
  PROVE  /\ IsChange(WithoutProperty(r, key), r)
         /\ IsChange(WithProperty(r, key, value), r)
         /\ IsChange(WithLabel(r, key), r)
         /\ IsChange(WithoutLabel(r, key), r)
<1> USE DEF IsChange, IsRefused, Yes, Refuse, Unaltered, Revises, ContentCounter, NodeField, EdgeField
<1>1. IsChange(WithoutProperty(r, key), r)
  BY DEF WithoutProperty
<1>2. IsChange(WithProperty(r, key, value), r)
  BY DEF WithProperty
<1>3. IsChange(WithLabel(r, key), r)
  BY DEF WithLabel
<1>4. IsChange(WithoutLabel(r, key), r)
  BY DEF WithoutLabel
<1>5. QED BY <1>1, <1>2, <1>3, <1>4

LEMMA RevisedRecords ==
  ASSUME NEW records, NEW field, AreRecords(records, field), NEW place \in DOMAIN records,
         NEW record, Revises(record, records[place]), IsSequence(record.contributions),
         Holds(record, records[place])
  PROVE  LET after == [records EXCEPT ![place] = record] IN
         /\ AreRecords(after, field) /\ Len(after) = Len(records)
         /\ "source" \in field /\ AreEnds(records) => AreEnds(after)
         /\ Grown(after, records)
<1> DEFINE after == [records EXCEPT ![place] = record]
<1>1. DOMAIN records = 1 .. Len(records) /\ Len(records) \in Nat
  BY IsSeq DEF AreRecords
<1>2. /\ DOMAIN after = 1 .. Len(records) /\ after[place] = record
      /\ \A i \in 1 .. Len(records) : i # place => after[i] = records[i]
  BY <1>1
<1>3. Len(after) = Len(records) /\ IsSequence(after)
  <2>1. Len(after) = Len(records)
    BY <1>1
  <2>2. after = [i \in 1 .. Len(records) |-> after[i]]
    BY <1>1
  <2>3. QED BY <1>1, <2>1, <2>2 DEF IsSequence
<1> HIDE DEF after
<1>4. \A i \in DOMAIN after :
        DOMAIN after[i] = field /\ after[i].id = records[i].id /\ IsSequence(after[i].contributions)
  BY <1>1, <1>2 DEF AreRecords, Revises
<1>5. AllDistinct(after)
  BY <1>1, <1>2, <1>4 DEF AreRecords, AllDistinct
<1>6. "source" \in field /\ AreEnds(records) => AreEnds(after)
  BY <1>1, <1>2 DEF AreRecords, Revises, AreEnds
<1>7. Grown(after, records)
  BY <1>1, <1>2 DEF Grown, Holds
<1>8. QED BY <1>3, <1>4, <1>5, <1>6, <1>7 DEF AreRecords, after

\* A record of a writer's graph with other contents.
Replaced(w, field, place, record) == [w EXCEPT !.graph[field][place] = record]

LEMMA ReplacedAdds ==
  ASSUME NEW w, IsWriter(w), NEW field \in {"nodes", "edges"}, NEW place \in DOMAIN w.graph[field],
         NEW record, Revises(record, w.graph[field][place]), IsSequence(record.contributions),
         Holds(record, w.graph[field][place]), NEW counter \in ContentCounter
  PROVE  Adds(w, Counted(Replaced(w, field, place, record), counter, 1))
<1> DEFINE v == Replaced(w, field, place, record)
           after == [w.graph[field] EXCEPT ![place] = record]
<1>1. IsGraph(w.graph)
  BY DEF IsWriter
<1>2. /\ AreRecords(w.graph.nodes, NodeField)
      /\ AreRecords(w.graph.edges, EdgeField) /\ AreEnds(w.graph.edges)
      /\ w.graph = [nodes |-> w.graph.nodes, edges |-> w.graph.edges, links |-> w.graph.links]
  BY <1>1, GraphParts
<1>3. /\ DOMAIN v = WriterField /\ v.summary = w.summary /\ v.minted = w.minted
      /\ v.graph = [w.graph EXCEPT ![field] = after]
  BY DEF IsWriter, WriterField, Replaced
<1>4. /\ IsGraph(v.graph) /\ Len(v.graph.nodes) = Len(w.graph.nodes) /\ Len(v.graph.edges) = Len(w.graph.edges)
      /\ Grows(w, v)
  <2>1. CASE field = "nodes"
    <3>1. AreRecords(after, NodeField) /\ Len(after) = Len(w.graph.nodes) /\ Grown(after, w.graph.nodes)
      BY <1>2, <2>1, RevisedRecords
    <3>2. v.graph = WithNodes(w.graph, after)
      BY <1>3, <2>1 DEF WithNodes
    <3> HIDE DEF v, after
    <3>3. IsGraph(WithNodes(w.graph, after)) /\ WithNodes(w.graph, after).nodes = after /\ WithNodes(w.graph, after).edges = w.graph.edges
      BY <1>1, <3>1, GraphWithNodes
    <3>4. QED BY <3>1, <3>2, <3>3, GrownNowhere DEF Grows
  <2>2. CASE field = "edges"
    <3>1. /\ AreRecords(after, EdgeField) /\ Len(after) = Len(w.graph.edges) /\ AreEnds(after)
          /\ Grown(after, w.graph.edges)
      <4>1. "source" \in EdgeField
        BY DEF EdgeField
      <4>2. QED BY <1>2, <2>2, <4>1, RevisedRecords
    <3>2. v.graph = WithEdges(w.graph, after)
      BY <1>3, <2>2 DEF WithEdges
    <3> HIDE DEF v, after
    <3>3. IsGraph(WithEdges(w.graph, after)) /\ WithEdges(w.graph, after).edges = after /\ WithEdges(w.graph, after).nodes = w.graph.nodes
      BY <1>1, <3>1, GraphWithEdges
    <3>4. QED BY <3>1, <3>2, <3>3, GrownNowhere DEF Grows
  <2>3. QED BY <2>1, <2>2
<1> HIDE DEF v
<1>5. /\ By(counter, 1, "nodes_created", "nodes_deleted") = 0
      /\ By(counter, 1, "edges_created", "edges_deleted") = 0
      /\ counter \in Counter /\ 1 \in Nat /\ (1 = 0 => v.graph = w.graph)
  BY DEF By, ContentCounter, Counter
<1>6. Len(w.graph.nodes) \in Nat /\ Len(w.graph.edges) \in Nat /\ w.minted \in Nat
  BY <1>1, GraphLengths DEF IsWriter
<1>7. /\ Len(v.graph.nodes) = Len(w.graph.nodes) + By(counter, 1, "nodes_created", "nodes_deleted")
      /\ Len(v.graph.edges) = Len(w.graph.edges) + By(counter, 1, "edges_created", "edges_deleted")
  BY <1>4, <1>5, <1>6
<1>8. Adds(w, Counted(v, counter, 1))
  BY <1>3, <1>4, <1>5, <1>6, <1>7, CountedAdds
<1>9. QED BY <1>8 DEF v

\* What Modified makes of the record it finds.
ModifiedBy(w, bound, id, change) ==
  IF Place(w.graph[Field(bound)], id) = {} THEN Refusing(w, Semantic)
  ELSE IF IsRefused(change) THEN Refusing(w, change[2])
  ELSE IF change[2].counter = << >> THEN w
  ELSE Counted(Replaced(w, Field(bound), Min(Place(w.graph[Field(bound)], id)),
                        [change[2].record EXCEPT !.contributions = note_user_ownership(@)]),
               change[2].counter[1], 1)

\* The record at the place a handle names.
Found(w, bound, id) == w.graph[Field(bound)][Min(Place(w.graph[Field(bound)], id))]

LEMMA FoundIsThere ==
  ASSUME NEW w, IsWriter(w), NEW bound, NEW id, Place(w.graph[Field(bound)], id) # {}
  PROVE  /\ Field(bound) \in {"nodes", "edges"}
         /\ Min(Place(w.graph[Field(bound)], id)) \in DOMAIN w.graph[Field(bound)]
         /\ Min(Place(w.graph[Field(bound)], id)) \in Place(w.graph[Field(bound)], id)
         /\ DOMAIN Found(w, bound, id) \in {NodeField, EdgeField}
         /\ IsSequence(Found(w, bound, id).contributions)
<1> DEFINE records == w.graph[Field(bound)]
<1>1. Field(bound) \in {"nodes", "edges"}
  BY DEF Field
<1>2. /\ AreRecords(w.graph.nodes, NodeField) /\ AreRecords(w.graph.edges, EdgeField)
  BY GraphParts DEF IsWriter
<1>3. \E field \in {NodeField, EdgeField} : AreRecords(records, field)
  BY <1>1, <1>2
<1>4. DOMAIN records = 1 .. Len(records) /\ Len(records) \in Nat
  BY <1>3, IsSeq DEF AreRecords
<1>5. Place(records, id) \in SUBSET Nat
  BY <1>4 DEF Place
<1> HIDE DEF records
<1>6. Min(Place(records, id)) \in Place(records, id)
  BY <1>5, MinIsLeast DEF records
<1>7. Min(Place(records, id)) \in DOMAIN records
  BY <1>6 DEF Place
<1>8. QED BY <1>1, <1>3, <1>6, <1>7 DEF records, Found, AreRecords

\* The user's claim beside those of the others.
LEMMA NotedHolds ==
  ASSUME NEW old, NEW record, record.id = old.id, IsSequence(old.contributions),
         record.contributions = note_user_ownership(old.contributions)
  PROVE  IsSequence(record.contributions) /\ Holds(record, old)
<1> DEFINE had == old.contributions
           has == record.contributions
<1>1. CASE \E i \in DOMAIN had : had[i].owner = "user"
  <2>1. has = had
    BY <1>1 DEF note_user_ownership
  <2>2. QED BY <1>1, <2>1 DEF Holds, ClaimedByUser, ClaimsOfOthers, ClaimsOn
<1>2. CASE ~ \E i \in DOMAIN had : had[i].owner = "user"
  <2>1. has = Append(had, UserContribution)
    BY <1>2 DEF note_user_ownership
  <2>2. /\ DOMAIN had = 1 .. Len(had) /\ Len(had) \in Nat
        /\ IsSequence(has) /\ DOMAIN has = 1 .. Len(had) + 1
        /\ \A i \in 1 .. Len(had) : has[i] = had[i]
        /\ has[Len(had) + 1] = UserContribution
    BY <2>1, IsSeq, Appended
  <2>3. 1 .. Len(had) + 1 = (1 .. Len(had)) \union {Len(had) + 1}
    BY <2>2
  <2> HIDE DEF had, has
  <2>4. UserContribution.owner = "user"
    BY DEF UserContribution
  <2>5. {has[i] : i \in DOMAIN has} = {had[i] : i \in DOMAIN had} \union {UserContribution}
    BY <2>2, <2>3
  <2>6. ClaimsOn(record) = ClaimsOn(old) \union {UserContribution}
    BY <2>5 DEF ClaimsOn, had, has
  <2>7. ClaimedByUser(record) /\ ClaimsOfOthers(record) = ClaimsOfOthers(old)
    BY <2>4, <2>6 DEF ClaimedByUser, ClaimsOfOthers
  <2>8. QED BY <2>2, <2>7 DEF Holds, has
<1>3. QED BY <1>1, <1>2

LEMMA ModifiedAdds ==
  ASSUME NEW w, IsWriter(w), NEW bound, NEW id, NEW change,
         Place(w.graph[Field(bound)], id) # {} => IsChange(change, Found(w, bound, id))
  PROVE  Adds(w, ModifiedBy(w, bound, id, change))
<1> DEFINE place == Min(Place(w.graph[Field(bound)], id))
           record == [change[2].record EXCEPT !.contributions = note_user_ownership(@)]
<1>1. Adds(w, w)
  BY AddsNowhere
<1>2. CASE Place(w.graph[Field(bound)], id) = {}
  BY <1>1, <1>2, RefusingAdds DEF ModifiedBy
<1>3. CASE Place(w.graph[Field(bound)], id) # {} /\ IsRefused(change)
  BY <1>1, <1>3, RefusingAdds DEF ModifiedBy
<1>4. CASE Place(w.graph[Field(bound)], id) # {} /\ ~ IsRefused(change) /\ change[2].counter = << >>
  BY <1>1, <1>4 DEF ModifiedBy
<1>5. CASE Place(w.graph[Field(bound)], id) # {} /\ ~ IsRefused(change) /\ change[2].counter # << >>
  <2>1. ModifiedBy(w, bound, id, change) = Counted(Replaced(w, Field(bound), place, record), change[2].counter[1], 1)
    BY <1>5 DEF ModifiedBy
  <2>2. /\ Field(bound) \in {"nodes", "edges"} /\ place \in DOMAIN w.graph[Field(bound)]
        /\ DOMAIN Found(w, bound, id) \in {NodeField, EdgeField}
    BY <1>5, FoundIsThere
  <2>3. /\ change[2].counter[1] \in ContentCounter /\ Revises(change[2].record, Found(w, bound, id))
        /\ change[2].record.contributions = Found(w, bound, id).contributions
    BY <1>5 DEF IsChange
  <2>4. Revises(record, Found(w, bound, id))
        /\ record.contributions = note_user_ownership(Found(w, bound, id).contributions)
    BY <2>2, <2>3 DEF Revises, NodeField, EdgeField
  <2>5. IsSequence(Found(w, bound, id).contributions)
    BY <1>5, FoundIsThere
  <2> HIDE DEF record
  <2>6. IsSequence(record.contributions) /\ Holds(record, Found(w, bound, id))
    BY <2>4, <2>5, NotedHolds DEF Revises
  <2>7. QED BY <2>1, <2>2, <2>3, <2>4, <2>6, ReplacedAdds DEF Found
<1>6. QED BY <1>2, <1>3, <1>4, <1>5

\* Modified is refused, or it is ModifiedBy.
ModifiedAs(w, bound, change) ==
  IF bound[1] \notin {"node", "relationship"} THEN Refusing(w, Semantic)
  ELSE IF IsRefused(writable(bound[2])) THEN Refusing(w, writable(bound[2])[2])
  ELSE ModifiedBy(w, bound, writable(bound[2])[2], change)

LEMMA ModifiedAsAdds ==
  ASSUME NEW w, IsWriter(w), NEW bound, NEW change,
         Place(w.graph[Field(bound)], writable(bound[2])[2]) # {} =>
           IsChange(change, Found(w, bound, writable(bound[2])[2]))
  PROVE  Adds(w, ModifiedAs(w, bound, change))
<1>1. Adds(w, w)
  BY AddsNowhere
<1>2. QED BY <1>1, RefusingAdds, ModifiedAdds DEF ModifiedAs

LEMMA SetAs ==
  ASSUME NEW w, NEW item, NEW bound, NEW value
  PROVE  set(w, item, bound, value) =
           IF bound = Null THEN w
           ELSE IF item[1] = "label"
           THEN ModifiedAs(w, bound, WithLabel(Found(w, bound, writable(bound[2])[2]), item[3]))
           ELSE IF IsRefused(stored_value(value)) THEN Refusing(w, stored_value(value)[2])
           ELSE IF stored_value(value)[2] = << >>
           THEN ModifiedAs(w, bound, WithoutProperty(Found(w, bound, writable(bound[2])[2]), item[3]))
           ELSE ModifiedAs(w, bound, WithProperty(Found(w, bound, writable(bound[2])[2]), item[3],
                                                  stored_value(value)[2][1]))
BY DEF set, Modified, Proceed, ModifiedAs, ModifiedBy, Found, Replaced

LEMMA SetAdds ==
  ASSUME NEW w, IsWriter(w), NEW item, NEW bound, NEW value
  PROVE  Adds(w, set(w, item, bound, value))
<1> DEFINE old == Found(w, bound, writable(bound[2])[2])
<1>1. Adds(w, w)
  BY AddsNowhere
<1>2. Place(w.graph[Field(bound)], writable(bound[2])[2]) # {} => DOMAIN old \in {NodeField, EdgeField}
  BY FoundIsThere
<1> HIDE DEF old
<1>3. Adds(w, ModifiedAs(w, bound, WithLabel(old, item[3])))
  BY <1>2, ChangesRevise, ModifiedAsAdds DEF old
<1>4. Adds(w, ModifiedAs(w, bound, WithoutProperty(old, item[3])))
  BY <1>2, ChangesRevise, ModifiedAsAdds DEF old
<1>5. Adds(w, ModifiedAs(w, bound, WithProperty(old, item[3], stored_value(value)[2][1])))
  BY <1>2, ChangesRevise, ModifiedAsAdds DEF old
<1>6. Adds(w, Refusing(w, stored_value(value)[2]))
  BY <1>1, RefusingAdds
<1>7. QED BY <1>1, <1>3, <1>4, <1>5, <1>6, SetAs DEF old

LEMMA RemoveAs ==
  ASSUME NEW w, NEW item, NEW bound
  PROVE  remove(w, item, bound) =
           IF bound = Null THEN w
           ELSE IF item[1] = "label"
           THEN ModifiedAs(w, bound, WithoutLabel(Found(w, bound, writable(bound[2])[2]), item[3]))
           ELSE ModifiedAs(w, bound, WithoutProperty(Found(w, bound, writable(bound[2])[2]), item[3]))
BY DEF remove, Modified, Proceed, ModifiedAs, ModifiedBy, Found, Replaced

LEMMA RemoveAdds ==
  ASSUME NEW w, IsWriter(w), NEW item, NEW bound
  PROVE  Adds(w, remove(w, item, bound))
<1> DEFINE old == Found(w, bound, writable(bound[2])[2])
<1>1. Adds(w, w)
  BY AddsNowhere
<1>2. Place(w.graph[Field(bound)], writable(bound[2])[2]) # {} => DOMAIN old \in {NodeField, EdgeField}
  BY FoundIsThere
<1> HIDE DEF old
<1>3. Adds(w, ModifiedAs(w, bound, WithoutLabel(old, item[3])))
  BY <1>2, ChangesRevise, ModifiedAsAdds DEF old
<1>4. Adds(w, ModifiedAs(w, bound, WithoutProperty(old, item[3])))
  BY <1>2, ChangesRevise, ModifiedAsAdds DEF old
<1>5. QED BY <1>1, <1>3, <1>4, RemoveAs DEF old

-----------------------------------------------------------------------------
(* Deletions                                                                *)

\* Nodes and edges only go, and a node that goes takes its edges.
Sheds(w, v) ==
  /\ Records(v.graph) \subseteq Records(w.graph)
  /\ Ids(v.graph) \subseteq Ids(w.graph)
  /\ Ends(v.graph) \subseteq Ends(w.graph)
  /\ (Ids(w.graph) \ Ids(v.graph)) \intersect Ends(v.graph) = {}

LEMMA ShedsOn ==
  ASSUME NEW w, NEW v, NEW u, Sheds(w, v), Sheds(v, u)
  PROVE  Sheds(w, u)
BY DEF Sheds

LEMMA ShedsAside ==
  ASSUME NEW w, NEW v, v.graph = w.graph
  PROVE  Sheds(w, v)
BY DEF Sheds, Records, Ids, Ends

LEMMA DeleteEdgesMoves ==
  ASSUME NEW w, IsWriter(w), NEW ids
  PROVE  LET v == delete_edges(w, ids) IN
         /\ Moves(w, v) /\ Sheds(w, v)
         /\ v.graph.nodes = w.graph.nodes
         /\ v.graph.edges = Retained(w.graph.edges, ids)
<1> DEFINE left == Retained(w.graph.edges, ids)
           v == [w EXCEPT !.graph.edges = left]
           n == Len(w.graph.edges) - Len(left)
<1>1. IsGraph(w.graph)
  BY DEF IsWriter
<1>2. AreRecords(w.graph.edges, EdgeField) /\ AreEnds(w.graph.edges)
  BY <1>1, GraphParts
<1>3. /\ AreRecords(left, EdgeField)
      /\ Len(w.graph.edges) \in Nat /\ Len(left) \in Nat /\ Len(left) <= Len(w.graph.edges)
      /\ Len(left) = Len(w.graph.edges) => left = w.graph.edges
      /\ \A i \in DOMAIN left : \E j \in DOMAIN w.graph.edges : left[i] = w.graph.edges[j]
  <2>1. IsRest(left, w.graph.edges, ids, EdgeField)
    BY <1>2, RetainedIsRest
  <2>2. QED BY <2>1 DEF IsRest
<1>4. delete_edges(w, ids) = Counted(v, "edges_deleted", n)
  BY DEF delete_edges
<1>5. v.graph = WithEdges(w.graph, left) /\ DOMAIN v = WriterField /\ v.summary = w.summary /\ v.minted = w.minted
  BY DEF IsWriter, WriterField, WithEdges
<1> HIDE DEF left, v
<1>6. AreEnds(left)
  BY <1>2, <1>3 DEF AreEnds
<1>7. /\ IsGraph(WithEdges(w.graph, left)) /\ WithEdges(w.graph, left).edges = left
      /\ WithEdges(w.graph, left).nodes = w.graph.nodes
      /\ left = w.graph.edges => WithEdges(w.graph, left) = w.graph
  BY <1>1, <1>3, <1>6, GraphWithEdges
<1>8. n \in Nat /\ (n = 0 => v.graph = w.graph)
  BY <1>3, <1>5, <1>7
<1>9. /\ By("edges_deleted", n, "nodes_created", "nodes_deleted") = 0
      /\ By("edges_deleted", n, "edges_created", "edges_deleted") = 0 - n
      /\ "edges_deleted" \in Counter
  BY DEF By, Counter
<1>10. /\ Len(v.graph.nodes) = Len(w.graph.nodes) + By("edges_deleted", n, "nodes_created", "nodes_deleted")
       /\ Len(v.graph.edges) = Len(w.graph.edges) + By("edges_deleted", n, "edges_created", "edges_deleted")
  BY <1>1, <1>3, <1>5, <1>7, <1>9, GraphLengths
<1>11. w.minted \in Nat
  BY DEF IsWriter
<1> HIDE DEF n
<1>12. Moves(w, Counted(v, "edges_deleted", n)) /\ Counted(v, "edges_deleted", n).graph = v.graph
  BY <1>5, <1>7, <1>8, <1>9, <1>10, <1>11, CountedMoves
<1>13. Sheds(w, delete_edges(w, ids))
  <2> DEFINE u == delete_edges(w, ids)
  <2>1. u.graph.nodes = w.graph.nodes /\ u.graph.edges = left
    BY <1>4, <1>5, <1>7, <1>12
  <2> HIDE DEF u
  <2>2. Ids(u.graph) = Ids(w.graph)
    BY <2>1 DEF Ids
  <2>3. Ends(u.graph) \subseteq Ends(w.graph)
    <3>1. {u.graph.edges[i].source : i \in DOMAIN u.graph.edges} \subseteq {w.graph.edges[i].source : i \in DOMAIN w.graph.edges}
      BY <2>1, <1>3
    <3>2. {u.graph.edges[i].target : i \in DOMAIN u.graph.edges} \subseteq {w.graph.edges[i].target : i \in DOMAIN w.graph.edges}
      BY <2>1, <1>3
    <3>3. QED BY <3>1, <3>2 DEF Ends
  <2>4. Records(u.graph) \subseteq Records(w.graph)
    BY <2>1, <1>3 DEF Records
  <2>5. QED BY <2>2, <2>3, <2>4 DEF Sheds, u
<1>14. QED BY <1>4, <1>5, <1>7, <1>12, <1>13 DEF left

LEMMA DeleteNodeMoves ==
  ASSUME NEW w, IsWriter(w), NEW id, NEW detach
  PROVE  LET v == delete_node(w, id, detach) IN Moves(w, v) /\ Sheds(w, v)
<1>1. CASE Incident(w.graph, id) # {} /\ ~ detach
  <2>1. delete_node(w, id, detach) = Refusing(w, Semantic)
    BY <1>1 DEF delete_node
  <2>2. Refusing(w, Semantic).graph = w.graph
    BY DEF Refusing, IsWriter, WriterField
  <2>3. QED BY <2>1, <2>2, MovesNowhere, RefusingMoves, ShedsAside
<1>2. CASE ~ (Incident(w.graph, id) # {} /\ ~ detach)
  <2> DEFINE ids == Incident(w.graph, id)
             left == Retained(w.graph.nodes, {id})
             n == Len(w.graph.nodes) - Len(left)
             e == delete_edges(w, ids)
             v == [e EXCEPT !.graph.nodes = left]
             u == Counted(v, "nodes_deleted", n)
  <2>1. delete_node(w, id, detach) = u
    BY <1>2 DEF delete_node
  <2>2. /\ Moves(w, e) /\ Sheds(w, e) /\ IsWriter(e)
        /\ e.graph.nodes = w.graph.nodes /\ e.graph.edges = Retained(w.graph.edges, ids)
    BY DeleteEdgesMoves DEF Moves
  <2>3. /\ AreRecords(w.graph.nodes, NodeField)
        /\ AreRecords(w.graph.edges, EdgeField) /\ AreEnds(w.graph.edges)
    BY GraphParts DEF IsWriter
  <2>4. IsRest(left, w.graph.nodes, {id}, NodeField)
    BY <2>3, RetainedIsRest
  <2>5. IsRest(e.graph.edges, w.graph.edges, ids, EdgeField)
    BY <2>2, <2>3, RetainedIsRest
  <2> HIDE DEF ids, e, left
  <2>6. v.graph = WithNodes(e.graph, left) /\ DOMAIN v = WriterField /\ v.summary = e.summary /\ v.minted = e.minted
    BY <2>2 DEF IsWriter, WriterField, WithNodes
  <2> HIDE DEF v
  <2>7. /\ IsGraph(WithNodes(e.graph, left)) /\ WithNodes(e.graph, left).nodes = left
        /\ WithNodes(e.graph, left).edges = e.graph.edges
        /\ left = e.graph.nodes => WithNodes(e.graph, left) = e.graph
    BY <2>2, <2>4, GraphWithNodes DEF IsRest, IsWriter
  <2>8. n \in Nat /\ (n = 0 => v.graph = e.graph)
    BY <2>2, <2>4, <2>6, <2>7 DEF IsRest
  <2>9. /\ By("nodes_deleted", n, "edges_created", "edges_deleted") = 0
        /\ By("nodes_deleted", n, "nodes_created", "nodes_deleted") = 0 - n
        /\ "nodes_deleted" \in Counter
    BY DEF By, Counter
  <2>10. /\ Len(v.graph.nodes) = Len(e.graph.nodes) + By("nodes_deleted", n, "nodes_created", "nodes_deleted")
         /\ Len(v.graph.edges) = Len(e.graph.edges) + By("nodes_deleted", n, "edges_created", "edges_deleted")
    BY <2>2, <2>4, <2>6, <2>7, <2>9, GraphLengths DEF IsRest, IsWriter
  <2>11. e.minted \in Nat
    BY <2>2 DEF IsWriter
  <2> HIDE DEF n
  <2>12. Moves(e, u) /\ u.graph = v.graph
    <3>1. IsGraph(v.graph) /\ DOMAIN v = WriterField /\ v.minted \in Nat /\ v.summary = e.summary
      BY <2>6, <2>7, <2>11
    <3>2. IsWriter(e)
      BY <2>2
    <3>3. QED BY <2>8, <2>9, <2>10, <3>1, <3>2, CountedMoves
  <2> HIDE DEF u
  <2>13. Moves(w, u)
    BY <2>2, <2>12, MovesOn
  <2>14. Ids(u.graph) = Ids(w.graph) \ {id}
    <3>1. u.graph.nodes = left
      BY <2>6, <2>7, <2>12
    <3>2. IdsOf(left) = IdsOf(w.graph.nodes) \ {id}
      BY <2>4 DEF IsRest
    <3>3. QED BY <3>1, <3>2 DEF IdsOf, Ids
  <2>15. Ends(u.graph) = Ends(e.graph)
    BY <2>6, <2>7, <2>12 DEF Ends
  <2>16. id \notin Ends(e.graph)
    <3> SUFFICES ASSUME NEW i \in DOMAIN e.graph.edges,
                        NEW r \in {e.graph.edges[i].source, e.graph.edges[i].target},
                        r[1] = "local", r[2] = id
                 PROVE  FALSE
      BY DEF Ends
    <3>1. PICK j \in DOMAIN w.graph.edges : e.graph.edges[i] = w.graph.edges[j]
      BY <2>5 DEF IsRest
    <3>2. w.graph.edges[j].id \notin ids
      BY <2>5, <3>1 DEF IsRest, IdsOf
    <3>3. r = <<"local", id>>
      BY <2>3, <3>1 DEF AreEnds, IsEndpoint
    <3>4. w.graph.edges[j].id \in ids
      BY <3>1, <3>3 DEF ids, Incident
    <3>5. QED BY <3>2, <3>4
  <2>17. Records(u.graph) \subseteq Records(w.graph)
    <3>1. u.graph.nodes = left /\ u.graph.edges = e.graph.edges
      BY <2>6, <2>7, <2>12
    <3>2. /\ \A i \in DOMAIN left : \E j \in DOMAIN w.graph.nodes : left[i] = w.graph.nodes[j]
          /\ \A i \in DOMAIN e.graph.edges : \E j \in DOMAIN w.graph.edges : e.graph.edges[i] = w.graph.edges[j]
      BY <2>4, <2>5 DEF IsRest
    <3>3. QED BY <3>1, <3>2 DEF Records
  <2>18. Sheds(w, u)
    BY <2>2, <2>14, <2>15, <2>16, <2>17 DEF Sheds
  <2>19. QED BY <2>1, <2>13, <2>18
<1>3. QED BY <1>1, <1>2

LEMMA DeleteMoves ==
  ASSUME NEW w, IsWriter(w), NEW bound, NEW detach
  PROVE  Moves(w, delete(w, bound, detach)) /\ Sheds(w, delete(w, bound, detach))
<1>1. Moves(w, w) /\ Sheds(w, w)
  BY MovesNowhere, ShedsAside
<1>2. \A code : Moves(w, Refusing(w, code)) /\ Sheds(w, Refusing(w, code))
  <2> TAKE code
  <2>1. Refusing(w, code).graph = w.graph
    BY DEF Refusing, IsWriter, WriterField
  <2>2. QED BY <1>1, <2>1, RefusingMoves, ShedsAside
<1> DEFINE handle == writable(bound[2])
<1>3. CASE bound[1] = "node"
  <2>1. delete(w, bound, detach) = IF IsRefused(handle) THEN Refusing(w, handle[2])
                                   ELSE delete_node(w, handle[2], detach)
    BY <1>3 DEF delete, Proceed, Null
  <2>2. QED BY <1>2, <2>1, DeleteNodeMoves
<1>4. CASE bound[1] = "relationship"
  <2>1. delete(w, bound, detach) = IF IsRefused(handle) THEN Refusing(w, handle[2])
                                   ELSE delete_edges(w, {handle[2]})
    BY <1>4 DEF delete, Proceed, Null
  <2>2. QED BY <1>2, <2>1, DeleteEdgesMoves
<1>5. CASE bound[1] \notin {"node", "relationship"}
  <2>1. delete(w, bound, detach) = IF bound = Null THEN w ELSE Refusing(w, Semantic)
    BY <1>5 DEF delete
  <2>2. QED BY <1>1, <1>2, <2>1
<1>6. QED BY <1>3, <1>4, <1>5

-----------------------------------------------------------------------------
(* The writes of a row, and the rows of a clause                            *)

\* A write as the clauses ask for it.
IsWrite(write) ==
  /\ write[1] \in {"create", "merge", "set", "remove", "delete"}
  /\ write[1] \in {"create", "merge"} => Len(write[2].steps) \in Nat

LEMMA MergeAdds ==
  ASSUME NEW w, IsWriter(w), NEW x, NEW pattern, Len(pattern.steps) \in Nat
  PROVE  Adds(w, merge(w, x, pattern))
<1> DEFINE found == MatchPattern(MatchedOn(x, w), pattern, w.row)
           values == pattern_values(MatchedOn(x, w), pattern, w.row)
<1>1. merge(w, x, pattern) = IF IsRefused(found) THEN Refusing(w, found[2])
                             ELSE IF found[2] # << >> THEN [w EXCEPT !.found = found[2]]
                             ELSE IF IsRefused(values) THEN Refusing(w, values[2])
                             ELSE create(w, pattern, values[2])
  BY DEF merge, Proceed
<1> HIDE DEF found, values
<1>2. Adds(w, w)
  BY AddsNowhere
<1>3. Adds(w, [w EXCEPT !.found = found[2]])
  <2> DEFINE v == [w EXCEPT !.found = found[2]]
  <2>1. DOMAIN v = WriterField /\ v.graph = w.graph /\ v.summary = w.summary /\ v.minted = w.minted
    BY DEF IsWriter, WriterField
  <2>2. QED BY <1>2, <2>1, AddsAside
<1>4. QED BY <1>1, <1>2, <1>3, RefusingAdds, CreateAdds

LEMMA PerformedAdds ==
  ASSUME NEW w, IsWriter(w), NEW x, NEW write, IsWrite(write), write[1] # "delete"
  PROVE  Adds(w, Performed(w, x, write))
<1> DEFINE bound == Bound(w.row, <<write[2][2]>>)
<1>1. CASE write[1] = "create"
  BY <1>1, CreateAdds DEF Performed, IsWrite
<1>2. CASE write[1] = "merge"
  BY <1>2, MergeAdds DEF Performed, IsWrite
<1>3. CASE write[1] = "set"
  <2>1. Performed(w, x, write) = IF IsRefused(bound) THEN Refusing(w, bound[2])
                                 ELSE set(w, write[2], bound[2], write[3])
    BY <1>3 DEF Performed, OnBound, Proceed
  <2>2. QED BY <2>1, AddsNowhere, RefusingAdds, SetAdds
<1>4. CASE write[1] = "remove"
  <2>1. Performed(w, x, write) = IF IsRefused(bound) THEN Refusing(w, bound[2])
                                 ELSE remove(w, write[2], bound[2])
    BY <1>4 DEF Performed, OnBound, Proceed
  <2>2. QED BY <2>1, AddsNowhere, RefusingAdds, RemoveAdds
<1>5. QED BY <1>1, <1>2, <1>3, <1>4 DEF IsWrite

\* The writes of a row, which all delete, or none does.
AreWrites(list, shed) ==
  /\ Len(list) \in Nat
  /\ \A j \in 1 .. Len(list) :
       /\ IsWrite(list[j])
       /\ IF shed THEN list[j][1] = "delete" ELSE list[j][1] # "delete"

\* What leads from one writer to another: records only go, or none goes.
Goes(w, v, shed) == Moves(w, v) /\ IF shed THEN Sheds(w, v) ELSE Grows(w, v)

LEMMA GoesNowhere ==
  ASSUME NEW w, IsWriter(w), NEW shed
  PROVE  Goes(w, w, shed)
BY AddsNowhere, ShedsAside DEF Goes, Adds

LEMMA GoesOn ==
  ASSUME NEW w, NEW v, NEW u, NEW shed, IsWriter(w), Goes(w, v, shed), Goes(v, u, shed)
  PROVE  Goes(w, u, shed)
<1>1. Moves(w, u)
  BY MovesOn DEF Goes
<1>2. CASE shed
  BY <1>1, <1>2, ShedsOn DEF Goes
<1>3. CASE ~ shed
  <2>1. Adds(w, v) /\ Adds(v, u)
    BY <1>3 DEF Goes, Adds
  <2>2. QED BY <1>1, <1>3, <2>1, AddsOn DEF Goes, Adds
<1>4. QED BY <1>2, <1>3

LEMMA GoesAside ==
  ASSUME NEW w, NEW v, NEW u, NEW shed, Goes(w, v, shed), DOMAIN u = WriterField,
         u.graph = v.graph, u.summary = v.summary, u.minted = v.minted
  PROVE  Goes(w, u, shed)
<1>1. (Sheds(w, v) => Sheds(w, u)) /\ (Grows(w, v) => Grows(w, u))
  BY DEF Sheds, Grows
<1>2. QED BY <1>1, MovesAside DEF Goes

LEMMA PerformedGoes ==
  ASSUME NEW w, IsWriter(w), NEW x, NEW write, NEW shed, IsWrite(write),
         IF shed THEN write[1] = "delete" ELSE write[1] # "delete"
  PROVE  Goes(w, Performed(w, x, write), shed)
<1>1. CASE shed
  <2>1. Performed(w, x, write) = delete(w, write[2], write[3])
    BY <1>1 DEF Performed
  <2>2. QED BY <1>1, <2>1, DeleteMoves DEF Goes
<1>2. CASE ~ shed
  <2>1. Adds(w, Performed(w, x, write))
    BY <1>2, PerformedAdds
  <2>2. QED BY <1>2, <2>1 DEF Goes, Adds
<1>3. QED BY <1>1, <1>2

\* The writes of a row, one after another.
RowSteps(done, w, x, row, list, n) ==
  done = [j \in 0 .. n |->
            IF j = 0 THEN [w EXCEPT !.row = row, !.found = << >>]
            ELSE IF done[j - 1].refused # << >> THEN done[j - 1]
            ELSE Performed(done[j - 1], x, list[j])]

LEMMA RowStepsExist ==
  ASSUME NEW w, NEW x, NEW row, NEW list, NEW n \in Nat
  PROVE  \E done : RowSteps(done, w, x, row, list, n)
<1> DEFINE S == {k \in Nat : ~ \E done : RowSteps(done, w, x, row, list, k)}
           start == [w EXCEPT !.row = row, !.found = << >>]
<1> SUFFICES ASSUME S # {} PROVE FALSE
  OBVIOUS
<1>1. PICK m \in S : \A k \in S : m <= k
  BY Least
<1>2. CASE m = 0
  <2>1. RowSteps([j \in 0 .. 0 |-> start], w, x, row, list, 0)
    BY DEF RowSteps
  <2>2. QED BY <1>1, <1>2, <2>1
<1>3. CASE m # 0
  <2>1. m - 1 \in Nat /\ m - 1 \notin S
    BY <1>1, <1>3
  <2>2. PICK done : RowSteps(done, w, x, row, list, m - 1)
    BY <2>1
  <2> DEFINE step(h, j) == IF j = 0 THEN start
                           ELSE IF h[j - 1].refused # << >> THEN h[j - 1]
                           ELSE Performed(h[j - 1], x, list[j])
             more == [j \in 0 .. m |-> IF j = m THEN step(done, m) ELSE done[j]]
  <2>3. \A j \in 0 .. m : more[j] = step(more, j)
    <3> TAKE j \in 0 .. m
    <3>1. CASE j = m
      BY <3>1, <1>1, <1>3, <2>1
    <3>2. CASE j # m
      <4>1. j \in 0 .. m - 1 /\ (j # 0 => j - 1 \in 0 .. m - 1 /\ j - 1 \in 0 .. m /\ j - 1 # m)
        BY <3>2, <2>1
      <4>2. more[j] = done[j] /\ (j # 0 => more[j - 1] = done[j - 1])
        BY <3>2, <4>1
      <4>3. done[j] = step(done, j)
        BY <4>1, <2>2 DEF RowSteps
      <4>4. QED BY <4>1, <4>2, <4>3
    <3>3. QED BY <3>1, <3>2
  <2>4. more = [j \in 0 .. m |-> step(more, j)]
    <3> HIDE DEF step
    <3>1. more = [j \in 0 .. m |-> more[j]]
      OBVIOUS
    <3>2. QED BY <2>3, <3>1
  <2>5. RowSteps(more, w, x, row, list, m)
    BY <2>4 DEF RowSteps
  <2>6. QED BY <1>1, <2>5
<1>4. QED BY <1>2, <1>3

\* The row a writer leaves, or the rows its MERGE found.
Kept(v) == [v EXCEPT !.rows = @ \o IF v.found = << >> THEN <<v.row>> ELSE v.found]

LEMMA RowWrittenSteps ==
  ASSUME NEW w, NEW x, NEW row, NEW list, Len(list) \in Nat
  PROVE  \E done : /\ RowSteps(done, w, x, row, list, Len(list))
                   /\ RowWritten(w, x, row, list) =
                        IF done[Len(list)].refused # << >> THEN done[Len(list)] ELSE Kept(done[Len(list)])
<1> DEFINE done == CHOOSE h : RowSteps(h, w, x, row, list, Len(list))
<1>1. RowSteps(done, w, x, row, list, Len(list))
  BY RowStepsExist
<1>2. RowWritten(w, x, row, list) =
        IF done[Len(list)].refused # << >> THEN done[Len(list)] ELSE Kept(done[Len(list)])
  BY DEF RowWritten, Unless, RowSteps, Kept
<1>3. QED BY <1>1, <1>2

LEMMA RowStepsGo ==
  ASSUME NEW w, IsWriter(w), NEW x, NEW row, NEW list, NEW shed, AreWrites(list, shed), NEW done,
         RowSteps(done, w, x, row, list, Len(list)), NEW n \in 0 .. Len(list)
  PROVE  Goes(w, done[n], shed)
<1> DEFINE S == {k \in 0 .. Len(list) : ~ Goes(w, done[k], shed)}
<1>0. Len(list) \in Nat
  BY DEF AreWrites
<1> SUFFICES ASSUME S # {} PROVE FALSE
  OBVIOUS
<1>1. PICK m \in S : \A k \in S : m <= k
  <2>1. S \in SUBSET Nat
    BY <1>0
  <2>2. QED BY <2>1, Least
<1>2. CASE m = 0
  <2>1. done[0] = [w EXCEPT !.row = row, !.found = << >>]
    BY <1>0 DEF RowSteps
  <2>2. DOMAIN done[0] = WriterField /\ done[0].graph = w.graph /\ done[0].summary = w.summary /\ done[0].minted = w.minted
    BY <2>1 DEF IsWriter, WriterField
  <2>3. Goes(w, done[0], shed)
    BY <2>2, GoesNowhere, GoesAside
  <2>4. QED BY <1>1, <1>2, <2>3
<1>3. CASE m # 0
  <2> DEFINE v == done[m - 1]
             u == Performed(v, x, list[m])
  <2>1. m - 1 \in 0 .. Len(list) /\ m \in 1 .. Len(list) /\ Goes(w, v, shed)
    BY <1>0, <1>1, <1>3
  <2>2. done[m] = IF v.refused # << >> THEN v ELSE u
    BY <1>0, <1>3, <2>1 DEF RowSteps
  <2> HIDE DEF v
  <2>3. IsWriter(v)
    BY <2>1 DEF Goes, Moves
  <2>4. Goes(v, u, shed)
    BY <2>1, <2>3, PerformedGoes DEF AreWrites
  <2> HIDE DEF u
  <2>5. Goes(w, u, shed)
    BY <2>1, <2>4, GoesOn
  <2>6. QED BY <1>1, <2>1, <2>2, <2>5
<1>4. QED BY <1>2, <1>3

LEMMA RowWrittenGoes ==
  ASSUME NEW w, IsWriter(w), NEW x, NEW row, NEW list, NEW shed, AreWrites(list, shed)
  PROVE  Goes(w, RowWritten(w, x, row, list), shed)
<1>0. Len(list) \in Nat
  BY DEF AreWrites
<1>1. PICK done : /\ RowSteps(done, w, x, row, list, Len(list))
                  /\ RowWritten(w, x, row, list) =
                       IF done[Len(list)].refused # << >> THEN done[Len(list)] ELSE Kept(done[Len(list)])
  BY <1>0, RowWrittenSteps
<1> DEFINE v == done[Len(list)]
<1>2. Goes(w, v, shed)
  <2>1. Len(list) \in 0 .. Len(list)
    BY <1>0
  <2>2. QED BY <1>1, <2>1, RowStepsGo
<1> HIDE DEF v
<1>3. Goes(w, Kept(v), shed)
  <2>1. /\ DOMAIN Kept(v) = WriterField /\ Kept(v).graph = v.graph
        /\ Kept(v).summary = v.summary /\ Kept(v).minted = v.minted
    BY <1>2 DEF Goes, Moves, IsWriter, WriterField, Kept
  <2>2. QED BY <1>2, <2>1, GoesAside
<1>4. QED BY <1>1, <1>2, <1>3 DEF v

\* The rows of a clause, one after another.
ClauseSteps(done, w, x, them, lists, n) ==
  done = [i \in 0 .. n |->
            IF i = 0 THEN w
            ELSE IF done[i - 1].refused # << >> THEN done[i - 1]
            ELSE RowWritten(done[i - 1], x, them[i], lists[i])]

LEMMA ClauseStepsExist ==
  ASSUME NEW w, NEW x, NEW them, NEW lists, NEW n \in Nat
  PROVE  \E done : ClauseSteps(done, w, x, them, lists, n)
<1> DEFINE S == {k \in Nat : ~ \E done : ClauseSteps(done, w, x, them, lists, k)}
<1> SUFFICES ASSUME S # {} PROVE FALSE
  OBVIOUS
<1>1. PICK m \in S : \A k \in S : m <= k
  BY Least
<1>2. CASE m = 0
  <2>1. ClauseSteps([i \in 0 .. 0 |-> w], w, x, them, lists, 0)
    BY DEF ClauseSteps
  <2>2. QED BY <1>1, <1>2, <2>1
<1>3. CASE m # 0
  <2>1. m - 1 \in Nat /\ m - 1 \notin S
    BY <1>1, <1>3
  <2>2. PICK done : ClauseSteps(done, w, x, them, lists, m - 1)
    BY <2>1
  <2> DEFINE step(h, i) == IF i = 0 THEN w
                           ELSE IF h[i - 1].refused # << >> THEN h[i - 1]
                           ELSE RowWritten(h[i - 1], x, them[i], lists[i])
             more == [i \in 0 .. m |-> IF i = m THEN step(done, m) ELSE done[i]]
  <2>3. \A i \in 0 .. m : more[i] = step(more, i)
    <3> TAKE i \in 0 .. m
    <3>1. CASE i = m
      BY <3>1, <1>1, <1>3, <2>1
    <3>2. CASE i # m
      <4>1. i \in 0 .. m - 1 /\ (i # 0 => i - 1 \in 0 .. m - 1 /\ i - 1 \in 0 .. m /\ i - 1 # m)
        BY <3>2, <2>1
      <4>2. more[i] = done[i] /\ (i # 0 => more[i - 1] = done[i - 1])
        BY <3>2, <4>1
      <4>3. done[i] = step(done, i)
        BY <4>1, <2>2 DEF ClauseSteps
      <4>4. QED BY <4>1, <4>2, <4>3
    <3>3. QED BY <3>1, <3>2
  <2>4. more = [i \in 0 .. m |-> step(more, i)]
    <3> HIDE DEF step
    <3>1. more = [i \in 0 .. m |-> more[i]]
      OBVIOUS
    <3>2. QED BY <2>3, <3>1
  <2>5. ClauseSteps(more, w, x, them, lists, m)
    BY <2>4 DEF ClauseSteps
  <2>6. QED BY <1>1, <2>5
<1>4. QED BY <1>2, <1>3

LEMMA ClauseWrittenSteps ==
  ASSUME NEW w, NEW x, NEW them, NEW lists, Len(them) \in Nat
  PROVE  \E done : /\ ClauseSteps(done, w, x, them, lists, Len(them))
                   /\ ClauseWritten(w, x, them, lists) = done[Len(them)]
<1> DEFINE done == CHOOSE h : ClauseSteps(h, w, x, them, lists, Len(them))
<1>1. ClauseSteps(done, w, x, them, lists, Len(them))
  BY ClauseStepsExist
<1>2. ClauseWritten(w, x, them, lists) = done[Len(them)]
  BY DEF ClauseWritten, Unless, ClauseSteps
<1>3. QED BY <1>1, <1>2

LEMMA ClauseWrittenGoes ==
  ASSUME NEW w, IsWriter(w), NEW x, NEW them, Len(them) \in Nat, NEW lists, NEW shed,
         \A i \in 1 .. Len(them) : AreWrites(lists[i], shed)
  PROVE  Goes(w, ClauseWritten(w, x, them, lists), shed)
<1>1. PICK done : /\ ClauseSteps(done, w, x, them, lists, Len(them))
                  /\ ClauseWritten(w, x, them, lists) = done[Len(them)]
  BY ClauseWrittenSteps
<1> DEFINE S == {k \in 0 .. Len(them) : ~ Goes(w, done[k], shed)}
<1>2. S = {}
  <2> SUFFICES ASSUME S # {} PROVE FALSE
    OBVIOUS
  <2>1. PICK m \in S : \A k \in S : m <= k
    <3>1. S \in SUBSET Nat
      OBVIOUS
    <3>2. QED BY <3>1, Least
  <2>2. CASE m = 0
    <3>1. done[0] = w
      BY <1>1 DEF ClauseSteps
    <3>2. QED BY <2>1, <2>2, <3>1, GoesNowhere
  <2>3. CASE m # 0
    <3> DEFINE v == done[m - 1]
               u == RowWritten(v, x, them[m], lists[m])
    <3>1. m - 1 \in 0 .. Len(them) /\ m \in 1 .. Len(them) /\ Goes(w, v, shed)
      BY <2>1, <2>3
    <3>2. done[m] = IF v.refused # << >> THEN v ELSE u
      BY <1>1, <2>3, <3>1 DEF ClauseSteps
    <3> HIDE DEF v
    <3>3. IsWriter(v)
      BY <3>1 DEF Goes, Moves
    <3>4. Goes(v, u, shed)
      BY <3>1, <3>3, RowWrittenGoes
    <3> HIDE DEF u
    <3>5. Goes(w, u, shed)
      BY <3>1, <3>4, GoesOn
    <3>6. QED BY <2>1, <3>1, <3>2, <3>5
  <2>4. QED BY <2>2, <2>3
<1>3. QED BY <1>1, <1>2

LEMMA CreateClauseGoes ==
  ASSUME NEW w, IsWriter(w), NEW x, NEW patterns, IsSequence(patterns),
         \A j \in DOMAIN patterns : IsSequence(patterns[j].steps), NEW them, Len(them) \in Nat
  PROVE  Goes(w, CreateClause(w, x, patterns, them), FALSE)
<1> DEFINE values == Each(them, LAMBDA row : Each(patterns, LAMBDA pattern : pattern_values(x, pattern, row)))
           lists == [i \in 1 .. Len(them) |->
                       [j \in DOMAIN patterns |-> <<"create", patterns[j], values[2][i][j]>>]]
<1>1. CreateClause(w, x, patterns, them) =
        IF IsRefused(values) THEN Refusing(w, values[2]) ELSE ClauseWritten(w, x, them, lists)
  BY DEF CreateClause, Proceed, Rowwise
<1>2. DOMAIN patterns = 1 .. Len(patterns) /\ Len(patterns) \in Nat
  BY IsSeq
<1> HIDE DEF values
<1>3. ASSUME NEW i \in 1 .. Len(them) PROVE AreWrites(lists[i], FALSE)
  <2> DEFINE list == [j \in 1 .. Len(patterns) |-> <<"create", patterns[j], values[2][i][j]>>]
  <2>1. lists[i] = list
    BY <1>2
  <2>2. Len(list) = Len(patterns)
    BY <1>2
  <2>3. \A j \in 1 .. Len(patterns) : Len(patterns[j].steps) \in Nat
    BY <1>2 DEF IsSequence
  <2>4. \A j \in 1 .. Len(list) : IsWrite(list[j]) /\ list[j][1] # "delete"
    BY <2>2, <2>3 DEF IsWrite
  <2> HIDE DEF list
  <2>5. QED BY <1>2, <2>1, <2>2, <2>4 DEF AreWrites
<1> HIDE DEF lists
<1>4. Goes(w, ClauseWritten(w, x, them, lists), FALSE)
  BY <1>3, ClauseWrittenGoes
<1>5. Goes(w, Refusing(w, values[2]), FALSE)
  BY AddsNowhere, RefusingAdds DEF Goes, Adds
<1>6. QED BY <1>1, <1>4, <1>5

LEMMA MergeClauseGoes ==
  ASSUME NEW w, IsWriter(w), NEW x, NEW pattern, IsSequence(pattern.steps), NEW them, Len(them) \in Nat
  PROVE  Goes(w, MergeClause(w, x, pattern, them), FALSE)
<1> DEFINE lists == [i \in 1 .. Len(them) |-> <<<<"merge", pattern>>>>]
<1>1. MergeClause(w, x, pattern, them) = ClauseWritten(w, x, them, lists)
  BY DEF MergeClause, Rowwise
<1>2. AreWrites(<<<<"merge", pattern>>>>, FALSE)
  BY DEF AreWrites, IsWrite, IsSequence
<1>3. \A i \in 1 .. Len(them) : AreWrites(lists[i], FALSE)
  BY <1>2
<1> HIDE DEF lists
<1>4. QED BY <1>1, <1>3, ClauseWrittenGoes

LEMMA SetClauseGoes ==
  ASSUME NEW w, IsWriter(w), NEW x, NEW items, IsSequence(items), NEW them, Len(them) \in Nat
  PROVE  Goes(w, SetClause(w, x, items, them), FALSE)
<1> DEFINE values == Each(them, LAMBDA row : Each(items, LAMBDA item : set_value(x, item, row)))
           lists == [i \in 1 .. Len(them) |->
                       [j \in DOMAIN items |-> <<"set", items[j], values[2][i][j]>>]]
<1>1. SetClause(w, x, items, them) =
        IF IsRefused(values) THEN Refusing(w, values[2]) ELSE ClauseWritten(w, x, them, lists)
  BY DEF SetClause, Proceed, Rowwise
<1>2. DOMAIN items = 1 .. Len(items) /\ Len(items) \in Nat
  BY IsSeq
<1> HIDE DEF values
<1>3. ASSUME NEW i \in 1 .. Len(them) PROVE AreWrites(lists[i], FALSE)
  <2> DEFINE list == [j \in 1 .. Len(items) |-> <<"set", items[j], values[2][i][j]>>]
  <2>1. lists[i] = list
    BY <1>2
  <2>2. Len(list) = Len(items)
    BY <1>2
  <2>3. \A j \in 1 .. Len(list) : IsWrite(list[j]) /\ list[j][1] # "delete"
    BY <2>2 DEF IsWrite
  <2> HIDE DEF list
  <2>4. QED BY <1>2, <2>1, <2>2, <2>3 DEF AreWrites
<1> HIDE DEF lists
<1>4. Goes(w, ClauseWritten(w, x, them, lists), FALSE)
  BY <1>3, ClauseWrittenGoes
<1>5. Goes(w, Refusing(w, values[2]), FALSE)
  BY AddsNowhere, RefusingAdds DEF Goes, Adds
<1>6. QED BY <1>1, <1>4, <1>5

LEMMA RemoveClauseGoes ==
  ASSUME NEW w, IsWriter(w), NEW x, NEW items, IsSequence(items), NEW them, Len(them) \in Nat
  PROVE  Goes(w, RemoveClause(w, x, items, them), FALSE)
<1> DEFINE list == [j \in 1 .. Len(items) |-> <<"remove", items[j]>>]
           lists == [i \in 1 .. Len(them) |-> list]
<1>1. DOMAIN items = 1 .. Len(items) /\ Len(items) \in Nat
  BY IsSeq
<1>2. RemoveClause(w, x, items, them) = ClauseWritten(w, x, them, lists)
  BY <1>1 DEF RemoveClause, Rowwise
<1>3. Len(list) = Len(items)
  BY <1>1
<1>4. \A j \in 1 .. Len(list) : IsWrite(list[j]) /\ list[j][1] # "delete"
  BY <1>3 DEF IsWrite
<1> HIDE DEF list
<1>5. \A i \in 1 .. Len(them) : AreWrites(lists[i], FALSE)
  BY <1>1, <1>3, <1>4 DEF AreWrites
<1> HIDE DEF lists
<1>6. QED BY <1>2, <1>5, ClauseWrittenGoes

LEMMA DeleteClauseGoes ==
  ASSUME NEW w, IsWriter(w), NEW x, NEW detach, NEW targets, IsSequence(targets), NEW them, Len(them) \in Nat
  PROVE  Goes(w, DeleteClause(w, x, detach, targets, them), TRUE)
<1> DEFINE values == Each(them, LAMBDA row : Each(targets, LAMBDA target : Evaluate(x, target, row)))
           lists == [i \in 1 .. Len(them) |->
                       [j \in DOMAIN targets |-> <<"delete", values[2][i][j], detach>>]]
<1>1. DeleteClause(w, x, detach, targets, them) =
        IF IsRefused(values) THEN Refusing(w, values[2]) ELSE ClauseWritten(w, x, them, lists)
  BY DEF DeleteClause, Proceed, Rowwise
<1>2. DOMAIN targets = 1 .. Len(targets) /\ Len(targets) \in Nat
  BY IsSeq
<1> HIDE DEF values
<1>3. ASSUME NEW i \in 1 .. Len(them) PROVE AreWrites(lists[i], TRUE)
  <2> DEFINE list == [j \in 1 .. Len(targets) |-> <<"delete", values[2][i][j], detach>>]
  <2>1. lists[i] = list
    BY <1>2
  <2>2. Len(list) = Len(targets)
    BY <1>2
  <2>3. \A j \in 1 .. Len(list) : IsWrite(list[j]) /\ list[j][1] = "delete"
    BY <2>2 DEF IsWrite
  <2> HIDE DEF list
  <2>4. QED BY <1>2, <2>1, <2>2, <2>3 DEF AreWrites
<1> HIDE DEF lists
<1>4. Goes(w, ClauseWritten(w, x, them, lists), TRUE)
  BY <1>3, ClauseWrittenGoes
<1>5. Goes(w, Refusing(w, values[2]), TRUE)
  <2>1. DOMAIN Refusing(w, values[2]) = WriterField /\ Refusing(w, values[2]).graph = w.graph
        /\ Refusing(w, values[2]).summary = w.summary /\ Refusing(w, values[2]).minted = w.minted
    BY DEF Refusing, IsWriter, WriterField
  <2>2. QED BY <2>1, GoesNowhere, GoesAside
<1>6. QED BY <1>1, <1>4, <1>5

-----------------------------------------------------------------------------
(* The session                                                              *)

\* The rows, and the place in the query, when one is running.
Inside ==
  /\ stage \in {"idle", "part", "clause", "row", "result", "done", "refused"}
  /\ Running => query \in Queries /\ part \in 1 .. Len(query.parts)
  /\ stage \in {"clause", "row"} => clause \in 1 .. Len(Part.clauses)
  /\ IsSequence(rows)

\* The graphs stay whole, and what the session holds stays of its kind.
SessionTypes ==
  /\ commits \in Nat /\ minted \in Nat
  /\ IsGraph(base) /\ IsGraph(root)
  /\ total \in [Counter -> Nat] /\ writes \in [Counter -> Nat]
  /\ Inside

SessionInv ==
  /\ SessionTypes
  /\ stage = "idle" => writes = NoWrites
  /\ SummaryTellsTheChange

LEMMA NoRows == IsSequence(<< >>) /\ IsSequence(<<EmptyRow>>)
<1>1. << >> = [i \in 1 .. Len(<< >>) |-> << >>[i]] /\ Len(<< >>) = 0
  OBVIOUS
<1>2. <<EmptyRow>> = [i \in 1 .. Len(<<EmptyRow>>) |-> <<EmptyRow>>[i]] /\ Len(<<EmptyRow>>) = 1
  OBVIOUS
<1>3. QED BY <1>1, <1>2 DEF IsSequence

LEMMA NoWritesCounts == NoWrites \in [Counter -> Nat] /\ \A c \in Counter : NoWrites[c] = 0
BY DEF NoWrites

LEMMA QueryHas ==
  ASSUME query \in Queries, part \in 1 .. Len(query.parts)
  PROVE  /\ Len(query.parts) \in Nat /\ Len(Part.clauses) \in Nat
         /\ \A j \in 1 .. Len(Part.clauses) : IsWritable(Part.clauses[j])
<1>1. IsQuery(query)
  BY QueryAssumption
<1>2. Len(query.parts) \in Nat /\ DOMAIN query.parts = 1 .. Len(query.parts)
  BY <1>1, IsSeq DEF IsQuery
<1>3. IsSequence(Part.clauses) /\ \A j \in DOMAIN Part.clauses : IsWritable(Part.clauses[j])
  BY <1>1, <1>2 DEF IsQuery, Part
<1>4. QED BY <1>2, <1>3, IsSeq

LEMMA SessionStarts == QueryInit => SessionInv
<1> SUFFICES ASSUME QueryInit PROVE SessionInv
  OBVIOUS
<1>1. IsGraph(base) /\ root = base
  BY QueryAssumption DEF QueryInit
<1>2. Len(root.nodes) \in Nat /\ Len(root.edges) \in Nat
  BY <1>1, GraphLengths
<1>3. \A c \in Counter : Made(c) = 0
  BY NoWritesCounts DEF QueryInit, Made
<1>4. SummaryTellsTheChange
  <2>1. {"nodes_created", "nodes_deleted", "edges_created", "edges_deleted"} \subseteq Counter
    BY DEF Counter
  <2>2. QED BY <1>1, <1>2, <1>3, <2>1 DEF SummaryTellsTheChange
<1>5. SessionTypes
  BY <1>1, NoWritesCounts, NoRows DEF QueryInit, SessionTypes, Inside, Running
<1>6. QED BY <1>4, <1>5 DEF SessionInv, QueryInit

\* A step that touches neither graphs nor counts nor minter.
LEMMA QuietStep ==
  ASSUME SessionInv, UNCHANGED <<base, root, total, writes, commits, minted>>,
         stage # "done", stage' \notin {"done", "idle"}, Inside'
  PROVE  SessionInv'
<1>1. \A c \in Counter : Made(c)' = Made(c)
  BY DEF Made
<1>2. SummaryTellsTheChange'
  <2>1. {"nodes_created", "nodes_deleted", "edges_created", "edges_deleted"} \subseteq Counter
    BY DEF Counter
  <2>2. /\ Made("nodes_created")' = Made("nodes_created") /\ Made("nodes_deleted")' = Made("nodes_deleted")
        /\ Made("edges_created")' = Made("edges_created") /\ Made("edges_deleted")' = Made("edges_deleted")
    BY DEF Made
  <2>3. QED BY <1>1, <2>2 DEF SessionInv, SummaryTellsTheChange
<1>3. SessionTypes'
  BY DEF SessionInv, SessionTypes
<1>4. QED BY <1>2, <1>3 DEF SessionInv

LEMMA BeginKeeps ==
  ASSUME SessionInv, NEW q \in Queries, Begin(q)
  PROVE  SessionInv'
<1>1. stage \in {"idle", "done"} /\ UNCHANGED <<base, root, total, commits, minted>> /\ writes' = NoWrites /\ stage' = "part"
  BY DEF Begin, session
<1>2. \A c \in Counter : total[c] \in Nat /\ writes[c] \in Nat
  BY DEF SessionInv, SessionTypes
<1>3. \A c \in Counter : Made(c)' = Made(c)
  BY <1>1, <1>2, NoWritesCounts DEF SessionInv, Made
<1>4. SummaryTellsTheChange'
  <2>1. {"nodes_created", "nodes_deleted", "edges_created", "edges_deleted"} \subseteq Counter
    BY DEF Counter
  <2>2. /\ Made("nodes_created")' = Made("nodes_created") /\ Made("nodes_deleted")' = Made("nodes_deleted")
        /\ Made("edges_created")' = Made("edges_created") /\ Made("edges_deleted")' = Made("edges_deleted")
    BY <1>3, <2>1
  <2>3. QED BY <1>1, <1>3, <2>2 DEF SessionInv, SummaryTellsTheChange
<1>5. Inside'
  <2>1. IsQuery(q)
    BY QueryAssumption
  <2>2. 1 \in 1 .. Len(q.parts)
    BY <2>1 DEF IsQuery, IsSequence
  <2>3. QED BY <2>2, NoRows DEF Begin, Inside, Running
<1>6. SessionTypes'
  BY <1>1, <1>5, NoWritesCounts DEF SessionInv, SessionTypes
<1>7. QED BY <1>1, <1>4, <1>6 DEF SessionInv

LEMMA RefusalIsInside ==
  ASSUME Refusal
  PROVE  Inside' /\ stage' = "refused" /\ UNCHANGED <<base, commits, total>>
BY NoRows DEF Refusal, Inside, Running, session

LEMMA CancelKeeps ==
  ASSUME SessionInv, Cancel
  PROVE  SessionInv'
BY RefusalIsInside, QuietStep DEF Cancel

LEMMA AskToStopKeeps ==
  ASSUME SessionInv, AskToStop
  PROVE  SessionInv'
<1>1. UNCHANGED <<base, root, total, writes, commits, minted, query, stage, part, clause, rows>>
  BY DEF AskToStop, session, progress
<1>2. Inside'
  BY <1>1 DEF SessionInv, SessionTypes, Inside, Running, Part
<1>3. stage # "done" /\ stage' \notin {"done", "idle"}
  BY <1>1 DEF AskToStop, Running
<1>4. QED BY <1>1, <1>2, <1>3, QuietStep

LEMMA AfterIsInside ==
  ASSUME Inside, Running, UNCHANGED <<query, part>>, IsSequence(rows'),
         \/ stage \in {"clause", "row"} /\ clause' = clause + 1 /\ stage' = After(clause)
         \/ clause' = 1 /\ stage' = After(0)
  PROVE  Inside' /\ stage' \in {"clause", "result"}
<1>1. query \in Queries /\ part \in 1 .. Len(query.parts)
  BY DEF Inside
<1>2. Len(Part.clauses) \in Nat /\ Part' = Part
  BY <1>1, QueryHas DEF Part
<1>3. stage' \in {"clause", "result"}
  BY DEF After
<1>4. stage' = "clause" => clause' \in 1 .. Len(Part.clauses)
  <2>1. CASE stage \in {"clause", "row"} /\ clause' = clause + 1 /\ stage' = After(clause)
    <3>1. clause \in 1 .. Len(Part.clauses)
      BY <2>1 DEF Inside
    <3>2. QED BY <1>2, <2>1, <3>1 DEF After
  <2>2. CASE clause' = 1 /\ stage' = After(0)
    BY <1>2, <2>2 DEF After
  <2>3. QED BY <2>1, <2>2
<1>5. QED BY <1>1, <1>2, <1>3, <1>4 DEF Inside, Running

LEMMA StartPartKeeps ==
  ASSUME SessionInv, StartPart
  PROVE  SessionInv'
<1>1. /\ UNCHANGED <<base, root, total, writes, commits, minted, query, part>> /\ stage = "part"
      /\ clause' = 1 /\ stage' = After(0) /\ IsSequence(rows')
  BY NoRows DEF StartPart, session
<1>2. Inside /\ Running
  BY <1>1 DEF SessionInv, SessionTypes, Running
<1>3. Inside' /\ stage' \in {"clause", "result"}
  BY <1>1, <1>2, AfterIsInside
<1>4. QED BY <1>1, <1>3, QuietStep

LEMMA ReadKeeps ==
  ASSUME SessionInv, stage = "clause", NEW found, NEW columns, Read(found, columns)
  PROVE  SessionInv'
<1>1. CASE Refusal /\ UNCHANGED <<root, minted, writes>>
  BY <1>1, RefusalIsInside, QuietStep
<1>2. CASE /\ rows' = found[2] /\ Fit(rows') /\ clause' = clause + 1 /\ stage' = After(clause)
           /\ UNCHANGED <<session, query, part>> /\ UNCHANGED <<root, minted, writes>>
  <2>1. Inside /\ Running
    BY DEF SessionInv, SessionTypes, Running
  <2>2. IsSequence(rows')
    BY <1>2, QueryAssumption DEF Fit
  <2>3. Inside' /\ stage' \in {"clause", "result"}
    BY <1>2, <2>1, <2>2, AfterIsInside
  <2>4. QED BY <1>2, <2>3, QuietStep DEF session
<1>3. QED BY <1>1, <1>2 DEF Read

LEMMA StartMatchKeeps ==
  ASSUME SessionInv, StartMatch
  PROVE  SessionInv'
<1>1. /\ UNCHANGED <<base, root, total, writes, commits, minted, query, part, clause>>
      /\ stage = "clause" /\ stage' = "row" /\ rows' = << >>
  BY DEF StartMatch, session, At
<1>2. Inside'
  BY <1>1, NoRows DEF SessionInv, SessionTypes, Inside, Running, Part
<1>3. QED BY <1>1, <1>2, QuietStep

LEMMA MatchRowKeeps ==
  ASSUME SessionInv, MatchRow
  PROVE  SessionInv'
<1>1. PICK found : stage = "row" /\ Grow(found) /\ UNCHANGED <<root, minted, writes>>
  BY DEF MatchRow
<1>2. CASE Refusal
  BY <1>1, <1>2, RefusalIsInside, QuietStep
<1>3. CASE rows' = rows \o found[2] /\ Fit(rows') /\ UNCHANGED <<session, query, stage, part, clause>>
  <2>1. IsSequence(rows')
    BY <1>3, QueryAssumption DEF Fit
  <2>2. Inside'
    BY <1>1, <1>3, <2>1 DEF SessionInv, SessionTypes, Inside, Running, Part
  <2>3. QED BY <1>1, <1>3, <2>2, QuietStep DEF session
<1>4. QED BY <1>1, <1>2, <1>3 DEF Grow

LEMMA EndMatchKeeps ==
  ASSUME SessionInv, EndMatch
  PROVE  SessionInv'
<1>1. /\ UNCHANGED <<base, root, total, writes, commits, minted, query, part, rows>> /\ stage = "row"
      /\ clause' = clause + 1 /\ stage' = After(clause)
  BY DEF EndMatch, session
<1>2. Inside /\ Running /\ IsSequence(rows')
  BY <1>1 DEF SessionInv, SessionTypes, Running, Inside
<1>3. Inside' /\ stage' \in {"clause", "result"}
  BY <1>1, <1>2, AfterIsInside
<1>4. QED BY <1>1, <1>3, QuietStep

LEMMA StartIsWriter ==
  ASSUME SessionInv
  PROVE  IsWriter(Start) /\ Start.graph = root /\ Start.summary = writes /\ Start.minted = minted
BY DEF SessionInv, SessionTypes, IsWriter, Start, Writer, WriterField

\* A clause that goes from the start keeps the invariant.
LEMMA WriteKeeps ==
  ASSUME SessionInv, stage = "clause", NEW w, NEW shed, Goes(Start, w, shed), Write(w)
  PROVE  SessionInv'
<1>1. IsWriter(w) /\ Tells(Start, w)
  BY DEF Goes, Moves
<1>2. root' = w.graph /\ writes' = w.summary /\ minted' = w.minted
  BY DEF Write
<1>3. Inside' /\ stage' \notin {"idle", "done"} /\ UNCHANGED <<base, commits, total>>
  <2>1. CASE Refusal
    BY <2>1, RefusalIsInside
  <2>2. CASE /\ Fit(rows') /\ clause' = clause + 1 /\ stage' = After(clause)
             /\ UNCHANGED <<session, query, part>>
    <3>1. Inside /\ Running
      BY DEF SessionInv, SessionTypes, Running
    <3>2. IsSequence(rows')
      BY <2>2, QueryAssumption DEF Fit
    <3>3. Inside' /\ stage' \in {"clause", "result"}
      BY <2>2, <3>1, <3>2, AfterIsInside
    <3>4. QED BY <2>2, <3>3 DEF session
  <2>3. QED BY <2>1, <2>2 DEF Write
<1>4. SessionTypes'
  BY <1>1, <1>2, <1>3 DEF SessionInv, SessionTypes, IsWriter
<1>5. \A c \in Counter : total[c] \in Nat /\ writes[c] \in Nat /\ writes'[c] \in Nat
  BY <1>4 DEF SessionInv, SessionTypes
<1>6. /\ \A c \in Counter : writes[c] <= writes'[c]
      /\ (\A c \in Counter : writes'[c] = writes[c]) => root' = root
  BY <1>1, <1>2, StartIsWriter DEF Tells
<1>7. /\ Len(root'.nodes) - writes'["nodes_created"] + writes'["nodes_deleted"]
          = Len(root.nodes) - writes["nodes_created"] + writes["nodes_deleted"]
      /\ Len(root'.edges) - writes'["edges_created"] + writes'["edges_deleted"]
          = Len(root.edges) - writes["edges_created"] + writes["edges_deleted"]
  BY <1>1, <1>2, StartIsWriter DEF Tells, NodesBefore, EdgesBefore
<1>8. \A c \in Counter : Made(c) = total[c] + writes[c] /\ Made(c)' = total[c] + writes'[c]
  BY <1>3 DEF Made
<1>9. SummaryTellsTheChange'
  <2>1. {"nodes_created", "nodes_deleted", "edges_created", "edges_deleted"} \subseteq Counter
    BY DEF Counter
  <2>2. ASSUME \A c \in Counter : Made(c)' = 0 PROVE root' = base'
    <3>1. \A c \in Counter : total[c] = 0 /\ writes[c] = 0 /\ writes'[c] = 0
      BY <1>5, <1>6, <1>8, <2>2
    <3>2. root' = root
      BY <1>6, <3>1
    <3>3. QED BY <1>3, <1>8, <3>1, <3>2 DEF SessionInv, SummaryTellsTheChange
  <2>3. /\ Len(root.nodes) \in Nat /\ Len(root.edges) \in Nat /\ Len(base.nodes) \in Nat /\ Len(base.edges) \in Nat
        /\ Len(root'.nodes) \in Nat /\ Len(root'.edges) \in Nat
    BY <1>4, GraphLengths DEF SessionInv, SessionTypes
  <2>4. Len(root'.nodes) - Len(base.nodes) = Made("nodes_created")' - Made("nodes_deleted")'
    <3>1. Len(root.nodes) - Len(base.nodes) = (total["nodes_created"] + writes["nodes_created"])
                                              - (total["nodes_deleted"] + writes["nodes_deleted"])
      BY <1>8, <2>1 DEF SessionInv, SummaryTellsTheChange
    <3>2. /\ Made("nodes_created")' = total["nodes_created"] + writes'["nodes_created"]
          /\ Made("nodes_deleted")' = total["nodes_deleted"] + writes'["nodes_deleted"]
      BY <1>8, <2>1
    <3> DEFINE b == Len(base.nodes)
               r == Len(root.nodes)
               n == Len(root'.nodes)
               t1 == total["nodes_created"]
               t2 == total["nodes_deleted"]
               w1 == writes["nodes_created"]
               w2 == writes["nodes_deleted"]
               v1 == writes'["nodes_created"]
               v2 == writes'["nodes_deleted"]
    <3>3. n - b = (t1 + v1) - (t2 + v2)
      <4>1. /\ b \in Nat /\ r \in Nat /\ n \in Nat /\ t1 \in Nat /\ t2 \in Nat
            /\ w1 \in Nat /\ w2 \in Nat /\ v1 \in Nat /\ v2 \in Nat
        BY <1>5, <2>1, <2>3
      <4>2. n - v1 + v2 = r - w1 + w2 /\ r - b = (t1 + w1) - (t2 + w2)
        BY <1>7, <3>1
      <4> HIDE DEF b, r, n, t1, t2, w1, w2, v1, v2
      <4>3. QED BY <4>1, <4>2
    <3>4. QED BY <3>2, <3>3
  <2>5. Len(root'.edges) - Len(base.edges) = Made("edges_created")' - Made("edges_deleted")'
    <3>1. Len(root.edges) - Len(base.edges) = (total["edges_created"] + writes["edges_created"])
                                              - (total["edges_deleted"] + writes["edges_deleted"])
      BY <1>8, <2>1 DEF SessionInv, SummaryTellsTheChange
    <3>2. /\ Made("edges_created")' = total["edges_created"] + writes'["edges_created"]
          /\ Made("edges_deleted")' = total["edges_deleted"] + writes'["edges_deleted"]
      BY <1>8, <2>1
    <3> DEFINE b == Len(base.edges)
               r == Len(root.edges)
               n == Len(root'.edges)
               t1 == total["edges_created"]
               t2 == total["edges_deleted"]
               w1 == writes["edges_created"]
               w2 == writes["edges_deleted"]
               v1 == writes'["edges_created"]
               v2 == writes'["edges_deleted"]
    <3>3. n - b = (t1 + v1) - (t2 + v2)
      <4>1. /\ b \in Nat /\ r \in Nat /\ n \in Nat /\ t1 \in Nat /\ t2 \in Nat
            /\ w1 \in Nat /\ w2 \in Nat /\ v1 \in Nat /\ v2 \in Nat
        BY <1>5, <2>1, <2>3
      <4>2. n - v1 + v2 = r - w1 + w2 /\ r - b = (t1 + w1) - (t2 + w2)
        BY <1>7, <3>1
      <4> HIDE DEF b, r, n, t1, t2, w1, w2, v1, v2
      <4>3. QED BY <4>1, <4>2
    <3>4. QED BY <3>2, <3>3
  <2>6. (\A c \in Counter : Made(c)' = 0) => root' = base'
    BY <2>2
  <2>7. QED BY <1>3, <2>4, <2>5, <2>6 DEF SummaryTellsTheChange
<1>10. QED BY <1>3, <1>4, <1>9 DEF SessionInv

\* Where a clause is, it is one of the query's.
LEMMA ClauseIsWritable ==
  ASSUME SessionInv, stage = "clause"
  PROVE  IsWritable(Clause) /\ IsSequence(rows) /\ Len(rows) \in Nat
<1>1. query \in Queries /\ part \in 1 .. Len(query.parts) /\ clause \in 1 .. Len(Part.clauses) /\ IsSequence(rows)
  BY DEF SessionInv, SessionTypes, Inside, Running
<1>2. QED BY <1>1, QueryHas DEF Clause, IsSequence

\* What the writes of a clause lead to.
LEMMA CreateGoes ==
  ASSUME SessionInv, Create
  PROVE  \E w : Goes(Start, w, FALSE) /\ Write(w)
<1>1. stage = "clause" /\ Clause[1] = "create"
  BY DEF Create, At
<1>2. IsSequence(Clause[2]) /\ (\A j \in DOMAIN Clause[2] : IsSequence(Clause[2][j].steps)) /\ Len(rows) \in Nat
  BY <1>1, ClauseIsWritable DEF IsWritable
<1>3. IsWriter(Start)
  BY StartIsWriter
<1>4. Goes(Start, CreateClause(Start, Reader(root), Clause[2], rows), FALSE)
  BY <1>2, <1>3, CreateClauseGoes
<1>5. QED BY <1>4 DEF Create

LEMMA MergeGoes ==
  ASSUME SessionInv, Merge
  PROVE  \E w : Goes(Start, w, FALSE) /\ Write(w)
<1>1. stage = "clause" /\ Clause[1] = "merge"
  BY DEF Merge, At
<1>2. IsSequence(Clause[2].steps) /\ Len(rows) \in Nat
  BY <1>1, ClauseIsWritable DEF IsWritable
<1>3. IsWriter(Start)
  BY StartIsWriter
<1>4. Goes(Start, MergeClause(Start, Reader(root), Clause[2], rows), FALSE)
  BY <1>2, <1>3, MergeClauseGoes
<1>5. QED BY <1>4 DEF Merge

LEMMA SetGoes ==
  ASSUME SessionInv, Set
  PROVE  \E w : Goes(Start, w, FALSE) /\ Write(w)
<1>1. stage = "clause" /\ Clause[1] = "set"
  BY DEF Set, At
<1>2. IsSequence(Clause[2]) /\ Len(rows) \in Nat
  BY <1>1, ClauseIsWritable DEF IsWritable
<1>3. IsWriter(Start)
  BY StartIsWriter
<1>4. Goes(Start, SetClause(Start, Reader(root), Clause[2], rows), FALSE)
  BY <1>2, <1>3, SetClauseGoes
<1>5. QED BY <1>4 DEF Set

LEMMA RemoveItemsGoes ==
  ASSUME SessionInv, RemoveItems
  PROVE  \E w : Goes(Start, w, FALSE) /\ Write(w)
<1>1. stage = "clause" /\ Clause[1] = "remove"
  BY DEF RemoveItems, At
<1>2. IsSequence(Clause[2]) /\ Len(rows) \in Nat
  BY <1>1, ClauseIsWritable DEF IsWritable
<1>3. IsWriter(Start)
  BY StartIsWriter
<1>4. Goes(Start, RemoveClause(Start, Reader(root), Clause[2], rows), FALSE)
  BY <1>2, <1>3, RemoveClauseGoes
<1>5. QED BY <1>4 DEF RemoveItems

LEMMA DeleteGoes ==
  ASSUME SessionInv, Delete
  PROVE  \E w : Goes(Start, w, TRUE) /\ Write(w)
<1>1. stage = "clause" /\ Clause[1] = "delete"
  BY DEF Delete, At
<1>2. IsSequence(Clause[3]) /\ Len(rows) \in Nat
  BY <1>1, ClauseIsWritable DEF IsWritable
<1>3. IsWriter(Start)
  BY StartIsWriter
<1>4. Goes(Start, DeleteClause(Start, Reader(root), Clause[2], Clause[3], rows), TRUE)
  BY <1>2, <1>3, DeleteClauseGoes
<1>5. QED BY <1>4 DEF Delete

Writes == Create \/ Merge \/ Set \/ RemoveItems \/ Delete

LEMMA WritesGo ==
  ASSUME SessionInv, Writes
  PROVE  \E w : Write(w) /\ (Goes(Start, w, FALSE) \/ Goes(Start, w, TRUE))
BY CreateGoes, MergeGoes, SetGoes, RemoveItemsGoes, DeleteGoes DEF Writes

LEMMA WritesKeep ==
  ASSUME SessionInv, Writes
  PROVE  SessionInv'
<1>1. stage = "clause"
  BY DEF Writes, Create, Merge, Set, RemoveItems, Delete, At
<1>2. QED BY <1>1, WritesGo, WriteKeeps

LEMMA AnswerKeeps ==
  ASSUME SessionInv, Result
  PROVE  SessionInv'
<1>1. PICK found : stage = "result" /\ Answer(found) /\ UNCHANGED <<root, minted, writes>>
  BY DEF Result
<1>2. query \in Queries /\ part \in 1 .. Len(query.parts) /\ Len(query.parts) \in Nat
  BY <1>1, QueryHas DEF SessionInv, SessionTypes, Inside, Running
<1>3. CASE Refusal
  BY <1>1, <1>3, RefusalIsInside, QuietStep
<1>4. CASE /\ part < Len(query.parts) /\ part' = part + 1 /\ stage' = "part" /\ rows' = << >>
           /\ UNCHANGED <<session, query>>
  <2>1. Inside'
    BY <1>2, <1>4, NoRows DEF Inside, Running
  <2>2. QED BY <1>1, <1>4, <2>1, QuietStep DEF session
<1>5. CASE /\ total' = [c \in Counter |-> total[c] + writes[c]] /\ stage' = "done" /\ rows' = << >>
           /\ UNCHANGED <<base, commits>>
  <2>1. Inside'
    BY <1>5, NoRows DEF Inside, Running
  <2>2. \A c \in Counter : total[c] \in Nat /\ writes[c] \in Nat
    BY DEF SessionInv, SessionTypes
  <2>3. total' \in [Counter -> Nat]
    BY <1>5, <2>2
  <2>4. SessionTypes'
    BY <1>1, <1>5, <2>1, <2>3 DEF SessionInv, SessionTypes
  <2>5. \A c \in Counter : Made(c)' = Made(c)
    BY <1>1, <1>5, <2>2 DEF Made
  <2>6. {"nodes_created", "nodes_deleted", "edges_created", "edges_deleted"} \subseteq Counter
    BY DEF Counter
  <2>7. /\ Made("nodes_created")' = Made("nodes_created") /\ Made("nodes_deleted")' = Made("nodes_deleted")
        /\ Made("edges_created")' = Made("edges_created") /\ Made("edges_deleted")' = Made("edges_deleted")
    BY <2>5, <2>6
  <2>8. SummaryTellsTheChange'
    BY <1>1, <1>5, <2>5, <2>7 DEF SessionInv, SummaryTellsTheChange
  <2>9. QED BY <1>5, <2>4, <2>8 DEF SessionInv
<1>6. QED BY <1>1, <1>3, <1>4, <1>5 DEF Answer, accumulate

\* A transaction that begins has changed nothing.
LEMMA ResetKeeps ==
  ASSUME SessionInv, Reset, IsGraph(base'), root' = base', commits' \in Nat, minted' \in Nat
  PROVE  SessionInv'
<1>1. Inside'
  BY NoRows DEF Reset, Inside, Running
<1>2. SessionTypes'
  BY <1>1, NoWritesCounts DEF Reset, SessionTypes
<1>3. \A c \in Counter : Made(c)' = 0
  BY NoWritesCounts DEF Reset, Made
<1>4. SummaryTellsTheChange'
  <2>1. {"nodes_created", "nodes_deleted", "edges_created", "edges_deleted"} \subseteq Counter
    BY DEF Counter
  <2>2. Len(root'.nodes) \in Nat /\ Len(root'.edges) \in Nat
    BY GraphLengths
  <2>3. /\ Made("nodes_created")' = 0 /\ Made("nodes_deleted")' = 0
        /\ Made("edges_created")' = 0 /\ Made("edges_deleted")' = 0
    BY <1>3, <2>1
  <2>4. QED BY <1>3, <2>2, <2>3 DEF SummaryTellsTheChange
<1>5. QED BY <1>2, <1>4 DEF SessionInv, Reset

LEMMA CommitKeeps ==
  ASSUME SessionInv, Commit
  PROVE  SessionInv'
<1>1. Reset /\ UNCHANGED minted /\ root' = base' /\ base' \in {base, root} /\ commits' \in {commits, commits + 1}
  BY DEF Commit
<1>2. QED BY <1>1, ResetKeeps DEF SessionInv, SessionTypes

LEMMA RollbackKeeps ==
  ASSUME SessionInv, Rollback
  PROVE  SessionInv'
<1>1. Reset /\ root' = base' /\ base' = base /\ commits' = commits /\ minted' = 100 + 100 * commits
  BY DEF Rollback
<1>2. QED BY <1>1, ResetKeeps DEF SessionInv, SessionTypes

LEMMA SessionStep ==
  ASSUME SessionInv, QueryNext
  PROVE  SessionInv'
<1>1. ASSUME NEW q \in Queries, Begin(q) PROVE SessionInv'
  BY <1>1, BeginKeeps
<1>2. CASE AskToStop \/ Cancel \/ StartPart
  BY <1>2, AskToStopKeeps, CancelKeeps, StartPartKeeps
<1>3. CASE StartMatch \/ MatchRow \/ EndMatch
  BY <1>3, StartMatchKeeps, MatchRowKeeps, EndMatchKeeps
<1>4. CASE Unwind
  <2>1. stage = "clause" /\ \E found, columns : Read(found, columns)
    BY <1>4 DEF Unwind, At
  <2>2. QED BY <2>1, ReadKeeps
<1>5. CASE With
  <2>1. stage = "clause" /\ \E found, columns : Read(found, columns)
    BY <1>5 DEF With, At
  <2>2. QED BY <2>1, ReadKeeps
<1>6. CASE Call
  <2>1. stage = "clause" /\ \E found, columns : Read(found, columns)
    BY <1>6 DEF Call, At
  <2>2. QED BY <2>1, ReadKeeps
<1>7. CASE Writes
  BY <1>7, WritesKeep
<1>8. CASE Result
  BY <1>8, AnswerKeeps
<1>9. CASE Commit \/ Rollback
  BY <1>9, CommitKeeps, RollbackKeeps
<1>10. QED BY <1>1, <1>2, <1>3, <1>4, <1>5, <1>6, <1>7, <1>8, <1>9 DEF QueryNext, Writes

LEMMA SessionStutter ==
  ASSUME SessionInv, UNCHANGED queryVars
  PROVE  SessionInv'
BY DEF queryVars, session, progress, SessionInv, SessionTypes, Inside, Running, Part,
       SummaryTellsTheChange, Made

\* The graphs of a session stay whole, and what is counted stays a count.
THEOREM SessionStaysWhole == QuerySpec => []SessionInv
<1>1. SessionInv /\ [QueryNext]_queryVars => SessionInv'
  BY SessionStep, SessionStutter
<1>2. QED BY <1>1, SessionStarts, PTL DEF QuerySpec

\* The counts a caller is given, and a commit decides by, tell what the queries of
\* the transaction did to the graph, whatever was refused or stopped on the way.
THEOREM SummaryAlwaysTells == QuerySpec => []SummaryTellsTheChange
<1>1. SessionInv => SummaryTellsTheChange
  BY DEF SessionInv
<1>2. QED BY <1>1, SessionStaysWhole, PTL

LEMMA NothingMade ==
  ASSUME SessionInv, stage = "done", total = NoWrites
  PROVE  root = base
BY NoWritesCounts DEF SessionInv, SummaryTellsTheChange, Made

\* A commit that counts nothing drops nothing: the graph it leaves in the database
\* is the one the transaction has.
THEOREM CommitAlwaysTakesTheGraph == QuerySpec => CommitTakesTheGraph
<1>1. SessionInv /\ [QueryNext]_queryVars => [Commit => base' = root]_queryVars
  <2> SUFFICES ASSUME SessionInv, Commit PROVE base' = root
    OBVIOUS
  <2>1. CASE total = NoWrites
    BY <2>1, NothingMade DEF Commit
  <2>2. CASE total # NoWrites
    BY <2>2 DEF Commit
  <2>3. QED BY <2>1, <2>2
<1>2. QED BY <1>1, SessionStaysWhole, PTL DEF QuerySpec, CommitTakesTheGraph

\* The transaction's graph and the one it began with are whole at every step: no two
\* of their nodes, and no two of their edges, have one identifier.
THEOREM GraphsStayWhole == QuerySpec => [](IsGraph(root) /\ IsGraph(base))
<1>1. SessionInv => IsGraph(root) /\ IsGraph(base)
  BY DEF SessionInv, SessionTypes
<1>2. QED BY <1>1, SessionStaysWhole, PTL

-----------------------------------------------------------------------------
(* The claims of others                                                     *)

\* Identifiers tell where in a sequence that has grown a record was.
LEMMA GrownKeeps ==
  ASSUME NEW after, NEW before, Grown(after, before), AllDistinct(after),
         NEW i \in DOMAIN after, \A j \in DOMAIN before : after[i] # before[j]
  PROVE  /\ ClaimedByUser(after[i])
         /\ \A j \in DOMAIN before :
              before[j].id = after[i].id => ClaimsOfOthers(before[j]) = ClaimsOfOthers(after[i])
<1>1. ClaimedByUser(after[i])
  <2>1. CASE i \in DOMAIN before
    BY <2>1 DEF Grown, Holds
  <2>2. CASE i \notin DOMAIN before
    BY <2>2 DEF Grown
  <2>3. QED BY <2>1, <2>2
<1>2. ASSUME NEW j \in DOMAIN before, before[j].id = after[i].id
      PROVE  ClaimsOfOthers(before[j]) = ClaimsOfOthers(after[i])
  <2>1. j \in DOMAIN after /\ Holds(after[j], before[j])
    BY DEF Grown
  <2>2. i = j
    BY <1>2, <2>1 DEF Holds, AllDistinct
  <2>3. QED BY <2>1, <2>2 DEF Holds
<1>3. QED BY <1>1, <1>2

LEMMA GrowsKeepsClaims ==
  ASSUME NEW w, NEW v, Grows(w, v), IsGraph(v.graph)
  PROVE  KeepsClaims(v.graph, w.graph)
<1> DEFINE after == v.graph
           before == w.graph
<1>1. /\ Grown(after.nodes, before.nodes) /\ AllDistinct(after.nodes)
      /\ Grown(after.edges, before.edges) /\ AllDistinct(after.edges)
  BY DEF Grows, IsGraph
<1> HIDE DEF after, before
<1> SUFFICES ASSUME NEW now \in Records(after) \ Records(before)
             PROVE  /\ ClaimedByUser(now[2])
                    /\ \A old \in Records(before) :
                         old[1] = now[1] /\ old[2].id = now[2].id =>
                           ClaimsOfOthers(old[2]) = ClaimsOfOthers(now[2])
  BY DEF KeepsClaims, after, before
<1>2. CASE \E i \in DOMAIN after.nodes : now = <<"node", after.nodes[i]>>
  <2>1. PICK i \in DOMAIN after.nodes : now = <<"node", after.nodes[i]>>
    BY <1>2
  <2>2. \A j \in DOMAIN before.nodes : after.nodes[i] # before.nodes[j]
    BY <2>1 DEF Records
  <2>3. /\ ClaimedByUser(after.nodes[i])
        /\ \A j \in DOMAIN before.nodes :
             before.nodes[j].id = after.nodes[i].id =>
               ClaimsOfOthers(before.nodes[j]) = ClaimsOfOthers(after.nodes[i])
    BY <1>1, <2>2, GrownKeeps
  <2>4. ASSUME NEW old \in Records(before), old[1] = "node"
        PROVE  \E j \in DOMAIN before.nodes : old[2] = before.nodes[j]
    BY <2>4 DEF Records
  <2>5. QED BY <2>1, <2>3, <2>4
<1>3. CASE \E i \in DOMAIN after.edges : now = <<"edge", after.edges[i]>>
  <2>1. PICK i \in DOMAIN after.edges : now = <<"edge", after.edges[i]>>
    BY <1>3
  <2>2. \A j \in DOMAIN before.edges : after.edges[i] # before.edges[j]
    BY <2>1 DEF Records
  <2>3. /\ ClaimedByUser(after.edges[i])
        /\ \A j \in DOMAIN before.edges :
             before.edges[j].id = after.edges[i].id =>
               ClaimsOfOthers(before.edges[j]) = ClaimsOfOthers(after.edges[i])
    BY <1>1, <2>2, GrownKeeps
  <2>4. ASSUME NEW old \in Records(before), old[1] = "edge"
        PROVE  \E j \in DOMAIN before.edges : old[2] = before.edges[j]
    BY <2>4 DEF Records
  <2>5. QED BY <2>1, <2>3, <2>4
<1>4. QED BY <1>2, <1>3 DEF Records

LEMMA WritesKeepClaims ==
  ASSUME SessionInv, Writes
  PROVE  KeepsClaims(root', root)
<1>1. PICK w : Write(w) /\ (Goes(Start, w, FALSE) \/ Goes(Start, w, TRUE))
  BY WritesGo
<1>2. root' = w.graph /\ Start.graph = root /\ IsGraph(w.graph)
  BY <1>1, StartIsWriter DEF Write, Goes, Moves, IsWriter
<1>3. CASE Goes(Start, w, FALSE)
  BY <1>2, <1>3, GrowsKeepsClaims DEF Goes
<1>4. CASE Goes(Start, w, TRUE)
  BY <1>2, <1>4 DEF Goes, Sheds, KeepsClaims
<1>5. QED BY <1>1, <1>3, <1>4

LEMMA OthersLeaveTheRoot ==
  ASSUME SessionInv, QueryNext, ~ Writes, ~ Rollback
  PROVE  root' = root
<1>1. ASSUME NEW q \in Queries, Begin(q) PROVE root' = root
  BY <1>1 DEF Begin
<1>2. CASE AskToStop \/ Cancel \/ StartPart
  BY <1>2 DEF AskToStop, Cancel, StartPart
<1>3. CASE StartMatch \/ MatchRow \/ EndMatch
  BY <1>3 DEF StartMatch, MatchRow, EndMatch
<1>4. CASE Unwind \/ With \/ Call
  BY <1>4 DEF Unwind, With, Call, Read
<1>5. CASE Result
  BY <1>5 DEF Result
<1>6. CASE Commit
  BY <1>6, NothingMade DEF Commit
<1>7. QED BY <1>1, <1>2, <1>3, <1>4, <1>5, <1>6 DEF QueryNext, Writes

\* A query takes no claim of an analyzer or an agent, and gives none: what it
\* changed or made is the user's as well.
THEOREM OthersAlwaysKeepTheirClaims == QuerySpec => OthersKeepTheirClaims
<1> DEFINE Spared == Rollback \/ KeepsClaims(root', root)
<1>1. SessionInv /\ [QueryNext]_queryVars => [Spared]_queryVars
  <2>1. KeepsClaims(root, root)
    BY DEF KeepsClaims
  <2> SUFFICES ASSUME SessionInv, QueryNext, ~ Rollback PROVE KeepsClaims(root', root)
    OBVIOUS
  <2>2. CASE Writes
    BY <2>2, WritesKeepClaims
  <2>3. CASE ~ Writes
    BY <2>1, <2>3, OthersLeaveTheRoot
  <2>4. QED BY <2>2, <2>3
<1>2. QuerySpec => [][Spared]_queryVars
  BY <1>1, SessionStaysWhole, PTL DEF QuerySpec
<1>3. QED BY <1>2, PTL DEF OthersKeepTheirClaims

-----------------------------------------------------------------------------
(* Deletions and their edges                                                *)

\* What a step leaves of the edges at the nodes it took away.
LeavesNoLooseEnd == (Ids(root) \ Ids(root')) \intersect Ends(root') = {}

LEMMA DeleteLeavesNoLooseEnd ==
  ASSUME SessionInv, Delete
  PROVE  LeavesNoLooseEnd
<1>1. PICK w : Goes(Start, w, TRUE) /\ Write(w)
  BY DeleteGoes
<1>2. root' = w.graph /\ Start.graph = root /\ Sheds(Start, w)
  BY <1>1, StartIsWriter DEF Write, Goes
<1>3. QED BY <1>2 DEF Sheds, LeavesNoLooseEnd

\* Of the steps at a DELETE, the others leave the graph as it is.
LEMMA OthersLeaveTheGraph ==
  ASSUME QueryNext, stage = "clause", Clause[1] = "delete", ~ Delete
  PROVE  root' = root
<1>1. ASSUME NEW q \in Queries, Begin(q) PROVE root' = root
  BY <1>1 DEF Begin
<1>2. CASE AskToStop \/ Cancel \/ StartPart
  BY <1>2 DEF AskToStop, Cancel, StartPart
<1>3. CASE StartMatch \/ MatchRow \/ EndMatch
  BY <1>3 DEF StartMatch, MatchRow, EndMatch
<1>4. CASE Unwind \/ With \/ Call \/ Create \/ Merge \/ Set \/ RemoveItems
  BY <1>4 DEF At, Unwind, With, Call, Create, Merge, Set, RemoveItems
<1>5. CASE Result \/ Commit \/ Rollback
  BY <1>5 DEF Result, Commit, Rollback
<1>6. QED BY <1>1, <1>2, <1>3, <1>4, <1>5 DEF QueryNext

\* A DELETE leaves no edge at a node it deleted, whatever the direction of the edge
\* and whatever the order of the targets.
THEOREM DeletedNodesAlwaysTakeTheirEdges == QuerySpec => DeletedNodesTakeTheirEdges
<1> DEFINE Taken == stage = "clause" /\ Clause[1] = "delete" => LeavesNoLooseEnd
<1>1. SessionInv /\ [QueryNext]_queryVars => [Taken]_queryVars
  <2> SUFFICES ASSUME SessionInv, QueryNext, stage = "clause", Clause[1] = "delete"
               PROVE  LeavesNoLooseEnd
    OBVIOUS
  <2>1. CASE Delete
    BY <2>1, DeleteLeavesNoLooseEnd
  <2>2. CASE ~ Delete
    BY <2>2, OthersLeaveTheGraph DEF LeavesNoLooseEnd
  <2>3. QED BY <2>1, <2>2
<1>2. QuerySpec => [][Taken]_queryVars
  BY <1>1, SessionStaysWhole, PTL DEF QuerySpec
<1>3. QED BY <1>2, PTL DEF DeletedNodesTakeTheirEdges, LeavesNoLooseEnd

-----------------------------------------------------------------------------
(* What a SET leaves                                                        *)

\* What a change makes of the properties of a record: those of the keys are as
\* stored, and the others as they were.
Sets(change, old, keys, stored) ==
  ~ IsRefused(change) =>
    /\ Revises(change[2].record, old)
    /\ \A k : PropertyOf(change[2].record, k) = IF k \in keys THEN stored ELSE PropertyOf(old, k)
    /\ change[2].counter = << >> => change[2].record = old

LEMMA WithoutSets ==
  ASSUME NEW r, DOMAIN r \in {NodeField, EdgeField}, NEW key
  PROVE  Sets(WithoutProperty(r, key), r, {key}, << >>)
<1>1. CASE key \notin DOMAIN r.properties
  <2>1. WithoutProperty(r, key) = Unaltered(r)
    BY <1>1 DEF WithoutProperty
  <2>2. QED BY <1>1, <2>1 DEF Sets, IsRefused, Yes, Unaltered, Revises, PropertyOf
<1>2. CASE key \in DOMAIN r.properties
  <2> DEFINE left == [k \in DOMAIN r.properties \ {key} |-> r.properties[k]]
             record == [r EXCEPT !.properties = left]
  <2>1. WithoutProperty(r, key) = Yes([record |-> record, counter |-> <<"properties_removed">>])
    BY <1>2 DEF WithoutProperty
  <2>2. Revises(record, r) /\ record.properties = left
    BY DEF Revises, NodeField, EdgeField
  <2> HIDE DEF record
  <2>3. \A k : PropertyOf(record, k) = IF k \in {key} THEN << >> ELSE PropertyOf(r, k)
    BY <2>2 DEF PropertyOf
  <2>4. QED BY <2>1, <2>2, <2>3 DEF Sets, Yes
<1>3. QED BY <1>1, <1>2

LEMMA WithSets ==
  ASSUME NEW r, DOMAIN r \in {NodeField, EdgeField}, NEW key, NEW value
  PROVE  Sets(WithProperty(r, key, value), r, {key}, <<value>>)
<1> DEFINE more == [k \in {key} \union DOMAIN r.properties |-> IF k = key THEN value ELSE r.properties[k]]
           record == [r EXCEPT !.properties = more]
<1>1. WithProperty(r, key, value) = Yes([record |-> record, counter |-> <<"properties_set">>])
  BY DEF WithProperty
<1>2. Revises(record, r) /\ record.properties = more
  BY DEF Revises, NodeField, EdgeField
<1>3. /\ DOMAIN more = {key} \union DOMAIN r.properties /\ more[key] = value
      /\ \A k \in DOMAIN r.properties : k # key => more[k] = r.properties[k]
  OBVIOUS
<1> HIDE DEF record, more
<1>4. \A k : PropertyOf(record, k) = IF k \in {key} THEN <<value>> ELSE PropertyOf(r, k)
  BY <1>2, <1>3 DEF PropertyOf
<1>5. QED BY <1>1, <1>2, <1>4 DEF Sets, Yes

LEMMA LabelSets ==
  ASSUME NEW r, DOMAIN r \in {NodeField, EdgeField}, NEW label, NEW stored
  PROVE  Sets(WithLabel(r, label), r, {}, stored)
<1>1. CASE IsRefused(WithLabel(r, label))
  BY <1>1 DEF Sets
<1>2. CASE WithLabel(r, label) = Unaltered(r)
  BY <1>2 DEF Sets, Yes, Unaltered, Revises
<1>3. CASE WithLabel(r, label) = Yes([record |-> [r EXCEPT !.labels = Append(@, label)], counter |-> <<"labels_added">>])
  <2> DEFINE record == [r EXCEPT !.labels = Append(@, label)]
  <2>1. Revises(record, r) /\ record.properties = r.properties
        /\ WithLabel(r, label) = Yes([record |-> record, counter |-> <<"labels_added">>])
    BY <1>3 DEF Revises, NodeField, EdgeField
  <2> HIDE DEF record
  <2>2. \A k : PropertyOf(record, k) = PropertyOf(r, k)
    BY <2>1 DEF PropertyOf
  <2>3. QED BY <2>1, <2>2 DEF Sets, Yes
<1>4. QED BY <1>1, <1>2, <1>3 DEF WithLabel, IsRefused, Refuse

\* Of the records, those of one identifier have other properties than before.
Alters(after, before, mine, id, keys, stored) ==
  /\ Len(after) = Len(before) /\ DOMAIN after = DOMAIN before
  /\ \A i \in DOMAIN before :
       /\ after[i].id = before[i].id
       /\ \A k : PropertyOf(after[i], k) =
                   IF mine /\ before[i].id = id /\ k \in keys THEN stored ELSE PropertyOf(before[i], k)

LEMMA AltersOne ==
  ASSUME NEW records, NEW field, AreRecords(records, field), NEW place \in DOMAIN records, NEW record,
         NEW keys, NEW stored, record.id = records[place].id,
         \A k : PropertyOf(record, k) = IF k \in keys THEN stored ELSE PropertyOf(records[place], k)
  PROVE  Alters([records EXCEPT ![place] = record], records, TRUE, records[place].id, keys, stored)
<1> DEFINE after == [records EXCEPT ![place] = record]
<1>1. DOMAIN records = 1 .. Len(records) /\ Len(records) \in Nat
  BY IsSeq DEF AreRecords
<1>2. /\ DOMAIN after = DOMAIN records /\ after[place] = record
      /\ \A i \in DOMAIN records : i # place => after[i] = records[i]
  OBVIOUS
<1>3. Len(after) = Len(records)
  BY <1>1
<1>4. \A i \in DOMAIN records : records[i].id = records[place].id => i = place
  BY DEF AreRecords, AllDistinct
<1> HIDE DEF after
<1>5. \A i \in DOMAIN records : after[i].id = records[i].id
  BY <1>2
<1>6. ASSUME NEW i \in DOMAIN records, NEW k
      PROVE  PropertyOf(after[i], k) =
               IF TRUE /\ records[i].id = records[place].id /\ k \in keys THEN stored ELSE PropertyOf(records[i], k)
  BY <1>2, <1>4
<1>7. QED BY <1>2, <1>3, <1>5, <1>6 DEF Alters, after

LEMMA AltersNothing ==
  ASSUME NEW records, NEW mine, NEW id, NEW keys, NEW stored,
         \A i \in DOMAIN records : \A k \in keys :
           mine /\ records[i].id = id => PropertyOf(records[i], k) = stored
  PROVE  Alters(records, records, mine, id, keys, stored)
BY DEF Alters

\* What a write does to the properties of the record it is about.
Passes(w, u, bound, id, keys, stored) ==
  /\ u.row = w.row
  /\ Alters(u.graph.nodes, w.graph.nodes, bound[1] = "node", id, keys, stored)
  /\ Alters(u.graph.edges, w.graph.edges, bound[1] = "relationship", id, keys, stored)

LEMMA RefusingIsRefused ==
  ASSUME NEW w, IsWriter(w), NEW code
  PROVE  Refusing(w, code).refused # << >>
BY DEF Refusing, IsWriter, WriterField

\* Only one record has an identifier.
LEMMA FoundIsTheOne ==
  ASSUME NEW w, IsWriter(w), NEW bound, NEW id, Place(w.graph[Field(bound)], id) # {},
         NEW i \in DOMAIN w.graph[Field(bound)], w.graph[Field(bound)][i].id = id
  PROVE  i = Min(Place(w.graph[Field(bound)], id)) /\ w.graph[Field(bound)][i] = Found(w, bound, id)
<1>1. Field(bound) \in {"nodes", "edges"} /\ Min(Place(w.graph[Field(bound)], id)) \in Place(w.graph[Field(bound)], id)
  BY FoundIsThere
<1>2. AllDistinct(w.graph[Field(bound)])
  BY <1>1 DEF IsWriter, IsGraph
<1>3. i = Min(Place(w.graph[Field(bound)], id))
  BY <1>1, <1>2 DEF AllDistinct, Place
<1>4. QED BY <1>3 DEF Found

LEMMA ModifiedPasses ==
  ASSUME NEW w, IsWriter(w), w.refused = << >>, NEW bound, bound[1] \in {"node", "relationship"}, NEW id,
         NEW change, NEW keys, NEW stored,
         Place(w.graph[Field(bound)], id) # {} => Sets(change, Found(w, bound, id), keys, stored),
         ModifiedBy(w, bound, id, change).refused = << >>
  PROVE  Passes(w, ModifiedBy(w, bound, id, change), bound, id, keys, stored)
<1> DEFINE u == ModifiedBy(w, bound, id, change)
           field == Field(bound)
           place == Min(Place(w.graph[field], id))
           old == Found(w, bound, id)
<1>1. /\ Place(w.graph[field], id) # {} /\ ~ IsRefused(change)
  BY RefusingIsRefused DEF ModifiedBy
<1>2. /\ field \in {"nodes", "edges"} /\ place \in DOMAIN w.graph[field] /\ w.graph[field][place].id = id
      /\ DOMAIN old \in {NodeField, EdgeField} /\ w.graph[field][place] = old
      /\ (field = "nodes" <=> bound[1] = "node") /\ (field = "edges" <=> bound[1] = "relationship")
  <2>1. (field = "nodes" <=> bound[1] = "node") /\ (field = "edges" <=> bound[1] = "relationship")
    BY DEF Field
  <2>2. /\ field \in {"nodes", "edges"} /\ place \in DOMAIN w.graph[field]
        /\ place \in Place(w.graph[field], id) /\ DOMAIN old \in {NodeField, EdgeField}
    BY <1>1, FoundIsThere
  <2>3. w.graph[field][place].id = id
    BY <2>2 DEF Place
  <2>4. QED BY <2>1, <2>2, <2>3 DEF Found
<1>3. Sets(change, old, keys, stored)
  BY <1>1
<1>4. CASE change[2].counter = << >>
  <2>1. u = w
    BY <1>1, <1>4 DEF ModifiedBy
  <2>2. \A k \in keys : PropertyOf(old, k) = stored
    BY <1>1, <1>3, <1>4 DEF Sets
  <2>3. \A i \in DOMAIN w.graph[field] : w.graph[field][i].id = id => w.graph[field][i] = old
    BY <1>1, FoundIsTheOne
  <2> HIDE DEF u, field, old, place
  <2>4. Alters(w.graph.nodes, w.graph.nodes, bound[1] = "node", id, keys, stored)
    <3>1. \A i \in DOMAIN w.graph.nodes : \A k \in keys :
            bound[1] = "node" /\ w.graph.nodes[i].id = id => PropertyOf(w.graph.nodes[i], k) = stored
      BY <1>2, <2>2, <2>3
    <3>2. QED BY <3>1, AltersNothing
  <2>5. Alters(w.graph.edges, w.graph.edges, bound[1] = "relationship", id, keys, stored)
    <3>1. \A i \in DOMAIN w.graph.edges : \A k \in keys :
            bound[1] = "relationship" /\ w.graph.edges[i].id = id => PropertyOf(w.graph.edges[i], k) = stored
      BY <1>2, <2>2, <2>3
    <3>2. QED BY <3>1, AltersNothing
  <2>6. QED BY <2>1, <2>4, <2>5 DEF Passes, u
<1>5. CASE change[2].counter # << >>
  <2> DEFINE record == [change[2].record EXCEPT !.contributions = note_user_ownership(@)]
             after == [w.graph[field] EXCEPT ![place] = record]
  <2>1. u = Counted(Replaced(w, field, place, record), change[2].counter[1], 1)
    BY <1>1, <1>5 DEF ModifiedBy
  <2>2. Revises(change[2].record, old)
        /\ \A k : PropertyOf(change[2].record, k) = IF k \in keys THEN stored ELSE PropertyOf(old, k)
    BY <1>1, <1>3 DEF Sets
  <2>3. record.id = old.id /\ record.properties = change[2].record.properties
    BY <1>2, <2>2 DEF Revises, NodeField, EdgeField
  <2> HIDE DEF record
  <2>4. \A k : PropertyOf(record, k) = IF k \in keys THEN stored ELSE PropertyOf(old, k)
    BY <2>2, <2>3 DEF PropertyOf
  <2>5. AreRecords(w.graph.nodes, NodeField) /\ AreRecords(w.graph.edges, EdgeField)
    BY GraphParts DEF IsWriter
  <2>6. \E fields : AreRecords(w.graph[field], fields)
    BY <1>2, <2>5
  <2> HIDE DEF field, old, place
  <2>7. Alters(after, w.graph[field], TRUE, id, keys, stored)
    BY <1>2, <2>3, <2>4, <2>6, AltersOne
  <2>8. DOMAIN w = WriterField /\ w.graph = [nodes |-> w.graph.nodes, edges |-> w.graph.edges, links |-> w.graph.links]
    BY GraphParts DEF IsWriter
  <2>9. /\ u.row = w.row
        /\ u.graph.nodes = IF field = "nodes" THEN after ELSE w.graph.nodes
        /\ u.graph.edges = IF field = "edges" THEN after ELSE w.graph.edges
    BY <1>2, <2>1, <2>8 DEF Counted, Replaced, WriterField
  <2> HIDE DEF u, after
  <2>10. CASE field = "nodes"
    <3>1. Alters(w.graph.edges, w.graph.edges, bound[1] = "relationship", id, keys, stored)
      BY <1>2, <2>10, AltersNothing
    <3>2. Alters(u.graph.nodes, w.graph.nodes, bound[1] = "node", id, keys, stored)
      BY <1>2, <2>7, <2>9, <2>10
    <3>3. QED BY <2>9, <2>10, <3>1, <3>2 DEF Passes, u
  <2>11. CASE field = "edges"
    <3>1. Alters(w.graph.nodes, w.graph.nodes, bound[1] = "node", id, keys, stored)
      BY <1>2, <2>11, AltersNothing
    <3>2. Alters(u.graph.edges, w.graph.edges, bound[1] = "relationship", id, keys, stored)
      BY <1>2, <2>7, <2>9, <2>11
    <3>3. QED BY <2>9, <2>11, <3>1, <3>2 DEF Passes, u
  <2>12. QED BY <1>2, <2>10, <2>11
<1>6. QED BY <1>4, <1>5

\* Whether an item is about a property of the record.
IsAbout(item, bound, kind, id, key) ==
  /\ item[1] = "property" /\ item[3] = key
  /\ bound[1] = kind /\ bound[2][1] = 0 /\ bound[2][2] = id

\* The records as they were but for the property that an item is about.
FollowsItem(after, before, item, bound, kind, stored) ==
  /\ Len(after) = Len(before) /\ DOMAIN after = DOMAIN before
  /\ \A i \in DOMAIN before :
       /\ after[i].id = before[i].id
       /\ \A k : PropertyOf(after[i], k) =
                   IF IsAbout(item, bound, kind, before[i].id, k) THEN stored ELSE PropertyOf(before[i], k)

\* What an item leaves.
ItemLeaves(w, u, item, bound, stored) ==
  /\ u.row = w.row
  /\ FollowsItem(u.graph.nodes, w.graph.nodes, item, bound, "node", stored)
  /\ FollowsItem(u.graph.edges, w.graph.edges, item, bound, "relationship", stored)

\* The properties an item sets.
KeysOf(item) == IF item[1] = "property" THEN {item[3]} ELSE {}

LEMMA PassesLeave ==
  ASSUME NEW w, NEW u, NEW item, NEW bound, bound[2][1] = 0, NEW stored,
         Passes(w, u, bound, bound[2][2], KeysOf(item), stored)
  PROVE  ItemLeaves(w, u, item, bound, stored)
<1>1. ASSUME NEW after, NEW before, NEW kind,
             Alters(after, before, bound[1] = kind, bound[2][2], KeysOf(item), stored)
      PROVE  FollowsItem(after, before, item, bound, kind, stored)
  BY <1>1 DEF Alters, FollowsItem, IsAbout, KeysOf
<1>2. QED BY <1>1 DEF Passes, ItemLeaves

LEMMA ModifiedAsLeaves ==
  ASSUME NEW w, IsWriter(w), w.refused = << >>, NEW item, NEW bound, NEW change, NEW stored,
         DOMAIN Found(w, bound, writable(bound[2])[2]) \in {NodeField, EdgeField} =>
           Sets(change, Found(w, bound, writable(bound[2])[2]), KeysOf(item), stored),
         ModifiedAs(w, bound, change).refused = << >>
  PROVE  ItemLeaves(w, ModifiedAs(w, bound, change), item, bound, stored)
<1>1. bound[1] \in {"node", "relationship"} /\ ~ IsRefused(writable(bound[2]))
  BY RefusingIsRefused DEF ModifiedAs
<1>2. bound[2][1] = 0 /\ writable(bound[2])[2] = bound[2][2]
  BY <1>1 DEF writable, IsRefused, Refuse, Yes
<1>3. ModifiedAs(w, bound, change) = ModifiedBy(w, bound, bound[2][2], change)
  BY <1>1, <1>2 DEF ModifiedAs
<1>4. Place(w.graph[Field(bound)], bound[2][2]) # {} => DOMAIN Found(w, bound, bound[2][2]) \in {NodeField, EdgeField}
  BY FoundIsThere
<1>5. Passes(w, ModifiedBy(w, bound, bound[2][2], change), bound, bound[2][2], KeysOf(item), stored)
  BY <1>1, <1>2, <1>3, <1>4, ModifiedPasses
<1>6. QED BY <1>2, <1>3, <1>5, PassesLeave

LEMMA SetLeaves ==
  ASSUME NEW w, IsWriter(w), w.refused = << >>, NEW item, item[1] \in {"label", "property"},
         NEW bound, NEW value, set(w, item, bound, value).refused = << >>
  PROVE  ItemLeaves(w, set(w, item, bound, value), item, bound, stored_value(value)[2])
<1> DEFINE old == Found(w, bound, writable(bound[2])[2])
           stored == stored_value(value)[2]
<1>1. CASE bound = Null
  <2>1. set(w, item, bound, value) = w
    BY <1>1, SetAs
  <2>2. bound[1] = "null"
    BY <1>1 DEF Null
  <2>3. QED BY <2>1, <2>2 DEF ItemLeaves, FollowsItem, IsAbout
<1>2. CASE bound # Null /\ item[1] = "label"
  <2>1. set(w, item, bound, value) = ModifiedAs(w, bound, WithLabel(old, item[3]))
    BY <1>2, SetAs
  <2>2. KeysOf(item) = {}
    BY <1>2 DEF KeysOf
  <2>3. DOMAIN old \in {NodeField, EdgeField} => Sets(WithLabel(old, item[3]), old, KeysOf(item), stored)
    BY <2>2, LabelSets
  <2>4. QED BY <2>1, <2>3, ModifiedAsLeaves
<1>3. CASE bound # Null /\ item[1] = "property"
  <2>1. KeysOf(item) = {item[3]}
    BY <1>3 DEF KeysOf
  <2>2. ~ IsRefused(stored_value(value))
    BY <1>3, SetAs, RefusingIsRefused
  <2>3. CASE stored = << >>
    <3>1. set(w, item, bound, value) = ModifiedAs(w, bound, WithoutProperty(old, item[3]))
      BY <1>3, <2>2, <2>3, SetAs
    <3>2. DOMAIN old \in {NodeField, EdgeField} => Sets(WithoutProperty(old, item[3]), old, KeysOf(item), stored)
      BY <2>1, <2>3, WithoutSets
    <3>3. QED BY <3>1, <3>2, ModifiedAsLeaves
  <2>4. CASE stored # << >>
    <3>1. set(w, item, bound, value) = ModifiedAs(w, bound, WithProperty(old, item[3], stored[1]))
      BY <1>3, <2>2, <2>4, SetAs
    <3>2. stored = <<stored[1]>>
      BY <2>2, <2>4 DEF stored_value, IsRefused, Yes, Refuse
    <3>3. DOMAIN old \in {NodeField, EdgeField} => Sets(WithProperty(old, item[3], stored[1]), old, KeysOf(item), stored)
      <4> HIDE DEF old, stored
      <4>1. QED BY <2>1, <3>2, WithSets
    <3>4. QED BY <3>1, <3>3, ModifiedAsLeaves
  <2>5. QED BY <2>3, <2>4
<1>4. QED BY <1>1, <1>2, <1>3

\* The value an assignment stores.
Stores(p) == stored_value(Evaluate(Reader(root), Clause[2][p[2]][4], rows[p[1]])[2])[2]

\* The assignments of the rows before one, and of its first items.
Until(places, i, j) == {p \in places : p[1] < i \/ (p[1] = i /\ p[2] <= j)}

AssignedUntil(kind, record, key, i, j) ==
  IF Until(Assignments(kind, record.id, key), i, j) = {} THEN PropertyOf(record, key)
  ELSE Stores(LastOf(Until(Assignments(kind, record.id, key), i, j)))

\* The records as the assignments so far leave them.
SoFar(records, before, kind, i, j) ==
  /\ Len(records) = Len(before) /\ DOMAIN records = DOMAIN before
  /\ \A k \in DOMAIN before :
       /\ records[k].id = before[k].id
       /\ \A key : PropertyOf(records[k], key) = AssignedUntil(kind, before[k], key, i, j)

LEMMA LastIsLatest ==
  ASSUME NEW all \in SUBSET (Nat \X Nat), NEW i \in Nat, NEW j \in Nat, <<i, j>> \in all
  PROVE  LastOf(Until(all, i, j)) = <<i, j>>
<1> DEFINE places == Until(all, i, j)
           IsLast(p) == \A q \in places : q[1] < p[1] \/ (q[1] = p[1] /\ q[2] <= p[2])
<1>1. \A p \in places : p[1] \in Nat /\ p[2] \in Nat /\ p = <<p[1], p[2]>>
  BY DEF Until
<1>2. <<i, j>> \in places
  BY DEF Until
<1>3. \A p \in places : p[1] < i \/ (p[1] = i /\ p[2] <= j)
  BY DEF Until
<1> HIDE DEF places
<1>4. IsLast(<<i, j>>)
  BY <1>3
<1>5. ASSUME NEW p \in places, IsLast(p)
      PROVE  p = <<i, j>>
  <2>1. i < p[1] \/ (i = p[1] /\ j <= p[2])
    BY <1>2, <1>5
  <2>2. p[1] = i /\ p[2] = j
    BY <1>1, <1>3, <2>1
  <2>3. QED BY <1>1, <2>2
<1>6. LastOf(places) = CHOOSE p \in places : IsLast(p)
  BY DEF LastOf
<1> HIDE DEF IsLast
<1>7. QED BY <1>2, <1>4, <1>5, <1>6 DEF places

LEMMA UntilPasses ==
  ASSUME NEW all \in SUBSET (Nat \X Nat), NEW i \in Nat, NEW j \in Nat, j # 0, <<i, j>> \notin all
  PROVE  Until(all, i, j) = Until(all, i, j - 1)
<1>1. \A p \in all : p[1] \in Nat /\ p[2] \in Nat /\ p = <<p[1], p[2]>>
  OBVIOUS
<1>2. \A p \in all : p[1] = i => p[2] # j
  BY <1>1
<1>3. QED BY <1>1, <1>2 DEF Until

LEMMA UntilTheRowEnds ==
  ASSUME NEW n \in Nat, NEW all \in SUBSET (Nat \X (1 .. n)), NEW i \in Nat
  PROVE  Until(all, i, n) = Until(all, i + 1, 0)
<1>1. \A p \in all : p[1] \in Nat /\ p[2] \in 1 .. n
  OBVIOUS
<1>2. QED BY <1>1 DEF Until

LEMMA AssignmentsAre ==
  ASSUME IsSequence(rows), IsSequence(Clause[2]), NEW kind, NEW id, NEW key
  PROVE  /\ Assignments(kind, id, key) \in SUBSET (Nat \X Nat)
         /\ Assignments(kind, id, key) \in SUBSET (Nat \X (1 .. Len(Clause[2])))
         /\ Assignments(kind, id, key) \in SUBSET ((1 .. Len(rows)) \X (1 .. Len(Clause[2])))
<1>1. /\ DOMAIN rows = 1 .. Len(rows) /\ Len(rows) \in Nat
      /\ DOMAIN Clause[2] = 1 .. Len(Clause[2]) /\ Len(Clause[2]) \in Nat
  BY IsSeq
<1>2. Assignments(kind, id, key) \subseteq (1 .. Len(rows)) \X (1 .. Len(Clause[2]))
  BY <1>1 DEF Assignments
<1>3. 1 .. Len(rows) \subseteq Nat /\ 1 .. Len(Clause[2]) \subseteq Nat
  BY <1>1
<1>4. QED BY <1>2, <1>3

LEMMA AssignedOn ==
  ASSUME IsSequence(rows), IsSequence(Clause[2]), NEW i \in Nat, NEW j \in Nat, j # 0,
         NEW kind, NEW record, NEW key
  PROVE  AssignedUntil(kind, record, key, i, j) =
           IF <<i, j>> \in Assignments(kind, record.id, key) THEN Stores(<<i, j>>)
           ELSE AssignedUntil(kind, record, key, i, j - 1)
<1> DEFINE all == Assignments(kind, record.id, key)
<1>1. all \in SUBSET (Nat \X Nat)
  BY AssignmentsAre
<1> HIDE DEF all
<1>2. CASE <<i, j>> \in all
  <2>1. <<i, j>> \in Until(all, i, j)
    BY <1>2 DEF Until
  <2>2. LastOf(Until(all, i, j)) = <<i, j>>
    BY <1>1, <1>2, LastIsLatest
  <2>3. QED BY <1>2, <2>1, <2>2 DEF AssignedUntil, all
<1>3. CASE <<i, j>> \notin all
  <2>1. Until(all, i, j) = Until(all, i, j - 1)
    BY <1>1, <1>3, UntilPasses
  <2>2. QED BY <1>3, <2>1 DEF AssignedUntil, all
<1>4. QED BY <1>2, <1>3 DEF all

LEMMA SoFarGoesOn ==
  ASSUME IsSequence(rows), IsSequence(Clause[2]), NEW i \in DOMAIN rows, NEW j \in DOMAIN Clause[2],
         NEW before, NEW records, NEW after, NEW kind, NEW stored,
         SoFar(records, before, kind, i, j - 1),
         FollowsItem(after, records, Clause[2][j], rows[i][<<Clause[2][j][2]>>], kind, stored),
         Clause[2][j][1] = "property" => stored = Stores(<<i, j>>)
  PROVE  SoFar(after, before, kind, i, j)
<1> DEFINE item == Clause[2][j]
           bound == rows[i][<<item[2]>>]
<1>1. i \in Nat /\ j \in Nat /\ j # 0
  <2>1. DOMAIN rows = 1 .. Len(rows) /\ DOMAIN Clause[2] = 1 .. Len(Clause[2])
    BY IsSeq
  <2>2. QED BY <2>1
<1>2. ASSUME NEW id, NEW key
      PROVE  IsAbout(item, bound, kind, id, key) <=> <<i, j>> \in Assignments(kind, id, key)
  BY DEF IsAbout, Assignments
<1>3. \A id, key : IsAbout(item, bound, kind, id, key) => stored = Stores(<<i, j>>)
  BY DEF IsAbout
<1> HIDE DEF bound
<1>4. ASSUME NEW k \in DOMAIN before, NEW key
      PROVE  PropertyOf(after[k], key) = AssignedUntil(kind, before[k], key, i, j)
  <2>1. records[k].id = before[k].id /\ PropertyOf(records[k], key) = AssignedUntil(kind, before[k], key, i, j - 1)
    BY DEF SoFar
  <2>2. PropertyOf(after[k], key) =
          IF IsAbout(item, bound, kind, records[k].id, key) THEN stored ELSE PropertyOf(records[k], key)
    BY DEF SoFar, FollowsItem, bound
  <2>3. AssignedUntil(kind, before[k], key, i, j) =
          IF <<i, j>> \in Assignments(kind, before[k].id, key) THEN Stores(<<i, j>>)
          ELSE AssignedUntil(kind, before[k], key, i, j - 1)
    BY <1>1, AssignedOn
  <2>4. QED BY <1>2, <1>3, <2>1, <2>2, <2>3
<1>5. QED BY <1>4 DEF SoFar, FollowsItem

\* The graph as the assignments so far leave it.
SetSoFar(v, i, j) ==
  /\ SoFar(v.graph.nodes, root.nodes, "node", i, j)
  /\ SoFar(v.graph.edges, root.edges, "relationship", i, j)

LEMMA SetWriteGoesOn ==
  ASSUME IsSequence(rows), IsSequence(Clause[2]), NEW i \in DOMAIN rows, NEW j \in DOMAIN Clause[2],
         Clause[2][j][1] \in {"label", "property"}, NEW x, NEW value,
         value = set_value(Reader(root), Clause[2][j], rows[i])[2],
         NEW v, IsWriter(v), v.refused = << >>, v.row = rows[i], SetSoFar(v, i, j - 1),
         Performed(v, x, <<"set", Clause[2][j], value>>).refused = << >>
  PROVE  /\ SetSoFar(Performed(v, x, <<"set", Clause[2][j], value>>), i, j)
         /\ Performed(v, x, <<"set", Clause[2][j], value>>).row = rows[i]
<1> DEFINE item == Clause[2][j]
           named == Bound(v.row, <<item[2]>>)
           bound == rows[i][<<item[2]>>]
           u == Performed(v, x, <<"set", item, value>>)
           stored == stored_value(value)[2]
<1>1. u = IF IsRefused(named) THEN Refusing(v, named[2]) ELSE set(v, item, named[2], value)
  BY DEF Performed, OnBound, Proceed
<1>2. ~ IsRefused(named)
  BY <1>1, RefusingIsRefused
<1>3. named[2] = bound
  BY <1>2 DEF Bound, IsRefused, Yes, Refuse
<1>4. u = set(v, item, bound, value)
  BY <1>1, <1>2, <1>3
<1>5. item[1] = "property" => stored = Stores(<<i, j>>)
  BY DEF set_value, Stores
<1>6. ItemLeaves(v, set(v, item, bound, value), item, bound, stored)
  <2> HIDE DEF bound, named
  <2>1. QED BY <1>4, SetLeaves
<1>7. /\ u.row = v.row
      /\ FollowsItem(u.graph.nodes, v.graph.nodes, item, bound, "node", stored)
      /\ FollowsItem(u.graph.edges, v.graph.edges, item, bound, "relationship", stored)
  BY <1>4, <1>6 DEF ItemLeaves
<1> HIDE DEF u, stored
<1>8. SoFar(u.graph.nodes, root.nodes, "node", i, j)
  BY <1>5, <1>7, SoFarGoesOn DEF SetSoFar
<1>9. SoFar(u.graph.edges, root.edges, "relationship", i, j)
  BY <1>5, <1>7, SoFarGoesOn DEF SetSoFar
<1>10. QED BY <1>7, <1>8, <1>9 DEF SetSoFar, u

\* The writes of a row: one for each item.
AreSetWrites(list, i) ==
  /\ Len(list) = Len(Clause[2])
  /\ \A j \in DOMAIN Clause[2] :
       list[j] = <<"set", Clause[2][j], set_value(Reader(root), Clause[2][j], rows[i])[2]>>

LEMMA SetRowGoesOn ==
  ASSUME IsSequence(rows), IsWritable(Clause), Clause[1] = "set", NEW i \in DOMAIN rows, NEW x,
         NEW list, AreSetWrites(list, i), NEW w, IsWriter(w), w.refused = << >>, SetSoFar(w, i, 0),
         RowWritten(w, x, rows[i], list).refused = << >>
  PROVE  SetSoFar(RowWritten(w, x, rows[i], list), i + 1, 0)
<1> DEFINE n == Len(Clause[2])
<1>1. /\ IsSequence(Clause[2]) /\ DOMAIN Clause[2] = 1 .. n /\ n \in Nat
      /\ \A j \in 1 .. n : Clause[2][j][1] \in {"label", "property"}
  <2>1. IsSequence(Clause[2])
    BY DEF IsWritable
  <2>2. DOMAIN Clause[2] = 1 .. n /\ n \in Nat
    BY <2>1, IsSeq
  <2>3. QED BY <2>1, <2>2 DEF IsWritable
<1>2. i \in Nat
  <2>1. DOMAIN rows = 1 .. Len(rows) /\ Len(rows) \in Nat
    BY IsSeq
  <2>2. QED BY <2>1
<1>3. Len(list) = n /\ AreWrites(list, FALSE)
  BY <1>1 DEF AreSetWrites, AreWrites, IsWrite
<1>4. PICK done : /\ RowSteps(done, w, x, rows[i], list, n)
                  /\ RowWritten(w, x, rows[i], list) =
                       IF done[n].refused # << >> THEN done[n] ELSE Kept(done[n])
  BY <1>1, <1>3, RowWrittenSteps
<1>5. \A m \in 0 .. n : IsWriter(done[m])
  BY <1>3, <1>4, RowStepsGo DEF Goes, Moves
<1> DEFINE Fine(m) == done[m].refused = << >> => SetSoFar(done[m], i, m) /\ done[m].row = rows[i]
           S == {m \in 0 .. n : ~ Fine(m)}
<1> HIDE DEF n
<1>6. S = {}
  <2> SUFFICES ASSUME S # {} PROVE FALSE
    OBVIOUS
  <2>1. PICK m \in S : \A k \in S : m <= k
    <3>1. S \in SUBSET Nat
      BY <1>1
    <3>2. QED BY <3>1, Least
  <2>2. CASE m = 0
    <3>1. done[0] = [w EXCEPT !.row = rows[i], !.found = << >>]
      BY <1>1, <1>4 DEF RowSteps
    <3>2. done[0].graph = w.graph /\ done[0].row = rows[i]
      BY <3>1 DEF IsWriter, WriterField
    <3>3. Fine(0)
      BY <3>2 DEF SetSoFar
    <3>4. QED BY <2>1, <2>2, <3>3
  <2>3. CASE m # 0
    <3> DEFINE v == done[m - 1]
               u == Performed(v, x, list[m])
    <3>1. m - 1 \in 0 .. n /\ m \in 1 .. n /\ m \in 0 .. n
      BY <1>1, <2>1, <2>3
    <3>2. Fine(m - 1)
      BY <2>1, <3>1
    <3>3. done[m] = IF v.refused # << >> THEN v ELSE u
      BY <1>4, <2>3, <3>1 DEF RowSteps
    <3>4. list[m] = <<"set", Clause[2][m], set_value(Reader(root), Clause[2][m], rows[i])[2]>>
      BY <1>1, <3>1 DEF AreSetWrites
    <3>5. ASSUME done[m].refused = << >>
          PROVE  SetSoFar(done[m], i, m) /\ done[m].row = rows[i]
      <4>1. v.refused = << >> /\ done[m] = u
        BY <3>3, <3>5
      <4>2. SetSoFar(v, i, m - 1) /\ v.row = rows[i] /\ IsWriter(v)
        BY <1>5, <3>1, <3>2, <4>1
      <4> HIDE DEF v
      <4>3. SetSoFar(u, i, m) /\ u.row = rows[i]
        BY <1>1, <3>1, <3>4, <3>5, <4>1, <4>2, SetWriteGoesOn
      <4>4. QED BY <4>1, <4>3
    <3>6. QED BY <2>1, <3>5
  <2>4. QED BY <2>2, <2>3
<1>7. done[n].refused = << >> /\ RowWritten(w, x, rows[i], list) = Kept(done[n])
  BY <1>4
<1>8. SetSoFar(done[n], i, n) /\ IsWriter(done[n])
  BY <1>1, <1>5, <1>6, <1>7
<1>9. Kept(done[n]).graph = done[n].graph
  BY <1>8 DEF Kept, IsWriter, WriterField
<1>10. \A kind, record, key : AssignedUntil(kind, record, key, i, n) = AssignedUntil(kind, record, key, i + 1, 0)
  <2> TAKE kind, record, key
  <2>1. Assignments(kind, record.id, key) \in SUBSET (Nat \X (1 .. n))
    BY <1>1, AssignmentsAre DEF n
  <2>2. QED BY <1>1, <1>2, <2>1, UntilTheRowEnds DEF AssignedUntil
<1>11. ASSUME NEW records, NEW before, NEW kind, SoFar(records, before, kind, i, n)
       PROVE  SoFar(records, before, kind, i + 1, 0)
  BY <1>10, <1>11 DEF SoFar
<1>12. SetSoFar(done[n], i + 1, 0)
  BY <1>8, <1>11 DEF SetSoFar
<1>13. QED BY <1>7, <1>9, <1>12 DEF SetSoFar

\* Results of which none is refused give all their values.
LEMMA SequencedIs ==
  ASSUME NEW results, DOMAIN results \subseteq Nat, ~ IsRefused(Sequenced(results))
  PROVE  \A i \in DOMAIN results : ~ IsRefused(results[i]) /\ Sequenced(results)[2][i] = results[i][2]
<1> DEFINE S == {i \in DOMAIN results : IsRefused(results[i])}
<1>1. S = {}
  <2> SUFFICES ASSUME S # {} PROVE FALSE
    OBVIOUS
  <2>1. S \in SUBSET Nat
    OBVIOUS
  <2>2. Min(S) \in S
    <3> HIDE DEF S
    <3>1. QED BY <2>1, MinIsLeast
  <2>3. Sequenced(results) = results[Min(S)]
    BY DEF Sequenced
  <2>4. QED BY <2>2, <2>3
<1>2. Sequenced(results) = Yes([i \in DOMAIN results |-> results[i][2]])
  BY <1>1 DEF Sequenced
<1>3. QED BY <1>1, <1>2 DEF Yes

LEMMA SetClauseLeaves ==
  ASSUME IsSequence(rows), IsWritable(Clause), Clause[1] = "set", NEW w, IsWriter(w), w.refused = << >>,
         w.graph = root, SetClause(w, Reader(root), Clause[2], rows).refused = << >>
  PROVE  SetSoFar(SetClause(w, Reader(root), Clause[2], rows), Len(rows) + 1, 0)
<1> DEFINE items == Clause[2]
           x == Reader(root)
           inner(i) == [j \in DOMAIN items |-> set_value(x, items[j], rows[i])]
           outer == [i \in DOMAIN rows |-> Sequenced(inner(i))]
           values == Sequenced(outer)
           list(i) == [j \in DOMAIN items |-> <<"set", items[j], values[2][i][j]>>]
           lists == [i \in 1 .. Len(rows) |-> list(i)]
           n == Len(rows)
<1>1. SetClause(w, x, items, rows) =
        IF IsRefused(values) THEN Refusing(w, values[2]) ELSE ClauseWritten(w, x, rows, lists)
  BY DEF SetClause, Proceed, Rowwise, Each
<1>2. /\ IsSequence(items) /\ DOMAIN items = 1 .. Len(items) /\ Len(items) \in Nat
      /\ DOMAIN rows = 1 .. n /\ n \in Nat
  <2>1. IsSequence(items)
    BY DEF IsWritable
  <2>2. QED BY <2>1, IsSeq
<1>3. ~ IsRefused(values)
  <2> HIDE DEF values, lists
  <2>1. QED BY <1>1, RefusingIsRefused
<1>4. ASSUME NEW i \in DOMAIN rows, NEW j \in DOMAIN items
      PROVE  values[2][i][j] = set_value(x, items[j], rows[i])[2]
  <2>1. DOMAIN outer \subseteq Nat /\ outer[i] = Sequenced(inner(i)) /\ DOMAIN outer = DOMAIN rows
    BY <1>2
  <2>2. ~ IsRefused(outer[i]) /\ values[2][i] = outer[i][2]
    <3> HIDE DEF outer
    <3>1. QED BY <1>3, <2>1, SequencedIs
  <2>3. DOMAIN inner(i) \subseteq Nat /\ DOMAIN inner(i) = DOMAIN items /\ inner(i)[j] = set_value(x, items[j], rows[i])
    BY <1>2
  <2> HIDE DEF inner, values, outer
  <2>4. Sequenced(inner(i))[2][j] = inner(i)[j][2]
    BY <2>1, <2>2, <2>3, SequencedIs
  <2>5. QED BY <2>1, <2>2, <2>3, <2>4
<1>5. ASSUME NEW i \in DOMAIN rows PROVE AreSetWrites(lists[i], i) /\ AreWrites(lists[i], FALSE)
  <2>1. lists[i] = [j \in 1 .. Len(items) |-> <<"set", items[j], values[2][i][j]>>]
    BY <1>2
  <2>2. Len(lists[i]) = Len(items)
    BY <1>2, <2>1
  <2>3. \A j \in 1 .. Len(items) : lists[i][j] = <<"set", items[j], values[2][i][j]>>
    BY <2>1
  <2> HIDE DEF lists, values
  <2>4. AreSetWrites(lists[i], i)
    BY <1>2, <1>4, <2>2, <2>3 DEF AreSetWrites
  <2>5. AreWrites(lists[i], FALSE)
    BY <1>2, <2>2, <2>3 DEF AreWrites, IsWrite
  <2>6. QED BY <2>4, <2>5
<1> HIDE DEF lists, values, n
<1>6. PICK done : /\ ClauseSteps(done, w, x, rows, lists, n)
                  /\ ClauseWritten(w, x, rows, lists) = done[n]
  BY <1>2, ClauseWrittenSteps DEF n
<1>7. done[0] = w
  BY <1>2, <1>6 DEF ClauseSteps
<1> DEFINE Fine(m) == IsWriter(done[m]) /\ (done[m].refused = << >> => SetSoFar(done[m], m + 1, 0))
           S == {m \in 0 .. n : ~ Fine(m)}
<1>8. Fine(0)
  <2>1. ASSUME NEW kind, NEW before PROVE SoFar(before, before, kind, 1, 0)
    <3>1. \A id, key : Assignments(kind, id, key) \in SUBSET ((1 .. Len(rows)) \X (1 .. Len(items)))
      BY <1>2, AssignmentsAre
    <3>2. \A id, key : Until(Assignments(kind, id, key), 1, 0) = {}
      BY <1>2, <3>1 DEF Until, n
    <3>3. QED BY <3>2 DEF SoFar, AssignedUntil
  <2>2. SetSoFar(w, 1, 0)
    BY <2>1 DEF SetSoFar
  <2>3. QED BY <1>7, <2>2
<1>9. S = {}
  <2> SUFFICES ASSUME S # {} PROVE FALSE
    OBVIOUS
  <2>1. PICK m \in S : \A k \in S : m <= k
    <3>1. S \in SUBSET Nat
      BY <1>2
    <3>2. QED BY <3>1, Least
  <2>2. CASE m = 0
    BY <1>8, <2>1, <2>2
  <2>3. CASE m # 0
    <3> DEFINE v == done[m - 1]
               u == RowWritten(v, x, rows[m], lists[m])
    <3>1. m - 1 \in 0 .. n /\ m \in DOMAIN rows /\ m \in 0 .. n
      BY <1>2, <2>1, <2>3
    <3>2. Fine(m - 1) /\ (m - 1) + 1 = m
      BY <2>1, <3>1
    <3>3. done[m] = IF v.refused # << >> THEN v ELSE u
      BY <1>6, <2>3, <3>1 DEF ClauseSteps
    <3>4. IsWriter(v) /\ (v.refused = << >> => SetSoFar(v, m, 0))
      BY <3>2
    <3> HIDE DEF v
    <3>5. IsWriter(u)
      BY <1>5, <3>1, <3>4, RowWrittenGoes DEF Goes, Moves
    <3>6. ASSUME done[m].refused = << >> PROVE SetSoFar(done[m], m + 1, 0)
      <4>1. v.refused = << >> /\ done[m] = u
        BY <3>3, <3>6
      <4>2. SetSoFar(u, m + 1, 0)
        BY <1>5, <3>1, <3>4, <3>6, <4>1, SetRowGoesOn
      <4>3. QED BY <4>1, <4>2
    <3> HIDE DEF u
    <3>7. QED BY <2>1, <3>3, <3>4, <3>5, <3>6
  <2>4. QED BY <2>2, <2>3
<1>10. Fine(n)
  BY <1>2, <1>9
<1>11. QED BY <1>1, <1>3, <1>6, <1>10 DEF n

\* What the property says of a step that carried out a SET.
TheStartIsSeen ==
  /\ \A i \in DOMAIN root.nodes : \A key \in Keys :
       PropertyOf(root'.nodes[i], key) = Assigned("node", root.nodes[i], key)
  /\ \A i \in DOMAIN root.edges : \A key \in Keys :
       PropertyOf(root'.edges[i], key) = Assigned("relationship", root.edges[i], key)

\* Of the steps at a SET, the others do not carry it out.
LEMMA OnlySetDoes ==
  ASSUME SessionInv, QueryNext, Did("set")
  PROVE  Set
<1>1. stage = "clause" /\ ~ stop /\ Clause[1] = "set" /\ clause' = clause + 1 /\ clause \in Nat
  BY DEF Did, At, SessionInv, SessionTypes, Inside, Running
<1>2. clause' # clause
  BY <1>1
<1>3. ASSUME NEW q \in Queries, Begin(q) PROVE Set
  BY <1>1, <1>3 DEF Begin
<1>4. CASE AskToStop \/ Cancel \/ StartPart
  BY <1>1, <1>2, <1>4 DEF AskToStop, Cancel, StartPart, progress
<1>5. CASE StartMatch \/ MatchRow \/ EndMatch
  BY <1>1, <1>5 DEF StartMatch, MatchRow, EndMatch, At
<1>6. CASE Unwind \/ With \/ Call \/ Create \/ Merge \/ RemoveItems \/ Delete
  BY <1>1, <1>6 DEF At, Unwind, With, Call, Create, Merge, RemoveItems, Delete
<1>7. CASE Result \/ Commit \/ Rollback
  BY <1>1, <1>7 DEF Result, Commit, Rollback
<1>8. QED BY <1>3, <1>4, <1>5, <1>6, <1>7 DEF QueryNext

LEMMA SetSeesTheStart ==
  ASSUME SessionInv, QueryNext, Did("set")
  PROVE  TheStartIsSeen
<1> DEFINE w == SetClause(Start, Reader(root), Clause[2], rows)
           n == Len(rows)
<1>1. Write(w) /\ stage = "clause" /\ Clause[1] = "set" /\ clause' = clause + 1 /\ clause \in Nat
  BY OnlySetDoes DEF Set, Did, At, SessionInv, SessionTypes, Inside, Running
<1>2. w.refused = << >> /\ root' = w.graph
  BY <1>1 DEF Write, Refusal
<1>3. IsWritable(Clause) /\ IsSequence(rows) /\ IsSequence(Clause[2])
  BY <1>1, ClauseIsWritable DEF IsWritable
<1>4. IsWriter(Start) /\ Start.graph = root /\ Start.refused = << >>
  BY StartIsWriter DEF Start, Writer
<1>5. SetSoFar(w, n + 1, 0)
  BY <1>1, <1>2, <1>3, <1>4, SetClauseLeaves
<1> HIDE DEF w
<1>6. ASSUME NEW kind, NEW record, NEW key
      PROVE  AssignedUntil(kind, record, key, n + 1, 0) = Assigned(kind, record, key)
  <2> DEFINE all == Assignments(kind, record.id, key)
  <2>1. all \in SUBSET ((1 .. n) \X (1 .. Len(Clause[2]))) /\ n \in Nat
    BY <1>3, IsSeq, AssignmentsAre
  <2>2. Until(all, n + 1, 0) = all
    <3> HIDE DEF all, n
    <3>1. QED BY <2>1 DEF Until
  <2>3. QED BY <2>2 DEF AssignedUntil, Assigned, Stores
<1>7. /\ \A i \in DOMAIN root.nodes : \A key :
           PropertyOf(w.graph.nodes[i], key) = AssignedUntil("node", root.nodes[i], key, n + 1, 0)
      /\ \A i \in DOMAIN root.edges : \A key :
           PropertyOf(w.graph.edges[i], key) = AssignedUntil("relationship", root.edges[i], key, n + 1, 0)
  BY <1>5 DEF SetSoFar, SoFar
<1>8. QED BY <1>2, <1>6, <1>7 DEF TheStartIsSeen

\* Every value of a SET clause is taken from the graph as the clause found it, the
\* last assignment of the last row stands, and a property that no item is about
\* stays.
THEOREM SetAlwaysSeesTheClauseStart == QuerySpec => SetSeesTheClauseStart
<1> DEFINE Seen == Did("set") => TheStartIsSeen
<1>1. SessionInv /\ [QueryNext]_queryVars => [Seen]_queryVars
  BY SetSeesTheStart
<1>2. QuerySpec => [][Seen]_queryVars
  BY <1>1, SessionStaysWhole, PTL DEF QuerySpec
<1>3. QED BY <1>2, PTL DEF SetSeesTheClauseStart, TheStartIsSeen

-----------------------------------------------------------------------------
(* Places                                                                   *)

Below(R, S, i) == {j \in S : <<j, i>> \in R}

Ordering(R, S) ==
  /\ \A a \in S : <<a, a>> \notin R
  /\ \A a, b \in S : a # b => <<a, b>> \in R \/ <<b, a>> \in R
  /\ \A a, b, c \in S : <<a, b>> \in R /\ <<b, c>> \in R => <<a, c>> \in R

\* The elements of a set at the places of an order.
Places(R, S, f) ==
  \A k \in 1 .. Cardinality(S) : f[k] \in S /\ Cardinality(Below(R, S, f[k])) = k - 1

\* Every number of elements below, up to the last, is that of one element.
LEMMA RanksFill ==
  ASSUME NEW S, IsFiniteSet(S), NEW R, Ordering(R, S)
  PROVE  /\ Cardinality(S) \in Nat
         /\ \A i \in S : Cardinality(Below(R, S, i)) \in 0 .. Cardinality(S) - 1
         /\ \A i, j \in S : Cardinality(Below(R, S, i)) = Cardinality(Below(R, S, j)) => i = j
         /\ \A k \in 1 .. Cardinality(S) : \E i \in S : Cardinality(Below(R, S, i)) = k - 1
<1> DEFINE n == Cardinality(S)
           Rank(i) == Cardinality(Below(R, S, i))
           ranks == [i \in S |-> Rank(i)]
<1>1. n \in Nat
  BY FS_CardinalityType
<1>2. ASSUME NEW i \in S
      PROVE  Rank(i) \in 0 .. n - 1
  <2>1. Below(R, S, i) \in SUBSET S /\ Below(R, S, i) # S
    BY DEF Below, Ordering
  <2>2. IsFiniteSet(Below(R, S, i)) /\ Rank(i) <= n /\ Rank(i) # n
    BY <2>1, FS_Subset
  <2>3. Rank(i) \in Nat
    BY <2>2, FS_CardinalityType
  <2>4. QED BY <1>1, <2>2, <2>3
<1>3. ASSUME NEW i \in S, NEW j \in S, <<i, j>> \in R
      PROVE  Rank(i) < Rank(j)
  <2>1. Below(R, S, i) \in SUBSET Below(R, S, j) /\ i \in Below(R, S, j) /\ i \notin Below(R, S, i)
    BY <1>3 DEF Below, Ordering
  <2>2. IsFiniteSet(Below(R, S, j))
    BY FS_Subset DEF Below
  <2>3. Rank(i) <= Rank(j) /\ Rank(i) # Rank(j)
    BY <2>1, <2>2, FS_Subset
  <2>4. QED BY <1>2, <2>3
<1>4. \A i, j \in S : Rank(i) = Rank(j) => i = j
  <2> SUFFICES ASSUME NEW i \in S, NEW j \in S, Rank(i) = Rank(j), i # j PROVE FALSE
    OBVIOUS
  <2>1. CASE <<i, j>> \in R
    BY <1>2, <1>3, <2>1
  <2>2. CASE <<j, i>> \in R
    BY <1>2, <1>3, <2>2
  <2>3. QED BY <2>1, <2>2 DEF Ordering
<1>5. ranks \in Injection(S, 0 .. n - 1)
  <2>1. ranks \in [S -> 0 .. n - 1]
    BY <1>2
  <2>2. \A i, j \in S : ranks[i] = ranks[j] => i = j
    BY <1>4
  <2>3. QED BY <2>1, <2>2 DEF Injection, IsInjective
<1>6. IsFiniteSet(0 .. n - 1) /\ Cardinality(0 .. n - 1) = n
  <2>1. IsFiniteSet(0 .. n - 1) /\ Cardinality(0 .. n - 1) = IF 0 > n - 1 THEN 0 ELSE (n - 1) - 0 + 1
    BY <1>1, FS_Interval
  <2>2. QED BY <1>1, <2>1
<1>7. ranks \in Surjection(S, 0 .. n - 1)
  BY <1>5, <1>6, FS_Injection
<1>8. \A r \in 0 .. n - 1 : \E i \in S : Rank(i) = r
  BY <1>7 DEF Surjection
<1>9. \A k \in 1 .. n : \E i \in S : Rank(i) = k - 1
  <2> SUFFICES ASSUME NEW k \in 1 .. n PROVE \E i \in S : Rank(i) = k - 1
    OBVIOUS
  <2>1. k - 1 \in 0 .. n - 1
    BY <1>1
  <2>2. QED BY <1>8, <2>1
<1>10. QED BY <1>1, <1>2, <1>4, <1>9

\* A strict order gives each element of a finite set a place of its own.
LEMMA EachHasAPlace ==
  ASSUME NEW S, IsFiniteSet(S), NEW R, Ordering(R, S), NEW f, Places(R, S, f)
  PROVE  /\ Cardinality(S) \in Nat
         /\ \A k \in 1 .. Cardinality(S) : f[k] \in S
         /\ \A k, l \in 1 .. Cardinality(S) : f[k] = f[l] => k = l
         /\ \A i \in S : \E k \in 1 .. Cardinality(S) : f[k] = i
<1> DEFINE n == Cardinality(S)
           Rank(i) == Cardinality(Below(R, S, i))
<1>1. n \in Nat /\ (\A i \in S : Rank(i) \in 0 .. n - 1) /\ \A i, j \in S : Rank(i) = Rank(j) => i = j
  BY RanksFill
<1>2. \A k \in 1 .. n : f[k] \in S /\ Rank(f[k]) = k - 1
  BY DEF Places
<1> HIDE DEF n, Rank
<1>3. \A k, l \in 1 .. n : f[k] = f[l] => k = l
  <2> SUFFICES ASSUME NEW k \in 1 .. n, NEW l \in 1 .. n, f[k] = f[l] PROVE k = l
    OBVIOUS
  <2>1. k - 1 = l - 1
    BY <1>2
  <2>2. QED BY <1>1, <2>1
<1>4. ASSUME NEW i \in S
      PROVE  \E k \in 1 .. n : f[k] = i
  <2>1. Rank(i) + 1 \in 1 .. n /\ (Rank(i) + 1) - 1 = Rank(i)
    BY <1>1
  <2>2. f[Rank(i) + 1] \in S /\ Rank(f[Rank(i) + 1]) = Rank(i)
    BY <1>2, <2>1
  <2>3. QED BY <1>1, <2>1, <2>2
<1>5. QED BY <1>1, <1>2, <1>3, <1>4 DEF n, Rank

LEMMA PlacesAscend ==
  ASSUME NEW S, IsFiniteSet(S), NEW R, Ordering(R, S), NEW f, Places(R, S, f),
         NEW k \in 1 .. Cardinality(S), NEW l \in 1 .. Cardinality(S), k < l
  PROVE  <<f[k], f[l]>> \in R
<1> DEFINE Rank(i) == Cardinality(Below(R, S, i))
<1>1. Cardinality(S) \in Nat /\ f[k] \in S /\ f[l] \in S /\ (f[k] = f[l] => k = l)
  BY EachHasAPlace
<1>2. Rank(f[k]) = k - 1 /\ Rank(f[l]) = l - 1
  BY DEF Places
<1>3. ASSUME <<f[l], f[k]>> \in R
      PROVE  Rank(f[l]) <= Rank(f[k])
  <2>1. Below(R, S, f[l]) \in SUBSET Below(R, S, f[k])
    BY <1>1, <1>3 DEF Below, Ordering
  <2>2. IsFiniteSet(Below(R, S, f[k]))
    BY FS_Subset DEF Below
  <2>3. QED BY <2>1, <2>2, FS_Subset
<1> HIDE DEF Rank
<1>4. <<f[l], f[k]>> \notin R
  BY <1>1, <1>2, <1>3
<1>5. f[k] # f[l]
  BY <1>1
<1>6. QED BY <1>1, <1>4, <1>5 DEF Ordering

-----------------------------------------------------------------------------
(* The order of sequences                                                   *)

\* A function of a position and two values is an order of the values there.
Orders(C, values) ==
  /\ \A i \in Nat : \A a, b \in values :
       C[<<i, a, b>>] \in {-1, 0, 1} /\ C[<<i, a, b>>] + C[<<i, b, a>>] = 0
  /\ \A i \in Nat : \A a, b, c \in values :
       C[<<i, a, b>>] <= 0 /\ C[<<i, b, c>>] <= 0 => C[<<i, a, c>>] <= 0

\* How two sequences compare at one position, where the one that has ended is first.
AtPlace(C, s, t, i) ==
  IF i \in 1 .. Len(s) THEN IF i \in 1 .. Len(t) THEN C[<<i, s[i], t[i]>>] ELSE 1
  ELSE IF i \in 1 .. Len(t) THEN -1 ELSE 0

\* The first position at which they differ decides.
Decides(C, s, t, c) ==
  \/ c = 0 /\ \A i \in Nat : AtPlace(C, s, t, i) = 0
  \/ /\ c \in {-1, 1}
     /\ \E i \in Nat : AtPlace(C, s, t, i) = c /\ \A j \in 0 .. i - 1 : AtPlace(C, s, t, j) = 0

LEMMA PlacesAreOrdered ==
  ASSUME NEW values, NEW C, Orders(C, values),
         NEW s \in Seq(values), NEW t \in Seq(values), NEW u \in Seq(values), NEW i \in Nat
  PROVE  /\ AtPlace(C, s, t, i) \in {-1, 0, 1}
         /\ AtPlace(C, s, t, i) + AtPlace(C, t, s, i) = 0
         /\ AtPlace(C, s, t, i) <= 0 /\ AtPlace(C, t, u, i) <= 0 => AtPlace(C, s, u, i) <= 0
<1>1. /\ i \in 1 .. Len(s) => s[i] \in values
      /\ i \in 1 .. Len(t) => t[i] \in values
      /\ i \in 1 .. Len(u) => u[i] \in values
  OBVIOUS
<1>2. QED BY <1>1 DEF AtPlace, Orders

LEMMA OneDecides ==
  ASSUME NEW values, NEW C, Orders(C, values), NEW s \in Seq(values), NEW t \in Seq(values),
         NEW c, NEW d, Decides(C, s, t, c), Decides(C, s, t, d)
  PROVE  c = d
<1>1. \A i \in Nat : AtPlace(C, s, t, i) \in {-1, 0, 1}
  BY PlacesAreOrdered
<1>2. CASE c = 0 \/ d = 0
  BY <1>2 DEF Decides
<1>3. CASE c # 0 /\ d # 0
  <2>1. PICK i \in Nat : AtPlace(C, s, t, i) = c /\ \A k \in 0 .. i - 1 : AtPlace(C, s, t, k) = 0
    BY <1>3 DEF Decides
  <2>2. PICK j \in Nat : AtPlace(C, s, t, j) = d /\ \A k \in 0 .. j - 1 : AtPlace(C, s, t, k) = 0
    BY <1>3 DEF Decides
  <2>3. i = j
    <3>1. ~ i < j
      BY <1>3, <2>1, <2>2
    <3>2. ~ j < i
      BY <1>3, <2>1, <2>2
    <3>3. QED BY <3>1, <3>2
  <2>4. QED BY <2>1, <2>2, <2>3
<1>4. QED BY <1>2, <1>3

LEMMA SomeDecides ==
  ASSUME NEW values, NEW C, Orders(C, values), NEW s \in Seq(values), NEW t \in Seq(values)
  PROVE  \E c \in {-1, 0, 1} : Decides(C, s, t, c)
<1> DEFINE differ == {i \in Nat : AtPlace(C, s, t, i) # 0}
<1>1. CASE differ = {}
  BY <1>1 DEF Decides
<1>2. CASE differ # {}
  <2>1. PICK m \in differ : \A k \in differ : m <= k
    BY <1>2, Least
  <2>2. \A j \in 0 .. m - 1 : AtPlace(C, s, t, j) = 0
    BY <2>1
  <2>3. AtPlace(C, s, t, m) \in {-1, 1}
    BY <2>1, PlacesAreOrdered
  <2>4. QED BY <2>1, <2>2, <2>3 DEF Decides
<1>3. QED BY <1>1, <1>2

LEMMA DecidesBack ==
  ASSUME NEW values, NEW C, Orders(C, values), NEW s \in Seq(values), NEW t \in Seq(values),
         NEW c \in {-1, 0, 1}, NEW d \in {-1, 0, 1}, c + d = 0, Decides(C, s, t, c)
  PROVE  Decides(C, t, s, d)
<1>1. \A i \in Nat : /\ AtPlace(C, s, t, i) \in {-1, 0, 1} /\ AtPlace(C, t, s, i) \in {-1, 0, 1}
                     /\ AtPlace(C, s, t, i) + AtPlace(C, t, s, i) = 0
  BY PlacesAreOrdered
<1>2. CASE c = 0
  <2>1. \A i \in Nat : AtPlace(C, s, t, i) = 0
    BY <1>2 DEF Decides
  <2>2. \A i \in Nat : AtPlace(C, t, s, i) = 0
    BY <1>1, <2>1
  <2>3. d = 0
    BY <1>2
  <2>4. QED BY <2>2, <2>3 DEF Decides
<1>3. CASE c \in {-1, 1}
  <2>1. PICK i \in Nat : AtPlace(C, s, t, i) = c /\ \A j \in 0 .. i - 1 : AtPlace(C, s, t, j) = 0
    BY <1>3 DEF Decides
  <2>2. AtPlace(C, t, s, i) = d /\ \A j \in 0 .. i - 1 : AtPlace(C, t, s, j) = 0
    BY <1>1, <2>1
  <2>3. QED BY <1>3, <2>2 DEF Decides
<1>4. QED BY <1>2, <1>3 DEF Decides

LEMMA DecidesOn ==
  ASSUME NEW values, NEW C, Orders(C, values),
         NEW s \in Seq(values), NEW t \in Seq(values), NEW u \in Seq(values),
         NEW c, NEW d, NEW e, Decides(C, s, t, c), Decides(C, t, u, d), Decides(C, s, u, e),
         c <= 0, d <= 0
  PROVE  e <= 0
<1> DEFINE differ == {i \in Nat : AtPlace(C, s, t, i) # 0 \/ AtPlace(C, t, u, i) # 0}
<1>1. \A i \in Nat : /\ AtPlace(C, s, t, i) \in {-1, 0, 1} /\ AtPlace(C, t, u, i) \in {-1, 0, 1}
                     /\ AtPlace(C, s, u, i) \in {-1, 0, 1} /\ AtPlace(C, t, s, i) \in {-1, 0, 1}
                     /\ AtPlace(C, u, t, i) \in {-1, 0, 1} /\ AtPlace(C, u, s, i) \in {-1, 0, 1}
                     /\ AtPlace(C, s, t, i) + AtPlace(C, t, s, i) = 0
                     /\ AtPlace(C, t, u, i) + AtPlace(C, u, t, i) = 0
                     /\ AtPlace(C, s, u, i) + AtPlace(C, u, s, i) = 0
  BY PlacesAreOrdered
<1>2. \A i \in Nat :
        /\ AtPlace(C, s, t, i) <= 0 /\ AtPlace(C, t, u, i) <= 0 => AtPlace(C, s, u, i) <= 0
        /\ AtPlace(C, u, t, i) <= 0 /\ AtPlace(C, t, s, i) <= 0 => AtPlace(C, u, s, i) <= 0
        /\ AtPlace(C, u, s, i) <= 0 /\ AtPlace(C, s, t, i) <= 0 => AtPlace(C, u, t, i) <= 0
        /\ AtPlace(C, t, u, i) <= 0 /\ AtPlace(C, u, s, i) <= 0 => AtPlace(C, t, s, i) <= 0
  BY PlacesAreOrdered
<1>3. CASE differ = {}
  <2>1. \A i \in Nat : AtPlace(C, s, u, i) = 0
    BY <1>1, <1>2, <1>3
  <2>2. Decides(C, s, u, 0)
    BY <2>1 DEF Decides
  <2>3. e = 0
    BY <2>2, OneDecides
  <2>4. QED BY <2>3
<1>4. CASE differ # {}
  <2>1. PICK m \in differ : \A k \in differ : m <= k
    BY <1>4, Least
  <2>2. \A j \in 0 .. m - 1 : AtPlace(C, s, t, j) = 0 /\ AtPlace(C, t, u, j) = 0
    BY <2>1
  <2>3. \A j \in 0 .. m - 1 : AtPlace(C, s, u, j) = 0
    BY <1>1, <1>2, <2>2
  <2>4. AtPlace(C, s, t, m) <= 0
    <3> SUFFICES ASSUME AtPlace(C, s, t, m) = 1 PROVE FALSE
      BY <1>1, <2>1
    <3>1. Decides(C, s, t, 1)
      BY <2>1, <2>2 DEF Decides
    <3>2. c = 1
      BY <3>1, OneDecides
    <3>3. QED BY <3>2
  <2>5. AtPlace(C, t, u, m) <= 0
    <3> SUFFICES ASSUME AtPlace(C, t, u, m) = 1 PROVE FALSE
      BY <1>1, <2>1
    <3>1. Decides(C, t, u, 1)
      BY <2>1, <2>2 DEF Decides
    <3>2. d = 1
      BY <3>1, OneDecides
    <3>3. QED BY <3>2
  <2>6. AtPlace(C, s, u, m) = -1
    <3>1. AtPlace(C, s, u, m) <= 0
      BY <1>2, <2>1, <2>4, <2>5
    <3>2. ASSUME AtPlace(C, s, u, m) = 0
          PROVE  FALSE
      <4>1. AtPlace(C, u, s, m) <= 0
        BY <1>1, <2>1, <3>2
      <4>2. AtPlace(C, u, t, m) <= 0 /\ AtPlace(C, t, s, m) <= 0
        BY <1>2, <2>1, <2>4, <2>5, <4>1
      <4>3. AtPlace(C, s, t, m) = 0 /\ AtPlace(C, t, u, m) = 0
        BY <1>1, <2>1, <2>4, <2>5, <4>2
      <4>4. QED BY <2>1, <4>3
    <3>3. QED BY <1>1, <2>1, <3>1, <3>2
  <2>7. Decides(C, s, u, -1)
    BY <2>1, <2>3, <2>6 DEF Decides
  <2>8. e = -1
    BY <2>7, OneDecides
  <2>9. QED BY <2>8
<1>5. QED BY <1>3, <1>4

-----------------------------------------------------------------------------
(* The order of rows and of sort keys                                       *)

\* The order of the values at each place, reversed at some.
InDirection(values, down) ==
  [z \in Nat \X values \X values |->
     IF z[1] \in down THEN CompareValues(z[3], z[2]) ELSE CompareValues(z[2], z[3])]

LEMMA DirectionOrders ==
  ASSUME NEW values, NEW down, Ranks(values)
  PROVE  Orders(InDirection(values, down), values)
<1>1. ASSUME NEW i \in Nat, NEW a \in values, NEW b \in values
      PROVE  InDirection(values, down)[<<i, a, b>>] = IF i \in down THEN CompareValues(b, a) ELSE CompareValues(a, b)
  BY DEF InDirection
<1>2. \A a, b \in values :
        CompareValues(a, b) \in {-1, 0, 1} /\ CompareValues(a, b) + CompareValues(b, a) = 0
  BY DEF Ranks
<1>3. \A a, b, c \in values :
        CompareValues(a, b) <= 0 /\ CompareValues(b, c) <= 0 => CompareValues(a, c) <= 0
  BY DEF Ranks
<1>4. QED BY <1>1, <1>2, <1>3 DEF Orders

LEMMA FirstDecides ==
  ASSUME NEW values, NEW C, Orders(C, values), NEW s \in Seq(values), NEW t \in Seq(values),
         NEW differ, differ = {i \in DOMAIN s \intersect DOMAIN t : C[<<i, s[i], t[i]>>] # 0}
  PROVE  /\ differ = {} => Decides(C, s, t, Sign(Len(s) - Len(t)))
         /\ differ # {} => Decides(C, s, t, C[<<Min(differ), s[Min(differ)], t[Min(differ)]>>])
<1>1. Len(s) \in Nat /\ Len(t) \in Nat /\ DOMAIN s = 1 .. Len(s) /\ DOMAIN t = 1 .. Len(t)
  OBVIOUS
<1>2. CASE differ = {}
  <2>1. \A i \in Nat : i \in 1 .. Len(s) /\ i \in 1 .. Len(t) => AtPlace(C, s, t, i) = 0
    BY <1>1, <1>2 DEF AtPlace
  <2>2. CASE Len(s) = Len(t)
    <3>1. Sign(Len(s) - Len(t)) = 0
      BY <1>1, <2>2 DEF Sign
    <3>2. \A i \in Nat : AtPlace(C, s, t, i) = 0
      BY <2>1, <2>2 DEF AtPlace
    <3>3. QED BY <1>2, <3>1, <3>2 DEF Decides
  <2>3. CASE Len(s) < Len(t)
    <3>1. Sign(Len(s) - Len(t)) = -1
      BY <1>1, <2>3 DEF Sign
    <3>2. Len(s) + 1 \in Nat /\ AtPlace(C, s, t, Len(s) + 1) = -1
      BY <1>1, <2>3 DEF AtPlace
    <3>3. \A j \in 0 .. (Len(s) + 1) - 1 : AtPlace(C, s, t, j) = 0
      BY <1>1, <2>1, <2>3 DEF AtPlace
    <3>4. QED BY <1>2, <3>1, <3>2, <3>3 DEF Decides
  <2>4. CASE Len(t) < Len(s)
    <3>1. Sign(Len(s) - Len(t)) = 1
      BY <1>1, <2>4 DEF Sign
    <3>2. Len(t) + 1 \in Nat /\ AtPlace(C, s, t, Len(t) + 1) = 1
      BY <1>1, <2>4 DEF AtPlace
    <3>3. \A j \in 0 .. (Len(t) + 1) - 1 : AtPlace(C, s, t, j) = 0
      BY <1>1, <2>1, <2>4 DEF AtPlace
    <3>4. QED BY <1>2, <3>1, <3>2, <3>3 DEF Decides
  <2>5. Len(s) = Len(t) \/ Len(s) < Len(t) \/ Len(t) < Len(s)
    <3>1. \A m, n \in Nat : m = n \/ m < n \/ n < m
      OBVIOUS
    <3>2. QED BY <1>1, <3>1
  <2>6. QED BY <1>2, <2>2, <2>3, <2>4, <2>5
<1>3. CASE differ # {}
  <2> DEFINE m == Min(differ)
  <2>1. differ \in SUBSET Nat
    BY <1>1
  <2>2. m \in differ /\ \A k \in differ : m <= k
    BY <1>3, <2>1, MinIsLeast
  <2> HIDE DEF m
  <2>3. m \in Nat /\ AtPlace(C, s, t, m) = C[<<m, s[m], t[m]>>] /\ AtPlace(C, s, t, m) # 0
    BY <1>1, <2>2 DEF AtPlace
  <2>4. \A j \in 0 .. m - 1 : AtPlace(C, s, t, j) = 0
    <3> SUFFICES ASSUME NEW j \in 0 .. m - 1 PROVE AtPlace(C, s, t, j) = 0
      OBVIOUS
    <3>1. j \in Nat /\ j < m /\ j \notin differ
      BY <2>2, <2>3
    <3>2. m \in 1 .. Len(s) /\ m \in 1 .. Len(t)
      BY <1>1, <2>2
    <3>3. j \in 1 .. Len(s) <=> j \in 1 .. Len(t)
      BY <1>1, <3>1, <3>2
    <3>4. QED BY <1>1, <3>1, <3>3 DEF AtPlace
  <2>5. AtPlace(C, s, t, m) \in {-1, 1}
    BY <2>3, PlacesAreOrdered
  <2>6. Decides(C, s, t, C[<<m, s[m], t[m]>>])
    BY <2>3, <2>4, <2>5 DEF Decides
  <2>7. QED BY <1>3, <2>6 DEF m
<1>4. QED BY <1>2, <1>3

LEMMA RowsDecide ==
  ASSUME NEW values, Ranks(values), NEW r \in Seq(values), NEW s \in Seq(values)
  PROVE  Decides(InDirection(values, {}), r, s, CompareRows(r, s))
<1> DEFINE C == InDirection(values, {})
           differ == {i \in DOMAIN r \intersect DOMAIN s : C[<<i, r[i], s[i]>>] # 0}
           met == {i \in DOMAIN r \intersect DOMAIN s : CompareValues(r[i], s[i]) # 0}
<1>1. \A i \in DOMAIN r \intersect DOMAIN s : C[<<i, r[i], s[i]>>] = CompareValues(r[i], s[i])
  BY DEF InDirection
<1>2. differ = met
  BY <1>1
<1>3. met # {} => Min(met) \in met
  <2>1. met \in SUBSET Nat
    OBVIOUS
  <2>2. QED BY <2>1, MinIsLeast
<1>4. /\ differ = {} => Decides(C, r, s, Sign(Len(r) - Len(s)))
      /\ differ # {} => Decides(C, r, s, C[<<Min(differ), r[Min(differ)], s[Min(differ)]>>])
  BY DirectionOrders, FirstDecides
<1>5. CompareRows(r, s) = IF met = {} THEN Sign(Len(r) - Len(s)) ELSE CompareValues(r[Min(met)], s[Min(met)])
  BY DEF CompareRows, CompareSeq
<1> HIDE DEF differ, met, C
<1>6. CASE met = {}
  BY <1>2, <1>4, <1>5, <1>6 DEF C
<1>7. CASE met # {}
  <2>1. Min(met) \in DOMAIN r \intersect DOMAIN s
    BY <1>3, <1>7 DEF met
  <2>2. QED BY <1>1, <1>2, <1>4, <1>5, <1>7, <2>1 DEF C
<1>8. QED BY <1>6, <1>7

LEMMA KeysDecide ==
  ASSUME NEW values, Ranks(values), NEW order_by, NEW a \in Seq(values), NEW b \in Seq(values)
  PROVE  Decides(InDirection(values, {i \in Nat : order_by[i].descending}), a, b, CompareKeys(order_by, a, b))
<1> DEFINE down == {i \in Nat : order_by[i].descending}
           C == InDirection(values, down)
           differ == {i \in DOMAIN a \intersect DOMAIN b : C[<<i, a[i], b[i]>>] # 0}
           K == [i \in DOMAIN a |-> <<order_by[i].descending, a[i]>>]
           L == [i \in DOMAIN b |-> <<order_by[i].descending, b[i]>>]
           O(k, l) == IF k[1] THEN CompareValues(l[2], k[2]) ELSE CompareValues(k[2], l[2])
           met == {i \in DOMAIN K \intersect DOMAIN L : O(K[i], L[i]) # 0}
<1>1. \A i \in DOMAIN a \intersect DOMAIN b : C[<<i, a[i], b[i]>>] = O(K[i], L[i])
  <2> SUFFICES ASSUME NEW i \in DOMAIN a \intersect DOMAIN b PROVE C[<<i, a[i], b[i]>>] = O(K[i], L[i])
    OBVIOUS
  <2>1. i \in Nat /\ a[i] \in values /\ b[i] \in values
    OBVIOUS
  <2>2. C[<<i, a[i], b[i]>>] = IF i \in down THEN CompareValues(b[i], a[i]) ELSE CompareValues(a[i], b[i])
    BY <2>1 DEF InDirection
  <2>3. K[i] = <<order_by[i].descending, a[i]>> /\ L[i] = <<order_by[i].descending, b[i]>>
    OBVIOUS
  <2>4. O(K[i], L[i]) = IF order_by[i].descending THEN CompareValues(b[i], a[i]) ELSE CompareValues(a[i], b[i])
    BY <2>3
  <2>5. QED BY <2>1, <2>2, <2>4
<1>2. differ = met
  BY <1>1
<1>3. met # {} => Min(met) \in met
  <2>1. met \in SUBSET Nat
    OBVIOUS
  <2>2. QED BY <2>1, MinIsLeast
<1>4. Len(K) = Len(a) /\ Len(L) = Len(b)
  OBVIOUS
<1>5. /\ differ = {} => Decides(C, a, b, Sign(Len(a) - Len(b)))
      /\ differ # {} => Decides(C, a, b, C[<<Min(differ), a[Min(differ)], b[Min(differ)]>>])
  BY DirectionOrders, FirstDecides
<1>6. CompareKeys(order_by, a, b) = IF met = {} THEN Sign(Len(K) - Len(L)) ELSE O(K[Min(met)], L[Min(met)])
  BY DEF CompareKeys, CompareSeq
<1> HIDE DEF differ, met, C, K, L
<1>7. CASE met = {}
  BY <1>2, <1>4, <1>5, <1>6, <1>7 DEF C
<1>8. CASE met # {}
  <2>1. Min(met) \in DOMAIN a \intersect DOMAIN b
    BY <1>3, <1>8 DEF met, K, L
  <2>2. QED BY <1>1, <1>2, <1>5, <1>6, <1>8, <2>1 DEF C
<1>9. QED BY <1>7, <1>8

\* What an order of sequences is, from the order of the values in them.
LEMMA DecidedOrder ==
  ASSUME NEW values, NEW C, Orders(C, values),
         NEW s \in Seq(values), NEW t \in Seq(values), NEW u \in Seq(values),
         NEW c, NEW d, NEW e, NEW f, Decides(C, s, t, c), Decides(C, t, s, d),
         Decides(C, t, u, e), Decides(C, s, u, f)
  PROVE  c \in {-1, 0, 1} /\ d \in {-1, 0, 1} /\ c + d = 0 /\ (c <= 0 /\ e <= 0 => f <= 0)
<1>1. c \in {-1, 0, 1} /\ d \in {-1, 0, 1}
  <2>1. PICK g \in {-1, 0, 1} : Decides(C, s, t, g)
    BY SomeDecides
  <2>2. PICK h \in {-1, 0, 1} : Decides(C, t, s, h)
    BY SomeDecides
  <2>3. c = g /\ d = h
    BY <2>1, <2>2, OneDecides
  <2>4. QED BY <2>1, <2>2, <2>3
<1>2. PICK h \in {-1, 0, 1} : c + h = 0
  BY <1>1
<1>3. Decides(C, t, s, h)
  BY <1>1, <1>2, DecidesBack
<1>4. d = h
  BY <1>3, OneDecides
<1>5. c <= 0 /\ e <= 0 => f <= 0
  BY DecidesOn
<1>6. QED BY <1>1, <1>2, <1>4, <1>5

LEMMA RowsAreOrdered ==
  ASSUME NEW values, Ranks(values),
         NEW r \in Seq(values), NEW s \in Seq(values), NEW t \in Seq(values)
  PROVE  /\ CompareRows(r, s) \in {-1, 0, 1} /\ CompareRows(s, r) \in {-1, 0, 1}
         /\ CompareRows(r, s) + CompareRows(s, r) = 0
         /\ CompareRows(r, s) <= 0 /\ CompareRows(s, t) <= 0 => CompareRows(r, t) <= 0
<1> DEFINE C == InDirection(values, {})
<1>1. Orders(C, values)
  BY DirectionOrders
<1>2. /\ Decides(C, r, s, CompareRows(r, s)) /\ Decides(C, s, r, CompareRows(s, r))
      /\ Decides(C, s, t, CompareRows(s, t)) /\ Decides(C, r, t, CompareRows(r, t))
  BY RowsDecide
<1> HIDE DEF C
<1>3. \A c, d, e, f : Decides(C, r, s, c) /\ Decides(C, s, r, d) /\ Decides(C, s, t, e) /\ Decides(C, r, t, f) =>
        c \in {-1, 0, 1} /\ d \in {-1, 0, 1} /\ c + d = 0 /\ (c <= 0 /\ e <= 0 => f <= 0)
  BY <1>1, DecidedOrder
<1>4. QED BY <1>2, <1>3

LEMMA KeysAreOrdered ==
  ASSUME NEW values, Ranks(values), NEW order_by,
         NEW a \in Seq(values), NEW b \in Seq(values), NEW c \in Seq(values)
  PROVE  /\ CompareKeys(order_by, a, b) \in {-1, 0, 1} /\ CompareKeys(order_by, b, a) \in {-1, 0, 1}
         /\ CompareKeys(order_by, a, b) + CompareKeys(order_by, b, a) = 0
         /\ CompareKeys(order_by, a, b) <= 0 /\ CompareKeys(order_by, b, c) <= 0
              => CompareKeys(order_by, a, c) <= 0
<1> DEFINE C == InDirection(values, {i \in Nat : order_by[i].descending})
<1>1. Orders(C, values)
  BY DirectionOrders
<1>2. /\ Decides(C, a, b, CompareKeys(order_by, a, b)) /\ Decides(C, b, a, CompareKeys(order_by, b, a))
      /\ Decides(C, b, c, CompareKeys(order_by, b, c)) /\ Decides(C, a, c, CompareKeys(order_by, a, c))
  BY KeysDecide
<1> HIDE DEF C
<1>3. \A d, e, f, g : Decides(C, a, b, d) /\ Decides(C, b, a, e) /\ Decides(C, b, c, f) /\ Decides(C, a, c, g) =>
        d \in {-1, 0, 1} /\ e \in {-1, 0, 1} /\ d + e = 0 /\ (d <= 0 /\ f <= 0 => g <= 0)
  BY <1>1, DecidedOrder
<1>4. QED BY <1>2, <1>3

\* Rows of keys that are in order differ first in the direction asked for.
LEMMA KeysInOrder ==
  ASSUME NEW values, Ranks(values), NEW order_by, IsSequence(order_by),
         NEW a \in Seq(values), NEW b \in Seq(values),
         Len(a) = Len(order_by), Len(b) = Len(order_by), CompareKeys(order_by, a, b) <= 0
  PROVE  InOrder(order_by, a, b)
<1> DEFINE down == {i \in Nat : order_by[i].descending}
           C == InDirection(values, down)
           c == CompareKeys(order_by, a, b)
<1>1. Len(order_by) \in Nat /\ DOMAIN order_by = 1 .. Len(order_by)
  BY IsSeq
<1>2. Decides(C, a, b, c)
  BY KeysDecide
<1>3. ASSUME NEW i \in DOMAIN order_by
      PROVE  /\ AtPlace(C, a, b, i) =
                  IF order_by[i].descending THEN CompareValues(b[i], a[i]) ELSE CompareValues(a[i], b[i])
             /\ CompareValues(a[i], b[i]) \in {-1, 0, 1} /\ CompareValues(b[i], a[i]) \in {-1, 0, 1}
             /\ CompareValues(a[i], b[i]) + CompareValues(b[i], a[i]) = 0
  <2>1. i \in Nat /\ i \in 1 .. Len(a) /\ i \in 1 .. Len(b) /\ a[i] \in values /\ b[i] \in values
    BY <1>1
  <2>2. C[<<i, a[i], b[i]>>] = IF i \in down THEN CompareValues(b[i], a[i]) ELSE CompareValues(a[i], b[i])
    BY <2>1 DEF InDirection
  <2>3. AtPlace(C, a, b, i) = C[<<i, a[i], b[i]>>]
    BY <2>1 DEF AtPlace
  <2>4. /\ CompareValues(a[i], b[i]) \in {-1, 0, 1} /\ CompareValues(b[i], a[i]) \in {-1, 0, 1}
        /\ CompareValues(a[i], b[i]) + CompareValues(b[i], a[i]) = 0
    BY <2>1 DEF Ranks
  <2>5. QED BY <2>1, <2>2, <2>3, <2>4
<1>4. \A i \in Nat : i \notin DOMAIN order_by => AtPlace(C, a, b, i) = 0
  BY <1>1 DEF AtPlace
<1> HIDE DEF C, c, down
<1>5. ASSUME NEW k \in DOMAIN order_by, \A l \in 1 .. k - 1 : CompareValues(a[l], b[l]) = 0
      PROVE  AtPlace(C, a, b, k) \in {-1, 0}
  <2>1. k \in Nat /\ \A l \in 1 .. k - 1 : l \in DOMAIN order_by
    BY <1>1
  <2>2. \A l \in 1 .. k - 1 : AtPlace(C, a, b, l) = 0
    <3> SUFFICES ASSUME NEW l \in 1 .. k - 1 PROVE AtPlace(C, a, b, l) = 0
      OBVIOUS
    <3>1. CompareValues(a[l], b[l]) = 0 /\ CompareValues(b[l], a[l]) = 0
      BY <1>3, <1>5, <2>1
    <3>2. QED BY <1>3, <2>1, <3>1
  <2>3. CASE c = 0 /\ \A i \in Nat : AtPlace(C, a, b, i) = 0
    BY <2>1, <2>3
  <2>4. CASE c \in {-1, 1} /\ \E i \in Nat : AtPlace(C, a, b, i) = c /\ \A j \in 0 .. i - 1 : AtPlace(C, a, b, j) = 0
    <3>1. PICK i \in Nat : AtPlace(C, a, b, i) = c /\ \A j \in 0 .. i - 1 : AtPlace(C, a, b, j) = 0
      BY <2>4
    <3>2. c = -1
      BY <2>4 DEF c
    <3>3. i \in DOMAIN order_by
      BY <1>4, <3>1, <3>2
    <3>4. ~ i < k
      BY <1>1, <2>2, <3>1, <3>2, <3>3
    <3>5. CASE i = k
      BY <3>1, <3>2, <3>5
    <3>6. CASE k < i
      <4>1. k \in 0 .. i - 1
        BY <2>1, <3>6
      <4>2. QED BY <3>1, <4>1
    <3>7. QED BY <2>1, <3>4, <3>5, <3>6
  <2>5. QED BY <1>2, <2>3, <2>4 DEF Decides
<1>6. ASSUME NEW k \in DOMAIN order_by, \A l \in 1 .. k - 1 : CompareValues(a[l], b[l]) = 0
      PROVE  CompareValues(a[k], b[k]) \in {0, IF order_by[k].descending THEN 1 ELSE -1}
  <2>1. AtPlace(C, a, b, k) \in {-1, 0}
    BY <1>5, <1>6
  <2>2. CASE order_by[k].descending
    BY <1>3, <2>1, <2>2
  <2>3. CASE ~ order_by[k].descending
    BY <1>3, <2>1, <2>3
  <2>4. QED BY <2>2, <2>3
<1>7. QED BY <1>6 DEF InOrder

-----------------------------------------------------------------------------
(* What sorting and dropping duplicates leave                               *)

\* Each of 1 .. n at one place.
Permutes(f, n) ==
  /\ \A k \in 1 .. n : f[k] \in 1 .. n
  /\ \A k, l \in 1 .. n : f[k] = f[l] => k = l
  /\ \A i \in 1 .. n : \E k \in 1 .. n : f[k] = i

Rearranged(items, f) == [k \in 1 .. Len(items) |-> items[f[k]]]

ByKeys(items, keys, order_by) == SortedBy(items, keys, LAMBDA a, b : CompareKeys(order_by, a, b))

\* The keys at the places of f, none after one it is smaller than.
Ascend(order_by, keys, f, n) ==
  \A k, l \in 1 .. n : k < l => CompareKeys(order_by, keys[f[k]], keys[f[l]]) <= 0

\* Keys for each of some items.
AreKeys(keys, items, values) == \A i \in DOMAIN items : keys[i] \in Seq(values)

LEMMA SortingPermutes ==
  ASSUME NEW values, Ranks(values), NEW order_by, NEW items, IsSequence(items),
         NEW keys, AreKeys(keys, items, values)
  PROVE  \E f : /\ Permutes(f, Len(items)) /\ ByKeys(items, keys, order_by) = Rearranged(items, f)
               /\ Ascend(order_by, keys, f, Len(items))
<1> DEFINE S == DOMAIN items
           n == Len(items)
           before(i, j) == LET c == CompareKeys(order_by, keys[i], keys[j]) IN c < 0 \/ (c = 0 /\ i < j)
           R == {z \in S \X S : before(z[1], z[2])}
           f == [k \in 1 .. Cardinality(S) |-> CHOOSE i \in S : Cardinality({j \in S : before(j, i)}) = k - 1]
<1>1. n \in Nat /\ S = 1 .. n
  BY IsSeq
<1>2. IsFiniteSet(S) /\ Cardinality(S) = n
  <2>1. IsFiniteSet(1 .. n) /\ Cardinality(1 .. n) = IF 1 > n THEN 0 ELSE n - 1 + 1
    BY <1>1, FS_Interval
  <2>2. QED BY <1>1, <2>1
<1>3. ByKeys(items, keys, order_by) = [k \in S |-> items[f[k]]]
  BY DEF ByKeys, SortedBy, Ranked
<1>4. Ordering(R, S)
  <2>1. \A i, j \in S : <<i, j>> \in R <=> before(i, j)
    OBVIOUS
  <2> HIDE DEF R
  <2>2. \A i, j, k \in S :
          LET c == CompareKeys(order_by, keys[i], keys[j])
              d == CompareKeys(order_by, keys[j], keys[i])
              e == CompareKeys(order_by, keys[j], keys[k])
              g == CompareKeys(order_by, keys[i], keys[k])
          IN  c \in {-1, 0, 1} /\ d \in {-1, 0, 1} /\ c + d = 0 /\ (c <= 0 /\ e <= 0 => g <= 0)
    BY KeysAreOrdered DEF AreKeys
  <2>3. \A i \in S : ~ before(i, i)
    BY <1>1, <2>2
  <2>4. \A i, j \in S : i # j => before(i, j) \/ before(j, i)
    BY <1>1, <2>2
  <2>5. \A i, j, k \in S : before(i, j) /\ before(j, k) => before(i, k)
    <3> SUFFICES ASSUME NEW i \in S, NEW j \in S, NEW k \in S, before(i, j), before(j, k)
                 PROVE  before(i, k)
      OBVIOUS
    <3>1. /\ CompareKeys(order_by, keys[i], keys[j]) <= 0
          /\ CompareKeys(order_by, keys[j], keys[k]) <= 0
          /\ CompareKeys(order_by, keys[i], keys[k]) <= 0
      BY <2>2
    <3>2. CASE CompareKeys(order_by, keys[i], keys[k]) < 0
      BY <3>2
    <3>3. CASE CompareKeys(order_by, keys[i], keys[k]) = 0
      <4>1. CompareKeys(order_by, keys[k], keys[i]) = 0
        BY <2>2, <3>3
      <4>2. CompareKeys(order_by, keys[j], keys[i]) <= 0 /\ CompareKeys(order_by, keys[k], keys[j]) <= 0
        BY <2>2, <3>1, <4>1
      <4>3. CompareKeys(order_by, keys[i], keys[j]) = 0 /\ CompareKeys(order_by, keys[j], keys[k]) = 0
        BY <2>2, <3>1, <4>2
      <4>4. i < j /\ j < k
        BY <4>3
      <4>5. i < k
        BY <1>1, <4>4
      <4>6. QED BY <3>3, <4>5
    <3>4. QED BY <2>2, <3>1, <3>2, <3>3
  <2> HIDE DEF before
  <2>6. QED BY <2>1, <2>3, <2>4, <2>5 DEF Ordering
<1>5. Places(R, S, f)
  <2>1. \A i \in S : Below(R, S, i) = {j \in S : before(j, i)}
    BY DEF Below
  <2> HIDE DEF before, R
  <2>2. \A k \in 1 .. Cardinality(S) : \E i \in S : Cardinality(Below(R, S, i)) = k - 1
    BY <1>2, <1>4, RanksFill
  <2>3. ASSUME NEW k \in 1 .. Cardinality(S)
        PROVE  f[k] \in S /\ Cardinality({j \in S : before(j, f[k])}) = k - 1
    <3>1. \E i \in S : Cardinality({j \in S : before(j, i)}) = k - 1
      BY <2>1, <2>2
    <3>2. f[k] = CHOOSE i \in S : Cardinality({j \in S : before(j, i)}) = k - 1
      OBVIOUS
    <3> HIDE DEF f
    <3>3. QED BY <3>1, <3>2
  <2> HIDE DEF f
  <2>4. QED BY <2>1, <2>3 DEF Places
<1>6. \A i, j \in S : <<i, j>> \in R => CompareKeys(order_by, keys[i], keys[j]) <= 0
  <2> SUFFICES ASSUME NEW i \in S, NEW j \in S, <<i, j>> \in R
               PROVE  CompareKeys(order_by, keys[i], keys[j]) <= 0
    OBVIOUS
  <2>1. before(i, j)
    OBVIOUS
  <2>2. CompareKeys(order_by, keys[i], keys[j]) \in {-1, 0, 1}
    BY KeysAreOrdered DEF AreKeys
  <2>3. QED BY <2>1, <2>2
<1> HIDE DEF R, f, before, S
<1>7. Ascend(order_by, keys, f, n)
  <2> SUFFICES ASSUME NEW k \in 1 .. n, NEW l \in 1 .. n, k < l
               PROVE  CompareKeys(order_by, keys[f[k]], keys[f[l]]) <= 0
    BY DEF Ascend
  <2>1. <<f[k], f[l]>> \in R
    BY <1>2, <1>4, <1>5, PlacesAscend
  <2>2. f[k] \in S /\ f[l] \in S
    BY <1>2, <1>4, <1>5, EachHasAPlace
  <2>3. QED BY <1>6, <2>1, <2>2
<1>8. /\ \A k \in 1 .. n : f[k] \in S
      /\ \A k, l \in 1 .. n : f[k] = f[l] => k = l
      /\ \A i \in S : \E k \in 1 .. n : f[k] = i
  BY <1>2, <1>4, <1>5, EachHasAPlace
<1>9. Permutes(f, n)
  BY <1>1, <1>8 DEF Permutes
<1>10. ByKeys(items, keys, order_by) = Rearranged(items, f)
  BY <1>1, <1>3 DEF Rearranged
<1>11. QED BY <1>9, <1>10, <1>7

ByRow(kept) == Distinct(kept, LAMBDA p, q : CompareRows(p[1], q[1]))

RowsIn(found, values) == IsSequence(found) /\ \A i \in DOMAIN found : found[i][1] \in Seq(values)

\* There is one of some rows for all that are alike.
OneOfEach(d, kept) ==
  /\ IsSequence(d)
  /\ \A k \in DOMAIN d : \E i \in DOMAIN kept : d[k] = kept[i]
  /\ \A i \in DOMAIN kept : \E k \in DOMAIN d :
       /\ CompareRows(d[k][1], kept[i][1]) = 0
       /\ \A l \in DOMAIN d : CompareRows(d[l][1], kept[i][1]) = 0 => l = k

\* Rid of its duplicates, a sequence has one of all that are alike.
LEMMA FirstOfEach ==
  ASSUME NEW values, Ranks(values), NEW kept, RowsIn(kept, values)
  PROVE  OneOfEach(ByRow(kept), kept)
<1> USE DEF RowsIn
<1> DEFINE d == ByRow(kept)
           m == Len(kept)
           first == {i \in DOMAIN kept : \A j \in 1 .. i - 1 : CompareRows(kept[j][1], kept[i][1]) # 0}
           R == {z \in first \X first : z[1] < z[2]}
           places == [k \in 1 .. Cardinality(first) |->
                        CHOOSE i \in first : Cardinality({j \in first : j < i}) = k - 1]
           n == Cardinality(first)
<1>1. m \in Nat /\ DOMAIN kept = 1 .. m /\ first \in SUBSET (1 .. m)
  BY IsSeq
<1>2. IsFiniteSet(first) /\ n \in Nat
  <2> HIDE DEF first, m
  <2>1. IsFiniteSet(1 .. m)
    BY <1>1, FS_Interval
  <2>2. IsFiniteSet(first)
    BY <1>1, <2>1, FS_Subset
  <2>3. QED BY <2>2, FS_CardinalityType
<1>3. d = [k \in 1 .. n |-> kept[places[k]]]
  BY DEF ByRow, Distinct, Ranked
<1>4. Ordering(R, first)
  <2>1. \A i, j \in first : <<i, j>> \in R <=> i < j
    OBVIOUS
  <2>2. \A i \in first : i \in Nat
    BY <1>1
  <2> HIDE DEF R, first
  <2>3. QED BY <2>1, <2>2 DEF Ordering
<1>5. Places(R, first, places)
  <2>1. \A i \in first : Below(R, first, i) = {j \in first : j < i}
    BY DEF Below
  <2> HIDE DEF R, first
  <2>2. \A k \in 1 .. n : \E i \in first : Cardinality(Below(R, first, i)) = k - 1
    BY <1>2, <1>4, RanksFill
  <2>3. ASSUME NEW k \in 1 .. n
        PROVE  places[k] \in first /\ Cardinality({j \in first : j < places[k]}) = k - 1
    <3>1. \E i \in first : Cardinality({j \in first : j < i}) = k - 1
      BY <2>1, <2>2
    <3>2. places[k] = CHOOSE i \in first : Cardinality({j \in first : j < i}) = k - 1
      OBVIOUS
    <3> HIDE DEF places
    <3>3. QED BY <3>1, <3>2
  <2> HIDE DEF places
  <2>4. QED BY <2>1, <2>3 DEF Places
<1> HIDE DEF R, places, d, first
<1>6. /\ \A k \in 1 .. n : places[k] \in first
      /\ \A i \in first : \E k \in 1 .. n : places[k] = i
      /\ \A k, l \in 1 .. n : places[k] = places[l] => k = l
  BY <1>2, <1>4, <1>5, EachHasAPlace
<1>7. \A i, j, k \in DOMAIN kept :
        LET c == CompareRows(kept[i][1], kept[j][1])
            e == CompareRows(kept[j][1], kept[i][1])
        IN  /\ c \in {-1, 0, 1} /\ e \in {-1, 0, 1} /\ c + e = 0
            /\ c <= 0 /\ CompareRows(kept[j][1], kept[k][1]) <= 0 => CompareRows(kept[i][1], kept[k][1]) <= 0
  BY RowsAreOrdered
<1> DEFINE Alike(i, j) == CompareRows(kept[i][1], kept[j][1]) = 0
<1>8. /\ \A i \in DOMAIN kept : Alike(i, i)
      /\ \A i, j \in DOMAIN kept : Alike(i, j) => Alike(j, i)
      /\ \A i, j, k \in DOMAIN kept : Alike(i, j) /\ Alike(j, k) => Alike(i, k)
  <2>1. \A i \in DOMAIN kept : Alike(i, i)
    BY <1>7
  <2>2. \A i, j \in DOMAIN kept : Alike(i, j) => Alike(j, i)
    BY <1>7
  <2>3. \A i, j, k \in DOMAIN kept : Alike(i, j) /\ Alike(j, k) => Alike(i, k)
    <3> SUFFICES ASSUME NEW i \in DOMAIN kept, NEW j \in DOMAIN kept, NEW k \in DOMAIN kept,
                        Alike(i, j), Alike(j, k)
                 PROVE  Alike(i, k)
      OBVIOUS
    <3>1. CompareRows(kept[i][1], kept[k][1]) <= 0
      BY <1>7
    <3>2. CompareRows(kept[k][1], kept[i][1]) <= 0
      BY <1>7, <2>2
    <3>3. QED BY <1>7, <3>1, <3>2
  <2>4. QED BY <2>1, <2>2, <2>3
<1>9. \A i \in first : \A j \in 1 .. i - 1 : ~ Alike(j, i)
  BY DEF first
<1>10. \A i \in DOMAIN kept : (\A j \in 1 .. i - 1 : ~ Alike(j, i)) => i \in first
  BY DEF first
<1> HIDE DEF Alike
<1>11. ASSUME NEW i \in DOMAIN kept
       PROVE  \E f \in first : Alike(f, i) /\ \A g \in first : Alike(g, i) => g = f
  <2> DEFINE same == {j \in DOMAIN kept : Alike(j, i)}
  <2>1. same \in SUBSET Nat /\ same # {}
    BY <1>1, <1>8
  <2>2. PICK f \in same : \A k \in same : f <= k
    BY <2>1, Least
  <2>3. \A j \in 1 .. f - 1 : ~ Alike(j, f)
    <3> SUFFICES ASSUME NEW j \in 1 .. f - 1, Alike(j, f) PROVE FALSE
      OBVIOUS
    <3>1. j \in DOMAIN kept /\ j < f
      BY <1>1, <2>2
    <3>2. Alike(j, i)
      BY <1>8, <2>2, <3>1
    <3>3. QED BY <1>1, <2>2, <3>1, <3>2
  <2>4. f \in first /\ Alike(f, i)
    BY <1>10, <2>2, <2>3
  <2>5. ASSUME NEW g \in first, Alike(g, i)
        PROVE  g = f
    <3>1. g \in same
      BY <1>1, <2>5
    <3>2. Alike(f, g)
      BY <1>8, <2>2, <2>5, <3>1
    <3>3. f <= g /\ ~ f < g
      BY <1>1, <1>9, <2>2, <3>1, <3>2
    <3>4. QED BY <1>1, <2>2, <3>1, <3>3
  <2>6. QED BY <2>4, <2>5
<1>12. DOMAIN d = 1 .. n /\ \A k \in 1 .. n : d[k] = kept[places[k]]
  BY <1>3
<1>13. IsSequence(d)
  <2>1. Len(d) = n
    BY <1>2, <1>3
  <2>2. QED BY <1>2, <1>3, <2>1 DEF IsSequence
<1>14. \A k \in DOMAIN d : \E i \in DOMAIN kept : d[k] = kept[i]
  BY <1>1, <1>6, <1>12
<1>15. ASSUME NEW i \in DOMAIN kept
       PROVE  \E k \in DOMAIN d : /\ CompareRows(d[k][1], kept[i][1]) = 0
                                  /\ \A l \in DOMAIN d : CompareRows(d[l][1], kept[i][1]) = 0 => l = k
  <2>1. PICK f \in first : Alike(f, i) /\ \A g \in first : Alike(g, i) => g = f
    BY <1>11
  <2>2. PICK k \in 1 .. n : places[k] = f
    BY <1>6, <2>1
  <2>3. \A l \in 1 .. n : CompareRows(d[l][1], kept[i][1]) = 0 <=> Alike(places[l], i)
    BY <1>12 DEF Alike
  <2>4. QED BY <1>6, <1>12, <2>1, <2>2, <2>3
<1>16. QED BY <1>13, <1>14, <1>15 DEF d, OneOfEach

-----------------------------------------------------------------------------
(* The steps of a projection                                                *)

LEMMA SequencedOf ==
  ASSUME NEW f, DOMAIN f \in SUBSET Nat
  PROVE  /\ IsRefused(Sequenced(f)) <=> \E i \in DOMAIN f : IsRefused(f[i])
         /\ ~ IsRefused(Sequenced(f)) => Sequenced(f) = Yes([i \in DOMAIN f |-> f[i][2]])
<1> DEFINE bad == {i \in DOMAIN f : IsRefused(f[i])}
<1>1. CASE bad = {}
  BY <1>1 DEF Sequenced, IsRefused, Yes
<1>2. CASE bad # {}
  <2>1. Min(bad) \in bad
    BY <1>2, MinIsLeast
  <2>2. Sequenced(f) = f[Min(bad)]
    BY <1>2 DEF Sequenced
  <2>3. QED BY <2>1, <2>2
<1>3. QED BY <1>1, <1>2

LEMMA ProjectionSteps ==
  ASSUME NEW x, NEW p, NEW bindings, NEW kept, kept = Selected(x, p.items, p.predicate, bindings),
         NEW sorted, sorted = Ordered(x, p.order_by, Deduplicated(p.distinct, kept[2])),
         NEW skip, skip = non_negative(x, p.skip, 0),
         NEW limit, limit = non_negative(x, p.limit, Len(sorted[2]))
  PROVE  apply_projection(x, p, bindings) =
           IF IsRefused(kept) THEN kept
           ELSE IF IsRefused(sorted) THEN sorted
           ELSE IF IsRefused(skip) THEN skip
           ELSE IF IsRefused(limit) THEN limit
           ELSE Yes(Window([i \in DOMAIN sorted[2] |-> sorted[2][i][1]], skip[2], limit[2]))
BY DEF apply_projection, Bind

LEMMA RefusedSteps ==
  ASSUME NEW x, NEW p, NEW bindings, ~ IsRefused(apply_projection(x, p, bindings))
  PROVE  /\ ~ IsRefused(Selected(x, p.items, p.predicate, bindings))
         /\ ~ IsRefused(Ordered(x, p.order_by,
              Deduplicated(p.distinct, Selected(x, p.items, p.predicate, bindings)[2])))
BY DEF apply_projection, Bind

LEMMA CountedOf ==
  ASSUME NEW x, NEW amount, NEW absent \in Nat
  PROVE  /\ ~ IsRefused(non_negative(x, amount, absent)) => non_negative(x, amount, absent)[2] \in Nat
         /\ amount = << >> => non_negative(x, amount, absent) = Yes(absent)
<1>1. CASE amount = << >>
  BY <1>1 DEF non_negative, Yes
<1>2. CASE amount # << >>
  <2> DEFINE v == Evaluate(x, amount[1], EmptyRow)
  <2>1. CASE IsRefused(v)
    BY <1>2, <2>1 DEF non_negative, Bind
  <2>2. CASE ~ IsRefused(v) /\ v[2][1] = "integer" /\ v[2][2] \in Nat
    BY <1>2, <2>2 DEF non_negative, Bind, Yes
  <2>3. CASE ~ IsRefused(v) /\ ~ (v[2][1] = "integer" /\ v[2][2] \in Nat)
    <3>1. non_negative(x, amount, absent) = Refuse(Semantic)
      BY <1>2, <2>3 DEF non_negative, Bind
    <3>2. QED BY <1>2, <3>1 DEF Refuse, IsRefused
  <2>4. QED BY <2>1, <2>2, <2>3
<1>3. QED BY <1>1, <1>2

LEMMA MinMaxOfTwo ==
  ASSUME NEW m \in Int, NEW n \in Int
  PROVE  /\ Min({m, n}) = IF m <= n THEN m ELSE n
         /\ Max({m, n}) = IF m <= n THEN n ELSE m
BY DEF Min, Max

LEMMA SubSeqOf ==
  ASSUME NEW all, IsSequence(all), NEW a \in Int, NEW b \in Int, NEW n \in Int, n = b - a + 1
  PROVE  /\ DOMAIN SubSeq(all, a, b) = 1 .. n
         /\ SubSeq(all, a, b) = [i \in 1 .. n |-> SubSeq(all, a, b)[i]]
         /\ \A i \in 1 .. n : SubSeq(all, a, b)[i] = all[i + a - 1]
<1>1. all \in Seq({all[i] : i \in 1 .. Len(all)})
  BY DEF IsSequence
<1>2. SubSeq(all, a, b) = [i \in 1 .. (1 + b - a) |-> all[i + a - 1]]
  BY <1>1
<1>3. 1 + b - a = n
  OBVIOUS
<1>4. QED BY <1>2, <1>3

LEMMA BoundsOfSlice ==
  ASSUME NEW n \in Nat, NEW skip \in Nat, NEW limit \in Nat
  PROVE  LET last == Min({skip + limit, n})
             size == Max({0, Min({limit, n - skip})})
         IN  last \in Nat /\ size \in Nat /\ (IF last >= skip THEN size = last - skip ELSE size = 0)
<1> DEFINE last == Min({skip + limit, n})
           least == Min({limit, n - skip})
           size == Max({0, least})
<1>1. last = IF skip + limit <= n THEN skip + limit ELSE n
  BY MinMaxOfTwo
<1>2. least = IF limit <= n - skip THEN limit ELSE n - skip
  BY MinMaxOfTwo
<1>3. least \in Int
  BY <1>2
<1> HIDE DEF least
<1>4. size = IF 0 <= least THEN least ELSE 0
  BY <1>3, MinMaxOfTwo
<1> HIDE DEF last, size
<1>5. last \in Nat /\ size \in Nat /\ (IF last >= skip THEN size = last - skip ELSE size = 0)
  BY <1>1, <1>2, <1>3, <1>4
<1>6. QED BY <1>5 DEF last, size, least

\* A window is a slice, and the window of everything is everything.
LEMMA WindowIsSlice ==
  ASSUME NEW all, IsSequence(all), NEW skip \in Nat, NEW limit \in Nat
  PROVE  /\ IsSlice(Window(all, skip, limit), all, skip, limit)
         /\ Window(all, 0, Len(all)) = all
<1>1. Len(all) \in Nat /\ DOMAIN all = 1 .. Len(all) /\ all = [i \in 1 .. Len(all) |-> all[i]]
  BY DEF IsSequence
<1>2. Window(all, 0, Len(all)) = all
  <2>1. PICK n \in Nat : n = Len(all)
    BY <1>1
  <2>2. Min({0 + n, n}) = n
    BY MinMaxOfTwo
  <2>3. Window(all, 0, Len(all)) = SubSeq(all, 0 + 1, Min({0 + n, n}))
    BY <2>1 DEF Window
  <2>4. 0 + 1 = 1
    OBVIOUS
  <2>5. Window(all, 0, Len(all)) = SubSeq(all, 1, n)
    BY <2>2, <2>3, <2>4
  <2>6. /\ SubSeq(all, 1, n) = [i \in 1 .. n |-> SubSeq(all, 1, n)[i]]
        /\ \A i \in 1 .. n : SubSeq(all, 1, n)[i] = all[i + 1 - 1]
    BY <2>1, SubSeqOf
  <2>7. \A i \in 1 .. n : i + 1 - 1 = i
    OBVIOUS
  <2>8. SubSeq(all, 1, n) = [i \in 1 .. n |-> all[i]]
    BY <2>6, <2>7
  <2>9. QED BY <1>1, <2>1, <2>5, <2>8
<1>3. IsSlice(Window(all, skip, limit), all, skip, limit)
  <2> DEFINE last == Min({skip + limit, Len(all)})
             size == Max({0, Min({limit, Len(all) - skip})})
             window == SubSeq(all, skip + 1, last)
  <2>1. last \in Nat /\ size \in Nat /\ (IF last >= skip THEN size = last - skip ELSE size = 0)
    BY <1>1, BoundsOfSlice
  <2>2. window = Window(all, skip, limit)
    BY DEF Window
  <2> HIDE DEF last, size
  <2>3. last - skip \in Int /\ last - skip = last - (skip + 1) + 1
    BY <2>1
  <2>4. /\ window = [i \in 1 .. (last - skip) |-> window[i]]
        /\ \A i \in 1 .. (last - skip) : window[i] = all[i + (skip + 1) - 1]
    BY <2>1, <2>3, SubSeqOf
  <2> HIDE DEF window
  <2>5. 1 .. (last - skip) = 1 .. size
    BY <2>1
  <2>6. \A i \in 1 .. size : i + (skip + 1) - 1 = i + skip
    BY <2>1
  <2>7. window = [i \in 1 .. size |-> all[i + skip]]
    BY <2>4, <2>5, <2>6
  <2>8. QED BY <2>2, <2>7 DEF IsSlice, size
<1>4. QED BY <1>2, <1>3

\* What sort keys are worth for some rows.
KeysIn(x, order_by, found, values) ==
  \A i \in DOMAIN found : \A k \in DOMAIN order_by :
    LET v == Evaluate(x, order_by[k].expression, found[i][2]) IN IsRefused(v) \/ v[2] \in values

\* The rows at the places of f are in the order of the keys of their scopes.
SortedAs(x, order_by, found, f) ==
  \A k, l \in 1 .. Len(found) : k < l =>
    InOrder(order_by, ValuesIn(x, ExpressionsOf(order_by), found[f[k]][2])[2],
            ValuesIn(x, ExpressionsOf(order_by), found[f[l]][2])[2])

\* A sort orders the rows it is given, and without a key it is never refused.
LEMMA OrderedRows ==
  ASSUME NEW values, Ranks(values), NEW x, NEW order_by, IsSequence(order_by), NEW found, IsSequence(found),
         KeysIn(x, order_by, found, values)
  PROVE  /\ ~ IsRefused(Ordered(x, order_by, found)) =>
              \E f : /\ Permutes(f, Len(found)) /\ Ordered(x, order_by, found) = Yes(Rearranged(found, f))
                    /\ SortedAs(x, order_by, found, f)
         /\ order_by = << >> => ~ IsRefused(Ordered(x, order_by, found))
<1> DEFINE n == Len(found)
           Key(i) == [k \in DOMAIN order_by |-> Evaluate(x, order_by[k].expression, found[i][2])]
           keys == [i \in DOMAIN found |-> Sequenced(Key(i))]
<1>1. n \in Nat /\ DOMAIN found = 1 .. n /\ Len(order_by) \in Nat /\ DOMAIN order_by = 1 .. Len(order_by)
  BY IsSeq
<1>2. \A i \in DOMAIN found : ValuesIn(x, ExpressionsOf(order_by), found[i][2]) = Sequenced(Key(i))
  BY DEF ValuesIn, ExpressionsOf, Each
<1>3. SortKeys(x, order_by, found) = Sequenced(keys)
  BY <1>2 DEF SortKeys, Each
<1>4. ASSUME NEW i \in DOMAIN found
      PROVE  /\ IsRefused(Sequenced(Key(i))) <=> \E k \in DOMAIN order_by : IsRefused(Key(i)[k])
             /\ ~ IsRefused(Sequenced(Key(i))) =>
                  Sequenced(Key(i))[2] \in Seq(values) /\ Len(Sequenced(Key(i))[2]) = Len(order_by)
  <2>1. DOMAIN Key(i) = DOMAIN order_by /\ DOMAIN Key(i) \in SUBSET Nat
    BY <1>1
  <2>2. /\ IsRefused(Sequenced(Key(i))) <=> \E k \in DOMAIN order_by : IsRefused(Key(i)[k])
        /\ ~ IsRefused(Sequenced(Key(i))) => Sequenced(Key(i)) = Yes([k \in DOMAIN order_by |-> Key(i)[k][2]])
    BY <2>1, SequencedOf
  <2>3. \A k \in DOMAIN order_by : IsRefused(Key(i)[k]) \/ Key(i)[k][2] \in values
    BY DEF KeysIn
  <2> HIDE DEF Key
  <2>4. ASSUME ~ IsRefused(Sequenced(Key(i)))
        PROVE  Sequenced(Key(i))[2] \in Seq(values) /\ Len(Sequenced(Key(i))[2]) = Len(order_by)
    <3>1. \A k \in 1 .. Len(order_by) : Key(i)[k][2] \in values
      BY <1>1, <2>2, <2>3, <2>4
    <3>2. Sequenced(Key(i))[2] = [k \in 1 .. Len(order_by) |-> Key(i)[k][2]]
      BY <1>1, <2>2, <2>4 DEF Yes
    <3>3. /\ [k \in 1 .. Len(order_by) |-> Key(i)[k][2]] \in Seq(values)
          /\ Len([k \in 1 .. Len(order_by) |-> Key(i)[k][2]]) = Len(order_by)
      BY <1>1, <3>1
    <3>4. QED BY <3>2, <3>3
  <2>5. QED BY <2>2, <2>4
<1>5. /\ IsRefused(Sequenced(keys)) <=> \E i \in DOMAIN found : IsRefused(keys[i])
      /\ ~ IsRefused(Sequenced(keys)) => Sequenced(keys) = Yes([i \in DOMAIN found |-> keys[i][2]])
  <2>1. DOMAIN keys = DOMAIN found /\ DOMAIN keys \in SUBSET Nat
    BY <1>1
  <2> HIDE DEF keys
  <2>2. QED BY <2>1, SequencedOf
<1>6. Ordered(x, order_by, found) =
        IF IsRefused(Sequenced(keys)) THEN Sequenced(keys)
        ELSE Yes(ByKeys(found, Sequenced(keys)[2], order_by))
  BY <1>3 DEF Ordered, Bind, ByKeys
<1>7. ASSUME ~ IsRefused(Ordered(x, order_by, found))
      PROVE  \E f : /\ Permutes(f, n) /\ Ordered(x, order_by, found) = Yes(Rearranged(found, f))
                   /\ SortedAs(x, order_by, found, f)
  <2> DEFINE all == Sequenced(keys)[2]
  <2>1. ~ IsRefused(Sequenced(keys))
    BY <1>6, <1>7
  <2>2. ASSUME NEW i \in DOMAIN found
        PROVE  /\ all[i] \in Seq(values) /\ Len(all[i]) = Len(order_by)
               /\ all[i] = ValuesIn(x, ExpressionsOf(order_by), found[i][2])[2]
    <3>1. keys[i] = Sequenced(Key(i))
      OBVIOUS
    <3> HIDE DEF keys, Key
    <3>2. ~ IsRefused(keys[i]) /\ all[i] = keys[i][2]
      BY <1>5, <2>1 DEF Yes
    <3>3. QED BY <1>2, <1>4, <3>1, <3>2
  <2> HIDE DEF all, keys
  <2> HIDE DEF Key
  <2>3. AreKeys(all, found, values)
    BY <2>2 DEF AreKeys
  <2>4. PICK f : /\ Permutes(f, n) /\ ByKeys(found, all, order_by) = Rearranged(found, f)
                 /\ Ascend(order_by, all, f, n)
    BY <2>3, SortingPermutes
  <2>5. SortedAs(x, order_by, found, f)
    <3> SUFFICES ASSUME NEW k \in 1 .. n, NEW l \in 1 .. n, k < l
                 PROVE  InOrder(order_by, ValuesIn(x, ExpressionsOf(order_by), found[f[k]][2])[2],
                                ValuesIn(x, ExpressionsOf(order_by), found[f[l]][2])[2])
      BY DEF SortedAs
    <3>1. f[k] \in DOMAIN found /\ f[l] \in DOMAIN found
      BY <1>1, <2>4 DEF Permutes
    <3>2. CompareKeys(order_by, all[f[k]], all[f[l]]) <= 0
      BY <2>4 DEF Ascend
    <3>3. InOrder(order_by, all[f[k]], all[f[l]])
      BY <2>2, <3>1, <3>2, KeysInOrder
    <3>4. QED BY <2>2, <3>1, <3>3
  <2>6. QED BY <1>6, <2>1, <2>4, <2>5 DEF all
<1>8. ASSUME order_by = << >>
      PROVE  ~ IsRefused(Ordered(x, order_by, found))
  <2>1. DOMAIN order_by = {}
    BY <1>8
  <2>2. \A i \in DOMAIN found : ~ IsRefused(keys[i])
    BY <1>4, <2>1
  <2> HIDE DEF keys
  <2>3. ~ IsRefused(Sequenced(keys))
    BY <1>5, <2>2
  <2>4. QED BY <1>6, <2>3 DEF IsRefused, Yes
<1>9. QED BY <1>7, <1>8

Times(n, s, v) == Cardinality({k \in 1 .. n : s[k] = v})

\* Whatever the order, each row is there as often.
LEMMA PermutedCount ==
  ASSUME NEW n \in Nat, NEW f, Permutes(f, n), NEW a, NEW b,
         \A k \in 1 .. n : b[k] = a[f[k]], NEW v
  PROVE  Times(n, b, v) = Times(n, a, v)
<1> DEFINE B == {k \in 1 .. n : b[k] = v}
           A == {i \in 1 .. n : a[i] = v}
           g == [k \in B |-> f[k]]
<1>1. IsFiniteSet(B) /\ IsFiniteSet(A)
  <2>1. B \in SUBSET (1 .. n) /\ A \in SUBSET (1 .. n)
    OBVIOUS
  <2> HIDE DEF A, B, g
  <2>2. IsFiniteSet(1 .. n) /\ Cardinality(1 .. n) = IF 1 > n THEN 0 ELSE n - 1 + 1
    BY FS_Interval
  <2>3. QED BY <2>1, <2>2, FS_Subset
<1>2. g \in Bijection(B, A)
  <2>1. g \in [B -> A] /\ \A k, l \in B : g[k] = g[l] => k = l
    BY DEF Permutes
  <2>2. \A i \in A : \E k \in B : g[k] = i
    BY DEF Permutes
  <2> HIDE DEF A, B, g
  <2>3. QED BY <2>1, <2>2 DEF Bijection, Injection, IsInjective, Surjection
<1> HIDE DEF A, B, g
<1>3. Cardinality(B) = Cardinality(A)
  BY <1>1, <1>2, FS_Bijection DEF ExistsBijection
<1>4. QED BY <1>3 DEF A, B, Times

-----------------------------------------------------------------------------
(* A page                                                                   *)

\* The rows of a projection without their scopes.
RowsOf(found) == [i \in DOMAIN found |-> found[i][1]]

\* The rows of what was found, in another order.
AreFirsts(all, found, f) ==
  /\ Permutes(f, Len(found))
  /\ IsSequence(all) /\ Len(all) = Len(found)
  /\ \A k \in 1 .. Len(found) : all[k] = found[f[k]][1]

LEMMA RowsOfRearranged ==
  ASSUME NEW found, IsSequence(found), NEW f, Permutes(f, Len(found))
  PROVE  /\ AreFirsts(RowsOf(Rearranged(found, f)), found, f)
         /\ Len(Rearranged(found, f)) = Len(found)
<1> DEFINE all == RowsOf(Rearranged(found, f))
<1>1. Len(found) \in Nat
  BY IsSeq
<1>2. all = [k \in 1 .. Len(found) |-> found[f[k]][1]]
  BY DEF RowsOf, Rearranged
<1>3. Len(all) = Len(found)
  BY <1>1, <1>2
<1>4. IsSequence(all)
  BY <1>1, <1>2, <1>3 DEF IsSequence
<1>5. Len(Rearranged(found, f)) = Len(found)
  BY <1>1 DEF Rearranged
<1> HIDE DEF all
<1>6. QED BY <1>2, <1>3, <1>4, <1>5 DEF all, AreFirsts

\* What a projection makes of the rows it found.
Pages(x, p, found, outcome, f) ==
  LET skip == non_negative(x, p.skip, 0)[2]
      limit == non_negative(x, p.limit, Len(found))[2]
  IN  /\ Permutes(f, Len(found)) /\ skip \in Nat /\ limit \in Nat
      /\ Ordered(x, p.order_by, found)[2] = Rearranged(found, f) /\ SortedAs(x, p.order_by, found, f)
      /\ outcome = Yes(Window(RowsOf(Rearranged(found, f)), skip, limit))

LEMMA ProjectionLeaves ==
  ASSUME NEW values, Ranks(values), NEW x, NEW p, IsSequence(p.order_by), NEW bindings,
         NEW kept, kept = Selected(x, p.items, p.predicate, bindings), ~ IsRefused(kept),
         NEW found, found = Deduplicated(p.distinct, kept[2]), IsSequence(found),
         KeysIn(x, p.order_by, found, values),
         \/ ~ IsRefused(apply_projection(x, p, bindings))
         \/ ~ IsRefused(Ordered(x, p.order_by, found)) /\ p.skip = << >> /\ p.limit = << >>
  PROVE  \E f : Pages(x, p, found, apply_projection(x, p, bindings), f)
<1> DEFINE sorted == Ordered(x, p.order_by, Deduplicated(p.distinct, kept[2]))
           skip == non_negative(x, p.skip, 0)
           limit == non_negative(x, p.limit, Len(sorted[2]))
<1>1. apply_projection(x, p, bindings) =
           IF IsRefused(kept) THEN kept
           ELSE IF IsRefused(sorted) THEN sorted
           ELSE IF IsRefused(skip) THEN skip
           ELSE IF IsRefused(limit) THEN limit
           ELSE Yes(Window([i \in DOMAIN sorted[2] |-> sorted[2][i][1]], skip[2], limit[2]))
  BY ProjectionSteps
<1> HIDE DEF skip, limit
<1>2. ~ IsRefused(sorted)
  BY <1>1
<1>3. PICK f : /\ Permutes(f, Len(found)) /\ sorted = Yes(Rearranged(found, f))
               /\ SortedAs(x, p.order_by, found, f)
  BY <1>2, OrderedRows
<1> HIDE DEF sorted
<1>4. sorted[2] = Rearranged(found, f)
  BY <1>3 DEF Yes
<1>5. Len(sorted[2]) = Len(found) /\ Len(found) \in Nat
  BY <1>3, <1>4, RowsOfRearranged, IsSeq
<1>6. ~ IsRefused(skip) /\ ~ IsRefused(limit)
  <2>1. CASE ~ IsRefused(apply_projection(x, p, bindings))
    BY <1>1, <1>2, <2>1
  <2>2. CASE p.skip = << >> /\ p.limit = << >>
    <3>1. skip = Yes(0) /\ limit = Yes(Len(sorted[2]))
      BY <1>5, <2>2, CountedOf DEF skip, limit
    <3>2. QED BY <3>1 DEF IsRefused, Yes
  <2>3. QED BY <2>1, <2>2
<1>7. skip[2] \in Nat /\ limit[2] \in Nat
  BY <1>5, <1>6, CountedOf DEF skip, limit
<1>8. limit = non_negative(x, p.limit, Len(found))
  BY <1>5 DEF limit
<1>9. apply_projection(x, p, bindings) = Yes(Window(RowsOf(Rearranged(found, f)), skip[2], limit[2]))
  BY <1>1, <1>2, <1>4, <1>6 DEF RowsOf
<1>10. Ordered(x, p.order_by, found)[2] = Rearranged(found, f)
  BY <1>4 DEF sorted
<1>11. Pages(x, p, found, apply_projection(x, p, bindings), f)
  BY <1>3, <1>7, <1>8, <1>9, <1>10 DEF skip, Pages
<1>12. QED BY <1>11

LEMMA WholeIsPermuted ==
  ASSUME NEW kept, IsSequence(kept), NEW whole, NEW plain,
         NEW f, AreFirsts(whole, kept, f), NEW g, AreFirsts(plain, kept, g)
  PROVE  HasEach(whole, plain)
<1> DEFINE n == Len(kept)
           a == [i \in 1 .. n |-> kept[i][1]]
<1>1. n \in Nat /\ DOMAIN whole = 1 .. n /\ DOMAIN plain = 1 .. n /\ Permutes(f, n) /\ Permutes(g, n)
  BY IsSeq DEF AreFirsts
<1>2. (\A k \in 1 .. n : whole[k] = a[f[k]]) /\ (\A k \in 1 .. n : plain[k] = a[g[k]])
  BY DEF AreFirsts, Permutes
<1> HIDE DEF a, n
<1>3. ASSUME NEW v
      PROVE  Times(n, whole, v) = Times(n, plain, v)
  <2>1. Times(n, whole, v) = Times(n, a, v)
    BY <1>1, <1>2, PermutedCount
  <2>2. Times(n, plain, v) = Times(n, a, v)
    BY <1>1, <1>2, PermutedCount
  <2>3. QED BY <2>1, <2>2
<1>4. QED BY <1>1, <1>3 DEF HasEach, Times

LEMMA WholeHasFirsts ==
  ASSUME NEW kept, IsSequence(kept), NEW d, OneOfEach(d, kept), NEW whole, NEW plain,
         NEW f, AreFirsts(whole, d, f), NEW g, AreFirsts(plain, kept, g)
  PROVE  HasEachOnce(whole, plain)
<1>1. /\ DOMAIN d = 1 .. Len(d) /\ DOMAIN kept = 1 .. Len(kept)
      /\ DOMAIN whole = 1 .. Len(d) /\ DOMAIN plain = 1 .. Len(kept)
  BY IsSeq DEF OneOfEach, AreFirsts
<1>2. ASSUME NEW i \in DOMAIN plain
      PROVE  Cardinality({j \in DOMAIN whole : CompareRows(whole[j], plain[i]) = 0}) = 1
  <2>1. g[i] \in DOMAIN kept /\ plain[i] = kept[g[i]][1]
    BY <1>1 DEF Permutes, AreFirsts
  <2>2. PICK k \in DOMAIN d : /\ CompareRows(d[k][1], plain[i]) = 0
                              /\ \A l \in DOMAIN d : CompareRows(d[l][1], plain[i]) = 0 => l = k
    BY <2>1 DEF OneOfEach
  <2>3. PICK j \in 1 .. Len(d) : f[j] = k
    BY <1>1, <2>2 DEF Permutes, AreFirsts
  <2>4. \A l \in 1 .. Len(d) : f[l] \in DOMAIN d /\ whole[l] = d[f[l]][1] /\ (f[l] = k => l = j)
    BY <1>1, <2>3 DEF Permutes, AreFirsts
  <2>5. {l \in DOMAIN whole : CompareRows(whole[l], plain[i]) = 0} = {j}
    <3>1. \A l \in 1 .. Len(d) : CompareRows(whole[l], plain[i]) = 0 => l = j
      BY <2>2, <2>4
    <3>2. CompareRows(whole[j], plain[i]) = 0
      BY <2>2, <2>3, <2>4
    <3>3. QED BY <1>1, <3>1, <3>2
  <2>6. Cardinality({j}) = 1
    BY FS_Singleton
  <2>7. QED BY <2>5, <2>6
<1>3. QED BY <1>2 DEF HasEachOnce

LEMMA WholeIsOfPlain ==
  ASSUME NEW kept, IsSequence(kept), NEW found, IsSequence(found),
         \A k \in DOMAIN found : \E i \in DOMAIN kept : found[k] = kept[i],
         NEW whole, NEW plain, NEW f, AreFirsts(whole, found, f), NEW g, AreFirsts(plain, kept, g)
  PROVE  ToSet(whole) \subseteq ToSet(plain)
<1> SUFFICES ASSUME NEW k \in DOMAIN whole PROVE \E l \in DOMAIN plain : plain[l] = whole[k]
  BY DEF ToSet
<1>1. /\ DOMAIN found = 1 .. Len(found) /\ DOMAIN kept = 1 .. Len(kept)
      /\ DOMAIN whole = 1 .. Len(found) /\ DOMAIN plain = 1 .. Len(kept)
  BY IsSeq DEF AreFirsts
<1>2. f[k] \in DOMAIN found /\ whole[k] = found[f[k]][1]
  BY <1>1 DEF Permutes, AreFirsts
<1>3. PICK i \in DOMAIN kept : found[f[k]] = kept[i]
  BY <1>2
<1>4. PICK l \in 1 .. Len(kept) : g[l] = i
  BY <1>1, <1>3 DEF Permutes, AreFirsts
<1>5. plain[l] = kept[g[l]][1]
  BY <1>4 DEF AreFirsts
<1>6. QED BY <1>1, <1>2, <1>3, <1>4, <1>5

LEMMA PageOf ==
  ASSUME NEW p, IsProjection(p), ~ IsRefused(Applied(p)),
         AreRows(Chosen(p)), Ranks(ValuesMet(p, Chosen(p)))
  PROVE  IsPage(p, Applied(p)[2], Applied(Unpaged(p))[2],
                Applied([Unpaged(p) EXCEPT !.distinct = FALSE, !.order_by = << >>])[2])
<1> DEFINE x == Reader(root)
           selected == Selected(x, p.items, p.predicate, rows)
           kept == Chosen(p)
           V == ValuesMet(p, kept)
           found == Deduplicated(p.distinct, kept)
           q == Unpaged(p)
           r == [q EXCEPT !.distinct = FALSE, !.order_by = << >>]
<1>1. /\ p.distinct \in BOOLEAN /\ IsSequence(p.order_by)
      /\ q.items = p.items /\ q.predicate = p.predicate /\ q.distinct = p.distinct
      /\ q.order_by = p.order_by /\ q.skip = << >> /\ q.limit = << >>
      /\ r.items = p.items /\ r.predicate = p.predicate /\ r.distinct = FALSE
      /\ r.order_by = << >> /\ r.skip = << >> /\ r.limit = << >>
  BY DEF IsProjection, Unpaged
<1>2. selected[2] = kept /\ IsSequence(kept) /\ DOMAIN kept = 1 .. Len(kept) /\ Len(kept) \in Nat
  BY IsSeq DEF Chosen, AreRows
<1>3. ~ IsRefused(selected) /\ ~ IsRefused(Ordered(x, p.order_by, found))
  BY <1>2, RefusedSteps DEF Applied
<1>4. RowsIn(kept, V)
  <2> SUFFICES ASSUME NEW i \in DOMAIN kept PROVE kept[i][1] \in Seq(V)
    BY <1>2 DEF RowsIn
  <2>1. IsSequence(kept[i][1])
    BY DEF AreRows
  <2>2. \A k \in DOMAIN kept[i][1] : kept[i][1][k] \in V
    BY DEF ValuesMet, ToSet
  <2> HIDE DEF V, kept
  <2>3. QED BY <2>1, <2>2 DEF IsSequence
<1>5. KeysIn(x, p.order_by, kept, V)
  <2> SUFFICES ASSUME NEW i \in DOMAIN kept, NEW k \in DOMAIN p.order_by,
                      ~ IsRefused(Evaluate(x, p.order_by[k].expression, kept[i][2]))
               PROVE  Evaluate(x, p.order_by[k].expression, kept[i][2])[2] \in V
    BY DEF KeysIn
  <2>1. QED BY DEF ValuesMet
<1>6. Ranks(V)
  OBVIOUS
<1> HIDE DEF V, kept, x
<1>7. /\ p.distinct => found = ByRow(kept)
      /\ ~ p.distinct => found = kept
  BY DEF Deduplicated, ByRow
<1> HIDE DEF selected, found, q, r
<1>8. OneOfEach(ByRow(kept), kept)
  BY <1>4, <1>6, FirstOfEach
<1>9. IsSequence(found) /\ \A k \in DOMAIN found : \E i \in DOMAIN kept : found[k] = kept[i]
  <2>1. CASE p.distinct
    BY <1>7, <1>8, <2>1 DEF OneOfEach
  <2>2. CASE ~ p.distinct
    BY <1>2, <1>7, <2>2
  <2>3. QED BY <2>1, <2>2
<1>10. KeysIn(x, p.order_by, found, V)
  BY <1>5, <1>9 DEF KeysIn
<1>11. PICK f : Pages(x, p, found, Applied(p), f)
  <2>1. ~ IsRefused(apply_projection(x, p, rows)) /\ Applied(p) = apply_projection(x, p, rows)
    BY DEF Applied, x
  <2>2. selected = Selected(x, p.items, p.predicate, rows) /\ found = Deduplicated(p.distinct, selected[2])
    BY <1>2 DEF selected, found
  <2>3. \E f : Pages(x, p, found, apply_projection(x, p, rows), f)
    BY <1>1, <1>3, <1>6, <1>9, <1>10, <2>1, <2>2, ProjectionLeaves
  <2>4. QED BY <2>1, <2>3
<1>12. /\ AreFirsts(RowsOf(Rearranged(found, f)), found, f)
       /\ Applied(q) = Yes(RowsOf(Rearranged(found, f)))
  <2>1. ~ IsRefused(Ordered(x, q.order_by, found))
    BY <1>1, <1>3
  <2>2. selected = Selected(x, q.items, q.predicate, rows) /\ found = Deduplicated(q.distinct, selected[2])
    BY <1>1, <1>2 DEF selected, found
  <2>3. IsSequence(q.order_by) /\ KeysIn(x, q.order_by, found, V)
    BY <1>1, <1>10
  <2>4. PICK g : Pages(x, q, found, apply_projection(x, q, rows), g)
    BY <1>1, <1>3, <1>6, <1>9, <2>1, <2>2, <2>3, ProjectionLeaves
  <2>5. Rearranged(found, g) = Rearranged(found, f)
    BY <1>1, <1>11, <2>4 DEF Pages
  <2>6. Len(found) \in Nat
    BY <1>9, IsSeq
  <2>7. non_negative(x, q.skip, 0)[2] = 0 /\ non_negative(x, q.limit, Len(found))[2] = Len(found)
    BY <1>1, <2>6, CountedOf DEF Yes
  <2>8. AreFirsts(RowsOf(Rearranged(found, f)), found, f)
    BY <1>9, <1>11, RowsOfRearranged DEF Pages
  <2>9. Window(RowsOf(Rearranged(found, f)), 0, Len(found)) = RowsOf(Rearranged(found, f))
    BY <2>8, WindowIsSlice DEF AreFirsts
  <2>10. apply_projection(x, q, rows) = Yes(Window(RowsOf(Rearranged(found, f)), 0, Len(found)))
    BY <2>4, <2>5, <2>7 DEF Pages
  <2>11. QED BY <2>8, <2>9, <2>10 DEF Applied, x
<1>13. PICK h : AreFirsts(RowsOf(Rearranged(kept, h)), kept, h) /\ Applied(r) = Yes(RowsOf(Rearranged(kept, h)))
  <2>1. IsSequence(r.order_by) /\ DOMAIN r.order_by = {}
    BY <1>1 DEF IsSequence
  <2>2. KeysIn(x, r.order_by, kept, V)
    BY <2>1 DEF KeysIn
  <2>3. ~ IsRefused(Ordered(x, r.order_by, kept))
    BY <1>1, <1>2, <1>6, <2>1, <2>2, OrderedRows
  <2>4. selected = Selected(x, r.items, r.predicate, rows) /\ kept = Deduplicated(r.distinct, selected[2])
    BY <1>1, <1>2 DEF selected, Deduplicated
  <2>5. PICK g : Pages(x, r, kept, apply_projection(x, r, rows), g)
    BY <1>1, <1>2, <1>3, <1>6, <2>1, <2>2, <2>3, <2>4, ProjectionLeaves
  <2>6. non_negative(x, r.skip, 0)[2] = 0 /\ non_negative(x, r.limit, Len(kept))[2] = Len(kept)
    BY <1>1, <1>2, CountedOf DEF Yes
  <2>7. AreFirsts(RowsOf(Rearranged(kept, g)), kept, g)
    BY <1>2, <2>5, RowsOfRearranged DEF Pages
  <2>8. Window(RowsOf(Rearranged(kept, g)), 0, Len(kept)) = RowsOf(Rearranged(kept, g))
    BY <2>7, WindowIsSlice DEF AreFirsts
  <2>9. apply_projection(x, r, rows) = Yes(Window(RowsOf(Rearranged(kept, g)), 0, Len(kept)))
    BY <2>5, <2>6 DEF Pages
  <2>10. QED BY <2>7, <2>8, <2>9 DEF Applied, x
<1> DEFINE page == Applied(p)[2]
           whole == Applied(q)[2]
           plain == Applied(r)[2]
<1>14. whole = RowsOf(Rearranged(found, f)) /\ AreFirsts(whole, found, f)
  BY <1>12 DEF Yes
<1>15. AreFirsts(plain, kept, h)
  BY <1>13 DEF Yes
<1>16. IsSlice(page, whole, Amount(p.skip, 0), Amount(p.limit, Len(whole)))
  <2>1. /\ page = Window(whole, Amount(p.skip, 0), Amount(p.limit, Len(whole)))
        /\ Amount(p.skip, 0) \in Nat /\ Amount(p.limit, Len(whole)) \in Nat
    BY <1>11, <1>14 DEF Yes, Amount, x, Pages, AreFirsts
  <2> HIDE DEF page, whole
  <2>2. QED BY <1>14, <2>1, WindowIsSlice DEF AreFirsts
<1> HIDE DEF page, whole, plain
<1>17. IsInOrder(p, whole, Arranged(p))
  <2> DEFINE arranged == Rearranged(found, f)
  <2>1. Arranged(p) = arranged /\ SortedAs(x, p.order_by, found, f) /\ Permutes(f, Len(found))
    BY <1>11 DEF Pages, Arranged, found, kept, x
  <2>2. /\ DOMAIN arranged = 1 .. Len(found) /\ DOMAIN found = 1 .. Len(found)
        /\ \A k \in 1 .. Len(found) : f[k] \in DOMAIN found /\ arranged[k] = found[f[k]]
    BY <1>9, <2>1, IsSeq DEF Rearranged, Permutes
  <2>3. whole = [k \in DOMAIN arranged |-> arranged[k][1]]
    BY <1>14 DEF RowsOf
  <2> HIDE DEF arranged
  <2>4. ToSet(arranged) \subseteq ToSet(Chosen(p))
    <3> SUFFICES ASSUME NEW k \in DOMAIN arranged PROVE \E i \in DOMAIN kept : kept[i] = arranged[k]
      BY DEF ToSet, kept
    <3>1. QED BY <1>9, <2>2
  <2>5. ASSUME NEW k \in DOMAIN arranged, NEW l \in DOMAIN arranged, k < l
        PROVE  InOrder(p.order_by, KeyRow(p, arranged[k]), KeyRow(p, arranged[l]))
    BY <2>1, <2>2, <2>5 DEF SortedAs, KeyRow, x
  <2>6. QED BY <2>1, <2>3, <2>4, <2>5 DEF IsInOrder
<1>18. ToSet(whole) \subseteq ToSet(plain)
  BY <1>2, <1>9, <1>14, <1>15, WholeIsOfPlain
<1>19. IF p.distinct THEN HasEachOnce(whole, plain) ELSE HasEach(whole, plain)
  <2>1. CASE p.distinct
    <3>1. found = ByRow(kept)
      BY <1>7, <2>1
    <3>2. HasEachOnce(whole, plain)
      BY <1>2, <1>8, <1>14, <1>15, <3>1, WholeHasFirsts
    <3>3. QED BY <2>1, <3>2
  <2>2. CASE ~ p.distinct
    <3>1. found = kept
      BY <1>7, <2>2
    <3>2. HasEach(whole, plain)
      BY <1>2, <1>14, <1>15, <3>1, WholeIsPermuted
    <3>3. QED BY <2>2, <3>2
  <2>3. QED BY <2>1, <2>2
<1>20. QED BY <1>16, <1>17, <1>18, <1>19 DEF IsPage, page, whole, plain, q, r

LEMMA ProjectingIsProjection ==
  ASSUME SessionInv, NEW p \in Projecting
  PROVE  IsProjection(p)
<1>1. Projecting # {} => Running
  BY DEF Projecting, Running
<1>2. query \in Queries /\ part \in 1 .. Len(query.parts)
  BY <1>1 DEF SessionInv, SessionTypes, Inside
<1>3. IsQuery(query) /\ part \in DOMAIN query.parts
  BY <1>2, QueryAssumption, IsSeq DEF IsQuery
<1>4. CASE stage = "clause" /\ Clause[1] = "with"
  <2>1. clause \in 1 .. Len(Part.clauses)
    BY <1>4 DEF SessionInv, SessionTypes, Inside
  <2>2. IsSequence(Part.clauses)
    BY <1>3 DEF IsQuery, Part
  <2>3. clause \in DOMAIN Part.clauses
    BY <2>1, <2>2, IsSeq
  <2>4. IsProjection(Clause[2])
    BY <1>3, <1>4, <2>3 DEF IsQuery, Part, Clause
  <2>5. QED BY <1>4, <2>4 DEF Projecting
<1>5. CASE ~ (stage = "clause" /\ Clause[1] = "with") /\ stage = "result"
  BY <1>3, <1>5 DEF Projecting, IsQuery, Part
<1>6. QED BY <1>4, <1>5 DEF Projecting

\* Wherever the values that a projection compares have one order, a page is a slice
\* of the whole result, and that is in the order asked for: no row is lost or told
\* twice, by the sort, by DISTINCT or at the edges of the page, and DISTINCT leaves
\* one of all that are alike.
THEOREM PagesAreSlices == QuerySpec /\ []ValuesHaveOneOrder => []PageIsSliceOfWhole
<1>1. SessionInv /\ ValuesHaveOneOrder => PageIsSliceOfWhole
  <2> SUFFICES ASSUME SessionInv, ValuesHaveOneOrder, NEW p \in Projecting, ~ IsRefused(Applied(p))
               PROVE  IsPage(p, Applied(p)[2], Applied(Unpaged(p))[2],
                             Applied([Unpaged(p) EXCEPT !.distinct = FALSE, !.order_by = << >>])[2])
    BY DEF PageIsSliceOfWhole
  <2>1. IsProjection(p)
    BY ProjectingIsProjection
  <2>2. ~ IsRefused(Selected(Reader(root), p.items, p.predicate, rows))
    BY DEF Applied, apply_projection, Bind
  <2>3. AreRows(Chosen(p)) /\ Ranks(ValuesMet(p, Chosen(p)))
    BY <2>2 DEF ValuesHaveOneOrder
  <2>4. QED BY <2>1, <2>3, PageOf
<1>2. QED BY <1>1, SessionStaysWhole, PTL

=============================================================================
