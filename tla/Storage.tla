------------------------------ MODULE Storage ------------------------------
(***************************************************************************)
(* src/storage.rs: one database file, the staged file and the journal      *)
(* beside it, and the processes that commit to it and recover it.          *)
(*                                                                         *)
(* Each action is one call to the filesystem, so another process, an I/O   *)
(* error or a crash can come between any two of them.  A process that      *)
(* crashes loses its memory; the three files stay as they are.             *)
(***************************************************************************)
EXTENDS Integers

CONSTANTS
  Process,        \* the processes that have the database file in common
  Payload,        \* what the sections of a container can hold
  MaxGeneration,  \* Generation's u64::MAX
  Faults,         \* which faults the environment may inject, see FaultKind
  Discipline,     \* which rules the callers keep, see Rule
  NoFile,         \* no file at that path
  Torn            \* a file that was created, but whose bytes are not all there

FaultKind == {"crash", "stage", "journal", "rename", "unlink"}

\* "recover_first": a process runs recover() before it opens the file.
\* "sole_writer": a process opens or recovers only while no other has it open.
\* "drop_after_error": a handle whose commit() returned Err is not used again.
Rule == {"recover_first", "sole_writer", "drop_after_error"}

Container == [gen : 1 .. MaxGeneration, payload : Payload]

File == Container \union {NoFile, Torn}

ASSUME StorageAssumption ==
  /\ MaxGeneration \in Nat \ {0}
  /\ Payload # {}
  /\ Faults \subseteq FaultKind
  /\ Discipline \subseteq Rule
  /\ NoFile # Torn
  /\ NoFile \notin Container
  /\ Torn \notin Container

VARIABLES
  db,       \* <path>
  staged,   \* <path>.staged
  journal,  \* <path>.journal: "none", "torn", or "durable" (ends in Commit)
  pc,       \* where each process is in commit() or recover()
  held,     \* the container in each process's Database value
  next,     \* the container each process's commit() has built
  out,      \* the file each process's open write handle reaches
  plan,     \* what each process's recover() read from the journal
  acked,    \* history: the last container a commit() returned Ok for
  intent    \* history: the last container whose promotion became durable intent

vars == <<db, staged, journal, pc, held, next, out, plan, acked, intent>>

files == <<db, staged, journal>>
memory == <<held, next, plan>>
history == <<acked, intent>>

CommitStep == {"staging", "staged", "journalled", "promoted"}
RecoverStep == {"recovering", "discarding", "forgetting"}
Step == {"closed", "recovered", "open"} \union CommitStep \union RecoverStep

\* Database::create wrote the file and its process has gone.
Init ==
  /\ db \in {c \in Container : c.gen = 1}
  /\ staged = NoFile
  /\ journal = "none"
  /\ pc = [p \in Process |-> "closed"]
  /\ held = [p \in Process |-> NoFile]
  /\ next = [p \in Process |-> NoFile]
  /\ out = [p \in Process |-> "none"]
  /\ plan = [p \in Process |-> "none"]
  /\ acked = NoFile
  /\ intent = db

Goto(p, step) == pc' = [pc EXCEPT ![p] = step]

\* Mutant: the last generation has a successor.
AdvancesPastTheEnd(g) == g <= MaxGeneration

\* Generation::next() refuses to wrap.
Advances(g) == g < MaxGeneration

\* Mutant: the next container keeps the generation.
SuccessorSameGeneration(c, v) == [gen |-> c.gen, payload |-> v]

\* The container that follows c.
Successor(c, v) == [gen |-> c.gen + 1, payload |-> v]

\* An open handle follows the inode: a rename over `db` carries the handles on
\* the staged file with it and unlinks the file the others were writing.
HandlesAfterRename ==
  [q \in Process |-> IF out[q] = "staged" THEN "db"
                    ELSE IF out[q] = "db" THEN "unlinked" ELSE out[q]]

HandlesAfterUnlink ==
  [q \in Process |-> IF out[q] = "staged" THEN "unlinked" ELSE out[q]]

Alone(p) ==
  "sole_writer" \in Discipline => \A q \in Process \ {p} : pc[q] = "closed"

-----------------------------------------------------------------------------
(* Opening and closing *)

\* Database::open neither looks at the journal nor calls recover().
Open(p) ==
  /\ \/ pc[p] = "recovered"
     \/ pc[p] = "closed" /\ "recover_first" \notin Discipline
  /\ Alone(p)
  /\ db \in Container
  /\ held' = [held EXCEPT ![p] = db]
  /\ Goto(p, "open")
  /\ UNCHANGED <<files, next, out, plan, history>>

Close(p) ==
  /\ pc[p] \in {"open", "recovered"}
  /\ Goto(p, "closed")
  /\ held' = [held EXCEPT ![p] = NoFile]
  /\ UNCHANGED <<files, next, out, plan, history>>

-----------------------------------------------------------------------------
(* Database::commit *)

\* The next container is numbered from the one in memory, never from the file.
\* File::create truncates whatever the staged path held.
StageCreate(p) ==
  /\ pc[p] = "open"
  /\ Advances(held[p].gen)
  /\ \E v \in Payload : next' = [next EXCEPT ![p] = Successor(held[p], v)]
  /\ staged' = Torn
  /\ out' = [out EXCEPT ![p] = "staged"]
  /\ Goto(p, "staging")
  /\ UNCHANGED <<db, journal, held, plan, history>>

\* write_all writes from offset 0 of the inode its handle holds: over bytes of
\* another writer the result is either this container or a mixture of the two.
Written(content, previous) ==
  IF previous = Torn THEN {content} ELSE {content, Torn}

StageWrite(p) ==
  /\ pc[p] = "staging"
  /\ IF out[p] = "staged"
     THEN staged' \in Written(next[p], staged)
     ELSE UNCHANGED staged
  /\ IF out[p] = "db" THEN db' \in Written(next[p], db) ELSE UNCHANGED db
  /\ out' = [out EXCEPT ![p] = "none"]
  /\ Goto(p, "staged")
  /\ UNCHANGED <<journal, memory, history>>

\* Mutant: the journal is made durable before the staged file is.
JournalWriteEarly(p) ==
  /\ pc[p] = "staging"
  /\ journal' = "durable"
  /\ intent' = next[p]
  /\ Goto(p, "journalled")
  /\ UNCHANGED <<db, staged, memory, out, acked>>

JournalWrite(p) ==
  /\ pc[p] = "staged"
  /\ journal' = "durable"
  /\ intent' = next[p]
  /\ Goto(p, "journalled")
  /\ UNCHANGED <<db, staged, memory, out, acked>>

Promote(p) ==
  /\ pc[p] = "journalled"
  /\ staged # NoFile
  /\ db' = staged
  /\ staged' = NoFile
  /\ out' = HandlesAfterRename
  /\ Goto(p, "promoted")
  /\ UNCHANGED <<journal, memory, history>>

\* Only after the journal is gone does the handle adopt what it committed.
Forget(p) ==
  /\ pc[p] = "promoted"
  /\ journal' = "none"
  /\ held' = [held EXCEPT ![p] = next[p]]
  /\ acked' = next[p]
  /\ Goto(p, "open")
  /\ UNCHANGED <<db, staged, next, out, plan, intent>>

\* A write that fails half way returns Err and leaves what it wrote.
TornJournal == {journal, "torn"}

\* Any of the four calls may fail, the rename also because another process has
\* moved or removed the staged file; commit() returns Err, and the handle stays
\* as it was for whoever goes on with it.
Fail(p) ==
  /\ \/ pc[p] = "staging" /\ "stage" \in Faults /\ UNCHANGED journal
     \/ pc[p] = "staged" /\ "journal" \in Faults /\ journal' \in TornJournal
     \/ /\ pc[p] = "journalled"
        /\ "rename" \in Faults \/ staged = NoFile
        /\ UNCHANGED journal
     \/ pc[p] = "promoted" /\ "unlink" \in Faults /\ UNCHANGED journal
  /\ out' = [out EXCEPT ![p] = "none"]
  /\ IF "drop_after_error" \in Discipline
     THEN Goto(p, "closed") /\ held' = [held EXCEPT ![p] = NoFile]
     ELSE Goto(p, "open") /\ UNCHANGED held
  /\ UNCHANGED <<db, staged, next, plan, history>>

-----------------------------------------------------------------------------
(* recover() *)

RecoverRead(p) ==
  /\ pc[p] = "closed"
  /\ Alone(p)
  /\ plan' = [plan EXCEPT ![p] = journal]
  /\ Goto(p, "recovering")
  /\ UNCHANGED <<files, held, next, out, history>>

\* Mutant: a promotion without a Commit record is finished too.
RecoverPromoteAny(p) ==
  /\ pc[p] = "recovering"
  /\ plan[p] # "none"
  /\ IF staged = NoFile
     THEN UNCHANGED <<db, staged, out>>
     ELSE db' = staged /\ staged' = NoFile /\ out' = HandlesAfterRename
  /\ Goto(p, "discarding")
  /\ UNCHANGED <<journal, memory, history>>

\* A committed promotion is finished when its staged file exists; nothing
\* looks at what that file holds.
RecoverPromote(p) ==
  /\ pc[p] = "recovering"
  /\ plan[p] = "durable"
  /\ IF staged = NoFile
     THEN UNCHANGED <<db, staged, out>>
     ELSE db' = staged /\ staged' = NoFile /\ out' = HandlesAfterRename
  /\ Goto(p, "discarding")
  /\ UNCHANGED <<journal, memory, history>>

\* The staged file is removed whether the journal names it or not.
RecoverDiscard(p) ==
  /\ \/ pc[p] = "discarding"
     \/ pc[p] = "recovering" /\ plan[p] # "durable"
  /\ staged' = NoFile
  /\ out' = HandlesAfterUnlink
  /\ Goto(p, IF plan[p] = "none" THEN "recovered" ELSE "forgetting")
  /\ UNCHANGED <<db, journal, memory, history>>

\* Mutant: recovery leaves the journal for the next open.
RecoverForgetKeeps(p) ==
  /\ pc[p] = "forgetting"
  /\ Goto(p, "recovered")
  /\ UNCHANGED <<files, memory, out, history>>

RecoverForget(p) ==
  /\ pc[p] = "forgetting"
  /\ journal' = "none"
  /\ Goto(p, "recovered")
  /\ UNCHANGED <<db, staged, memory, out, history>>

\* The rename or a removal of recover() fails and it returns Err.
RecoverFail(p) ==
  /\ \/ pc[p] = "recovering" /\ plan[p] = "durable" /\ "rename" \in Faults
     \/ pc[p] \in RecoverStep /\ "unlink" \in Faults
  /\ Goto(p, "closed")
  /\ UNCHANGED <<files, memory, out, history>>

-----------------------------------------------------------------------------

\* The process dies.  A journal being written is left torn, or not yet begun.
Crash(p) ==
  /\ "crash" \in Faults
  /\ pc[p] # "closed"
  /\ IF pc[p] = "staged" THEN journal' \in TornJournal ELSE UNCHANGED journal
  /\ Goto(p, "closed")
  /\ held' = [held EXCEPT ![p] = NoFile]
  /\ next' = [next EXCEPT ![p] = NoFile]
  /\ plan' = [plan EXCEPT ![p] = "none"]
  /\ out' = [out EXCEPT ![p] = "none"]
  /\ UNCHANGED <<db, staged, history>>

Next ==
  \E p \in Process :
    \/ Open(p) \/ Close(p)
    \/ StageCreate(p) \/ StageWrite(p) \/ JournalWrite(p)
    \/ Promote(p) \/ Forget(p) \/ Fail(p)
    \/ RecoverRead(p) \/ RecoverPromote(p) \/ RecoverDiscard(p) \/ RecoverForget(p)
    \/ RecoverFail(p)
    \/ Crash(p)

Spec == Init /\ [][Next]_vars

-----------------------------------------------------------------------------
(* Properties *)

\* Every variable holds a value of its kind; an open handle holds a container,
\* and a commit under way has built one.
TypeOK ==
  /\ db \in File
  /\ staged \in File
  /\ journal \in {"none", "torn", "durable"}
  /\ pc \in [Process -> Step]
  /\ held \in [Process -> File]
  /\ next \in [Process -> File]
  /\ out \in [Process -> {"none", "staged", "db", "unlinked"}]
  /\ plan \in [Process -> {"none", "torn", "durable"}]
  /\ acked \in Container \union {NoFile}
  /\ intent \in Container
  /\ \A p \in Process :
       /\ pc[p] \in {"open"} \union CommitStep => held[p] \in Container
       /\ pc[p] \in CommitStep => next[p] \in Container

\* The database file always holds one whole container, whichever steps of
\* commit() and recover() were interrupted: storage.rs says a reader observes
\* the previous generation or the next one, never a mixture.
DatabaseReadable == db \in Container

\* Once recover() has returned, the file holds exactly the last container whose
\* journal was durable: a durable intent is never dropped, and one that was not
\* durable is never carried out.
RecoveredIsIntent ==
  \A p \in Process : pc[p] = "recovered" => db = intent

\* A process that is about to commit builds on that container too: no handle is
\* opened between a crash and the promotion recovery has still to finish.
OpenedIsIntent ==
  \A p \in Process : pc[p] = "open" => db = intent

\* A commit that returned Ok is never undone: whatever crashes afterwards, the
\* file holds that container or one of a later generation.
AcknowledgedSurvives ==
  acked # NoFile => \/ db = acked
                    \/ db \in Container /\ db.gen > acked.gen

\* A staged file that a durable journal promises to promote is the container
\* the journal was written for, so finishing the promotion is always safe.
PromisedFileIsWhole == journal = "durable" => staged \in {NoFile, intent}

\* Each replacement of the database file advances its generation by one.
\* Synchronization compares generations and transaction.rs detects other
\* writers by them, so two different contents must not share one.
GenerationAdvances ==
  [][ db' # db => /\ db' \in Container
                  /\ db.gen + 1 = db'.gen ]_vars

\* One file under commit(), crash and recover() behaves as AtomicDatabase.
Atomic == INSTANCE AtomicDatabase
            WITH current <- db, acknowledged <- acked, Nothing <- NoFile

ImplementsAtomicDatabase == Atomic!Spec

=============================================================================
