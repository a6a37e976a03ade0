-------------------------- MODULE FileTransaction --------------------------
(***************************************************************************)
(* src/journal.rs: FileTransaction, replay and recover_at, as one process  *)
(* uses them.  Transactions are numbered and the number stands for what    *)
(* they write.  A step is one call to the filesystem; a crash can come     *)
(* before or during any of them, and a call may fail.                      *)
(***************************************************************************)
EXTENDS Naturals, Sequences

CONSTANTS
  Destination,     \* the files a transaction may replace or remove
  Shape,           \* the lists of actions callers stage, each file at most once
  MaxTransaction,  \* bound on the number of transactions begun
  Faults,          \* which faults the environment may inject, see FaultKind
  Discipline,      \* which rules the caller keeps, see Rule
  NoFile,          \* no file at that path
  Torn             \* a file that was created, but whose bytes are not all there

FaultKind == {"crash", "stage", "journal", "rename", "unlink"}

\* "drop_after_error": a project whose transaction returned Err is not used again.
\* "clean_start": no transaction begins beside a journal that could not be removed.
Rule == {"drop_after_error", "clean_start"}

\* JournalRecord::Promote and JournalRecord::Remove.
Action == [kind : {"promote", "remove"}, dest : Destination]

ASSUME FileTransactionAssumption ==
  /\ Shape \subseteq Seq(Action)
  /\ \A s \in Shape : \A i, j \in DOMAIN s : s[i].dest = s[j].dest => i = j
  /\ MaxTransaction \in Nat
  /\ Faults \subseteq FaultKind
  /\ Discipline \subseteq Rule
  /\ NoFile # Torn
  /\ NoFile \notin Nat
  /\ Torn \notin Nat

VARIABLES
  live,       \* what each destination holds
  staged,     \* what <destination>.staged holds
  journal,    \* the journal: the actions it lists, and whether Commit follows
  pc,         \* where the process is
  todo,       \* the actions it is staging, applying, abandoning or discarding
  at,         \* the next of them
  begun,      \* how many transactions were begun
  committed   \* history: the destinations once every durable intent is done

vars == <<live, staged, journal, pc, todo, at, begun, committed>>

files == <<live, staged, journal>>

Content == Nat \union {NoFile, Torn}

NoJournal == [actions |-> <<>>, whole |-> FALSE, exists |-> FALSE]

Init ==
  /\ live = [d \in Destination |-> 0]
  /\ staged = [d \in Destination |-> NoFile]
  /\ journal = NoJournal
  /\ pc = "idle"
  /\ todo = <<>>
  /\ at = 1
  /\ begun = 0
  /\ committed = live

Current == todo[at]
Finished == at > Len(todo)

\* What is on disk when writing a journal of `actions` is cut short: nothing of
\* it yet, or a prefix of its records without the Commit.
TornJournals(actions) ==
  {journal} \union
  {[actions |-> SubSeq(actions, 1, k), whole |-> FALSE, exists |-> TRUE] :
     k \in 0 .. Len(actions)}

\* What is on disk when staging the current action is cut short.
TornStagings ==
  {staged} \union
  (IF ~Finished /\ Current.kind = "promote"
   THEN {[staged EXCEPT ![Current.dest] = Torn]} ELSE {})

\* Where the process is once a call has returned Err.
AfterError == IF "drop_after_error" \in Discipline THEN "closed" ELSE "idle"

-----------------------------------------------------------------------------
(* FileTransaction *)

\* begin() and stage() do not look whether there is a journal.
Begin ==
  /\ pc = "idle"
  /\ "clean_start" \in Discipline => ~journal.exists
  /\ begun < MaxTransaction
  /\ begun' = begun + 1
  /\ todo' \in Shape
  /\ at' = 1
  /\ pc' = "staging"
  /\ UNCHANGED <<files, committed>>

\* stage() writes the file now and remove() only records the intent.
Stage ==
  /\ pc = "staging"
  /\ ~Finished
  /\ staged' = IF Current.kind = "promote"
               THEN [staged EXCEPT ![Current.dest] = begun] ELSE staged
  /\ at' = at + 1
  /\ UNCHANGED <<live, journal, pc, todo, begun, committed>>

\* The file whose write failed is not among those abandon() removes.
StageFail ==
  /\ "stage" \in Faults
  /\ pc = "staging"
  /\ ~Finished
  /\ Current.kind = "promote"
  /\ staged' \in TornStagings
  /\ todo' = SubSeq(todo, 1, at - 1)
  /\ at' = 1
  /\ pc' = "abandoning"
  /\ UNCHANGED <<live, journal, begun, committed>>

CommitNothing ==
  /\ pc = "staging"
  /\ todo = <<>>
  /\ pc' = "idle"
  /\ UNCHANGED <<files, todo, at, begun, committed>>

\* From here on the transaction is durable intent.
WriteJournal ==
  /\ pc = "staging"
  /\ Finished
  /\ todo # <<>>
  /\ journal' = [actions |-> todo, whole |-> TRUE, exists |-> TRUE]
  /\ committed' = [d \in Destination |->
       IF \E i \in DOMAIN todo : todo[i] = [kind |-> "promote", dest |-> d] THEN begun
       ELSE IF \E i \in DOMAIN todo : todo[i].dest = d THEN NoFile
       ELSE committed[d]]
  /\ at' = 1
  /\ pc' = "applying"
  /\ UNCHANGED <<live, staged, todo, begun>>

\* The error returns at once: nothing that was staged is removed.
JournalFail ==
  /\ "journal" \in Faults
  /\ pc = "staging"
  /\ Finished
  /\ todo # <<>>
  /\ journal' \in TornJournals(todo)
  /\ pc' = AfterError
  /\ UNCHANGED <<live, staged, todo, at, begun, committed>>

\* apply(), for a commit and for a recovery: a promotion whose staged file is
\* gone has been done before.
Apply ==
  /\ pc \in {"applying", "replaying"}
  /\ ~Finished
  /\ IF Current.kind = "remove"
     THEN live' = [live EXCEPT ![Current.dest] = NoFile] /\ UNCHANGED staged
     ELSE IF staged[Current.dest] = NoFile
     THEN UNCHANGED <<live, staged>>
     ELSE /\ live' = [live EXCEPT ![Current.dest] = staged[Current.dest]]
          /\ staged' = [staged EXCEPT ![Current.dest] = NoFile]
  /\ at' = at + 1
  /\ UNCHANGED <<journal, pc, todo, begun, committed>>

\* commit() and open() return the error; the journal stays.
ApplyFail ==
  /\ "rename" \in Faults
  /\ pc \in {"applying", "replaying"}
  /\ ~Finished
  /\ pc' = IF pc = "applying" THEN AfterError ELSE "closed"
  /\ UNCHANGED <<files, todo, at, begun, committed>>

\* An error from removing the journal is ignored.
Forget ==
  /\ pc \in {"applying", "discarding"}
  /\ Finished
  /\ \/ journal' = NoJournal
     \/ "unlink" \in Faults /\ UNCHANGED journal
  /\ pc' = "idle"
  /\ UNCHANGED <<live, staged, todo, at, begun, committed>>

\* abandon(), and the part of recover_at() that drops an unfinished tail.
Discard ==
  /\ pc \in {"abandoning", "discarding"}
  /\ ~Finished
  /\ staged' = IF Current.kind = "promote"
               THEN [staged EXCEPT ![Current.dest] = NoFile] ELSE staged
  /\ at' = at + 1
  /\ UNCHANGED <<live, journal, pc, todo, begun, committed>>

Abandoned ==
  /\ pc = "abandoning"
  /\ Finished
  /\ pc' = AfterError
  /\ UNCHANGED <<files, todo, at, begun, committed>>

-----------------------------------------------------------------------------
(* recover_at(), which Project::open calls before it reads anything *)

\* Mutant: a project is opened without looking at its journal.
OpenUnrecovered ==
  /\ pc = "closed"
  /\ pc' = "idle"
  /\ UNCHANGED <<files, todo, at, begun, committed>>

OpenNothing ==
  /\ pc = "closed"
  /\ ~journal.exists
  /\ pc' = "idle"
  /\ UNCHANGED <<files, todo, at, begun, committed>>

\* Mutant: a journal is carried out whether its Commit is there or not.
RecoverReadUncommitted ==
  /\ pc = "closed"
  /\ journal.exists
  /\ todo' = journal.actions
  /\ at' = 1
  /\ pc' = "replaying"
  /\ UNCHANGED <<files, begun, committed>>

\* replay(): only a journal that ends in its Commit is carried out.
RecoverRead ==
  /\ pc = "closed"
  /\ journal.exists
  /\ todo' = IF journal.whole THEN journal.actions ELSE <<>>
  /\ at' = 1
  /\ pc' = "replaying"
  /\ UNCHANGED <<files, begun, committed>>

\* Mutant: the cursor of the replay goes on into the tail.
RecoverTailSamePlace ==
  /\ pc = "replaying"
  /\ Finished
  /\ todo' = IF journal.whole THEN <<>> ELSE journal.actions
  /\ pc' = "discarding"
  /\ UNCHANGED <<files, at, begun, committed>>

RecoverTail ==
  /\ pc = "replaying"
  /\ Finished
  /\ todo' = IF journal.whole THEN <<>> ELSE journal.actions
  /\ at' = 1
  /\ pc' = "discarding"
  /\ UNCHANGED <<files, begun, committed>>

\* The project is no longer used.
Close ==
  /\ pc = "idle"
  /\ pc' = "closed"
  /\ UNCHANGED <<files, todo, at, begun, committed>>

\* The process dies, perhaps while it writes a staged file or the journal.
Crash ==
  /\ "crash" \in Faults
  /\ pc # "closed"
  /\ IF pc = "staging" THEN staged' \in TornStagings ELSE UNCHANGED staged
  /\ IF pc = "staging" /\ Finished /\ todo # <<>>
     THEN journal' \in TornJournals(todo) ELSE UNCHANGED journal
  /\ pc' = "closed"
  /\ todo' = <<>>
  /\ at' = 1
  /\ UNCHANGED <<live, begun, committed>>

Next ==
  \/ Begin \/ Stage \/ StageFail \/ CommitNothing \/ WriteJournal \/ JournalFail
  \/ Apply \/ ApplyFail \/ Forget \/ Discard \/ Abandoned
  \/ OpenNothing \/ RecoverRead \/ RecoverTail
  \/ Close \/ Crash

Spec == Init /\ [][Next]_vars

-----------------------------------------------------------------------------
(* Properties *)

\* Every variable holds a value of its kind.
TypeOK ==
  /\ live \in [Destination -> Content]
  /\ staged \in [Destination -> Content]
  /\ journal \in [actions : Seq(Action), whole : BOOLEAN, exists : BOOLEAN]
  /\ pc \in {"idle", "staging", "applying", "abandoning", "replaying",
             "discarding", "closed"}
  /\ todo \in Seq(Action)
  /\ at \in 1 .. Len(todo) + 1
  /\ begun \in Nat
  /\ committed \in [Destination -> Content]

\* What the destinations would hold if the process died now and the project
\* were opened again: replay() of the journal over what is on disk.
Recovered ==
  [d \in Destination |->
     IF ~journal.whole \/ \A i \in DOMAIN journal.actions : journal.actions[i].dest # d
     THEN live[d]
     ELSE IF \E i \in DOMAIN journal.actions :
               journal.actions[i] = [kind |-> "remove", dest |-> d]
     THEN NoFile
     ELSE IF staged[d] = NoFile THEN live[d] ELSE staged[d]]

\* Whenever the process dies, the next open finds exactly what the durable
\* transactions wrote: none of them half done, nothing of one that was not
\* durable, nothing twice.
CrashSafe == Recovered = committed

\* A process between transactions reads that state without any recovery.
IdleAgrees == pc = "idle" => live = committed

\* Seen through recovery, all files of a transaction change in one step.
Atomic == INSTANCE AtomicFiles
            WITH files <- Recovered, Version <- 1 .. MaxTransaction

ImplementsAtomicFiles == Atomic!Spec

=============================================================================
