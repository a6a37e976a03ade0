----------------------------- MODULE Transaction -----------------------------
(***************************************************************************)
(* src/transaction.rs: explicit transactions of several processes over one *)
(* database file.  The file is replaced in one step here, which is what    *)
(* Storage shows of commit(); what the caller is told of it is a matter of *)
(* its own.  A statement is told apart by the change it makes, and no two  *)
(* statements make the same change.                                        *)
(***************************************************************************)
EXTENDS Naturals

CONSTANTS
  Process,        \* the processes that have the database file in common
  Change,         \* the changes their statements make
  MaxGeneration,  \* bound on the generations of the file
  Discipline,     \* which rules the callers keep, see Rule
  Nothing         \* a handle or a copy that is not there

\* "commit_alone": between the check of commit() and its rename no other process
\* is between its own check and rename.
\* "rollback_refused": a caller whose statement was refused does not commit.
Rule == {"commit_alone", "rollback_refused"}

Container == [gen : 1 .. MaxGeneration, graph : SUBSET Change]

ASSUME TransactionAssumption ==
  /\ MaxGeneration \in Nat \ {0}
  /\ Discipline \subseteq Rule
  /\ Nothing \notin Container

VARIABLES
  db,        \* the database file
  handle,    \* the container in each process's Database value
  pc,        \* where each process is in its transaction
  base,      \* Transaction::base
  graph,     \* Transaction::graph, the copy the statements modify
  writes,    \* the changes Transaction::writes counts
  refused,   \* whether a statement of the open transaction was refused
  used,      \* history: the changes statements have made so far
  acked,     \* history: the changes of every commit that returned Ok
  untold     \* history: the changes of every commit that replaced the file and returned Err

vars == <<db, handle, pc, base, graph, writes, refused, used, acked, untold>>

transaction == <<base, graph, writes, refused>>

Init ==
  /\ db = [gen |-> 1, graph |-> {}]
  /\ handle = [p \in Process |-> Nothing]
  /\ pc = [p \in Process |-> "idle"]
  /\ base = [p \in Process |-> 0]
  /\ graph = [p \in Process |-> {}]
  /\ writes = [p \in Process |-> {}]
  /\ refused = [p \in Process |-> FALSE]
  /\ used = {}
  /\ acked = {}
  /\ untold = {}

Goto(p, step) == pc' = [pc EXCEPT ![p] = step]

Open(p) ==
  /\ pc[p] = "idle"
  /\ handle' = [handle EXCEPT ![p] = db]
  /\ UNCHANGED <<db, pc, transaction, used, acked, untold>>

\* Mutant: the copy of the last transaction is used again.
SnapshotKeepsCopy(p) == graph[p] \union handle[p].graph

\* What the statements of a new transaction read.
Snapshot(p) == handle[p].graph

\* Mutant: the generation is taken from the open handle.
FoundInMemory(p) == handle[p].gen

\* The generation commit() compares its base with: it opens the file again.
Found(p) == db.gen

\* Mutant: the last generation has a successor.
AdvancesPastTheEnd(g) == g <= MaxGeneration

\* Generation::next() refuses to wrap.
Advances(g) == g < MaxGeneration

\* The graph and the base come from the container in memory, not from the file.
Begin(p) ==
  /\ pc[p] = "idle"
  /\ handle[p] # Nothing
  /\ base' = [base EXCEPT ![p] = handle[p].gen]
  /\ graph' = [graph EXCEPT ![p] = Snapshot(p)]
  /\ writes' = [writes EXCEPT ![p] = {}]
  /\ refused' = [refused EXCEPT ![p] = FALSE]
  /\ Goto(p, "active")
  /\ UNCHANGED <<db, handle, used, acked, untold>>

\* A statement that writes.  accumulate() is reached only when it was not
\* refused, but a refused one may have changed the copy before it stopped.
Run(p) ==
  /\ pc[p] = "active"
  /\ \E c \in Change \ used :
       /\ used' = used \union {c}
       /\ graph' = [graph EXCEPT ![p] = @ \union {c}]
       /\ \/ writes' = [writes EXCEPT ![p] = @ \union {c}] /\ UNCHANGED refused
          \/ refused' = [refused EXCEPT ![p] = TRUE] /\ UNCHANGED writes
  /\ UNCHANGED <<db, handle, pc, base, acked, untold>>

MayCommit(p) ==
  /\ pc[p] = "active"
  /\ "rollback_refused" \in Discipline => ~refused[p]

CommitNothing(p) ==
  /\ MayCommit(p)
  /\ writes[p] = {}
  /\ Goto(p, "idle")
  /\ UNCHANGED <<db, handle, transaction, used, acked, untold>>

Check(p) ==
  /\ MayCommit(p)
  /\ writes[p] # {}
  /\ "commit_alone" \in Discipline => \A q \in Process : pc[q] # "checked"
  /\ Goto(p, IF Found(p) = base[p] THEN "checked" ELSE "idle")
  /\ UNCHANGED <<db, handle, transaction, used, acked, untold>>

\* commit_graph() numbers the container from the handle.
Replace(p) ==
  /\ pc[p] = "checked"
  /\ Advances(handle[p].gen)
  /\ db' = [gen |-> handle[p].gen + 1, graph |-> graph[p]]
  /\ Goto(p, "idle")

\* The handle adopts the container it has written.
Commit(p) ==
  /\ Replace(p)
  /\ handle' = [handle EXCEPT ![p] = db']
  /\ acked' = acked \union writes[p]
  /\ UNCHANGED <<transaction, used, untold>>

\* The journal cannot be removed after the rename: the caller gets an error and the
\* handle keeps the container it had, but the file is replaced.  So it is when the
\* rename itself fails and recover() finishes it before anybody reads the file, the
\* rule recover_first of Storage.
CommitUntold(p) ==
  /\ Replace(p)
  /\ untold' = untold \union writes[p]
  /\ UNCHANGED <<handle, transaction, used, acked>>

\* The generation cannot advance, or a step before the rename fails.
CommitFails(p) ==
  /\ pc[p] = "checked"
  /\ Goto(p, "idle")
  /\ UNCHANGED <<db, handle, transaction, used, acked, untold>>

Rollback(p) ==
  /\ pc[p] = "active"
  /\ Goto(p, "idle")
  /\ UNCHANGED <<db, handle, transaction, used, acked, untold>>

Next ==
  \E p \in Process :
    \/ Open(p) \/ Begin(p) \/ Run(p) \/ Rollback(p)
    \/ CommitNothing(p) \/ Check(p) \/ Commit(p) \/ CommitUntold(p) \/ CommitFails(p)

Spec == Init /\ [][Next]_vars

-----------------------------------------------------------------------------
(* Properties *)

\* Every variable holds a value of its kind, and a transaction has a handle.
TypeOK ==
  /\ db \in Container
  /\ handle \in [Process -> Container \union {Nothing}]
  /\ pc \in [Process -> {"idle", "active", "checked"}]
  /\ base \in [Process -> 0 .. MaxGeneration]
  /\ graph \in [Process -> SUBSET Change]
  /\ writes \in [Process -> SUBSET Change]
  /\ refused \in [Process -> BOOLEAN]
  /\ used \in SUBSET Change
  /\ acked \in SUBSET Change
  /\ untold \in SUBSET Change
  /\ \A p \in Process : pc[p] # "idle" => handle[p] # Nothing

\* The file holds what commits acknowledged, and beyond it only the whole work of
\* commits that failed after the rename.  Neither is taken back by a later commit,
\* which would get a Conflict for a graph computed without it, whoever retries
\* after the error; and the part of its work a refused statement left in the copy
\* is never written (transaction.rs commit, run; storage.rs commit).
FileHoldsTheAcknowledged == db.graph = acked \union untold

\* A commit adds its own changes to exactly the graph that was in the file, and
\* the generation counts the commits: the transactions are serialised in the
\* order of their commits.
CommitsAreSerial ==
  [][ db' # db =>
        /\ db'.gen = db.gen + 1
        /\ \E p \in Process : db'.graph = db.graph \union writes[p] ]_vars

=============================================================================
