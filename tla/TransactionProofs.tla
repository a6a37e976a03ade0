-------------------------- MODULE TransactionProofs --------------------------
(***************************************************************************)
(* Serial commits, for every set of processes, changes and generations.    *)
(*                                                                         *)
(* Inv says why comparing generations is enough: a handle whose generation *)
(* is the file's holds the same graph as the file, because a generation is *)
(* written once.  That needs the check of commit() and its rename to be    *)
(* alone, the rule commit_alone.                                           *)
(***************************************************************************)
EXTENDS Transaction, TLAPS

Disciplined == Rule \subseteq Discipline

\* A container in memory is not ahead of the file, and equals it if not behind.
HandleInv(p) ==
  handle[p] # Nothing =>
    /\ handle[p].gen <= db.gen
    /\ handle[p].gen = db.gen => handle[p] = db

\* An open transaction works on its handle's graph; one that has passed the check
\* works on the file's.
TransactionInv(p) ==
  /\ pc[p] # "idle" => /\ base[p] = handle[p].gen
                       /\ ~refused[p] => graph[p] = handle[p].graph \union writes[p]
  /\ pc[p] = "checked" => handle[p] = db /\ ~refused[p]

AloneInv == \A p, q \in Process : pc[p] = "checked" /\ pc[q] = "checked" => p = q

Inv ==
  /\ TypeOK
  /\ \A p \in Process : HandleInv(p) /\ TransactionInv(p)
  /\ AloneInv
  /\ db.graph = acked \union untold

-----------------------------------------------------------------------------

\* Every variable keeps its kind, whatever rules the callers keep.
LEMMA TypeStep == TypeOK /\ [Next]_vars => TypeOK'
<1> SUFFICES ASSUME TypeOK, [Next]_vars
             PROVE  TypeOK'
  OBVIOUS
<1> USE TransactionAssumption DEF TypeOK, Goto, transaction
<1>1. CASE UNCHANGED vars
  BY <1>1 DEF vars
<1>2. ASSUME NEW p \in Process, Open(p) PROVE TypeOK'
  BY <1>2 DEF Open
<1>3. ASSUME NEW p \in Process, Begin(p) PROVE TypeOK'
  BY <1>3 DEF Begin, Snapshot, Container
<1>4. ASSUME NEW p \in Process, Run(p) PROVE TypeOK'
  <2>1. /\ UNCHANGED <<db, handle, pc, base, acked, untold>>
        /\ used' \in SUBSET Change
        /\ graph' \in [Process -> SUBSET Change]
    BY <1>4 DEF Run
  <2>2. PICK c \in Change :
          \/ writes' = [writes EXCEPT ![p] = @ \union {c}] /\ UNCHANGED refused
          \/ refused' = [refused EXCEPT ![p] = TRUE] /\ UNCHANGED writes
    BY <1>4 DEF Run
  <2>3. writes' \in [Process -> SUBSET Change]
    BY <2>2
  <2>4. refused' \in [Process -> BOOLEAN]
    BY <2>2, ZenonT(30)
  <2>5. QED BY <2>1, <2>3, <2>4
<1>5. ASSUME NEW p \in Process, CommitNothing(p) \/ Rollback(p) \/ CommitFails(p)
      PROVE  TypeOK'
  BY <1>5 DEF CommitNothing, Rollback, CommitFails
<1>6. ASSUME NEW p \in Process, Check(p) PROVE TypeOK'
  BY <1>6 DEF Check, MayCommit
<1>7. ASSUME NEW p \in Process, Commit(p) \/ CommitUntold(p) PROVE TypeOK'
  <2>0. Replace(p)
    BY <1>7 DEF Commit, CommitUntold
  <2>1. handle[p].gen \in 1 .. MaxGeneration /\ handle[p].gen + 1 \in 1 .. MaxGeneration
    BY <2>0 DEF Replace, Advances, Container
  <2>2. db' \in Container
    BY <2>0, <2>1 DEF Replace, Container
  <2>3. pc' \in [Process -> {"idle", "active", "checked"}]
    BY <2>0 DEF Replace
  <2>4. CASE Commit(p)
    BY <2>0, <2>2, <2>3, <2>4 DEF Commit, Replace
  <2>5. CASE CommitUntold(p)
    BY <2>0, <2>2, <2>3, <2>5 DEF CommitUntold, Replace
  <2>6. QED BY <1>7, <2>4, <2>5
<1>8. QED
  BY <1>1, <1>2, <1>3, <1>4, <1>5, <1>6, <1>7 DEF Next

\* A commit replaces the container its process began from.
LEMMA ReplaceStep ==
  ASSUME Inv, NEW p \in Process, Replace(p)
  PROVE  /\ db'.gen = db.gen + 1
         /\ db'.graph = db.graph \union writes[p]
BY DEF Replace, Inv, TransactionInv

LEMMA InvStep == ASSUME Disciplined PROVE Inv /\ [Next]_vars => Inv'
<1> SUFFICES ASSUME Inv, [Next]_vars
             PROVE  Inv'
  OBVIOUS
<1>t. TypeOK /\ TypeOK'
  BY TypeStep DEF Inv
<1> USE TransactionAssumption DEF TypeOK, Goto, transaction
<1>1. CASE UNCHANGED vars
  BY <1>1, <1>t DEF vars, Inv, HandleInv, TransactionInv, AloneInv
<1>2. ASSUME NEW p \in Process, Open(p) PROVE Inv'
  BY <1>2, <1>t DEF Open, Inv, HandleInv, TransactionInv, AloneInv, Container
<1>3. ASSUME NEW p \in Process, Begin(p) PROVE Inv'
  BY <1>3, <1>t DEF Begin, Snapshot, Inv, HandleInv, TransactionInv, AloneInv, Container
<1>4. ASSUME NEW p \in Process, Run(p) PROVE Inv'
  <2>1. PICK c \in Change :
          /\ graph' = [graph EXCEPT ![p] = @ \union {c}]
          /\ \/ writes' = [writes EXCEPT ![p] = @ \union {c}] /\ UNCHANGED refused
             \/ refused' = [refused EXCEPT ![p] = TRUE] /\ UNCHANGED writes
    BY <1>4 DEF Run
  <2>2. \A q \in Process : TransactionInv(q)'
    BY <1>4, <2>1, <1>t DEF Run, Inv, TransactionInv
  <2>3. QED
    BY <1>4, <2>2, <1>t DEF Run, Inv, HandleInv, AloneInv
<1>5. ASSUME NEW p \in Process, CommitNothing(p) \/ Rollback(p) \/ CommitFails(p)
      PROVE  Inv'
  BY <1>5, <1>t DEF CommitNothing, Rollback, CommitFails, Inv, HandleInv,
                    TransactionInv, AloneInv
<1>6. ASSUME NEW p \in Process, Check(p) PROVE Inv'
  <2>1. pc'[p] = "checked" => handle[p] = db /\ ~refused[p]
    BY <1>6, <1>t DEF Check, MayCommit, Found, Disciplined, Rule, Inv, HandleInv, TransactionInv
  <2>2. \A q \in Process : TransactionInv(q)'
    BY <1>6, <2>1, <1>t DEF Check, MayCommit, Inv, TransactionInv
  <2>3. AloneInv'
    BY <1>6, <1>t DEF Check, Disciplined, Rule, AloneInv, Inv
  <2>4. QED
    BY <1>6, <2>2, <2>3, <1>t DEF Check, Inv, HandleInv
<1>7. ASSUME NEW p \in Process, Commit(p) \/ CommitUntold(p) PROVE Inv'
  <2>0. Replace(p) /\ UNCHANGED transaction
    BY <1>7 DEF Commit, CommitUntold
  <2>1. ASSUME NEW q \in Process PROVE HandleInv(q)'
    <3>1. db'.gen \in Nat /\ db.gen \in Nat /\ db'.gen = db.gen + 1
      BY <2>0, ReplaceStep, <1>t DEF Container
    <3>2. handle'[q] = db' \/ handle'[q] = handle[q]
      BY <1>7, <1>t DEF Commit, CommitUntold
    <3>3. handle[q] # Nothing => handle[q].gen \in Nat /\ handle[q].gen <= db.gen
      BY <1>t DEF Inv, HandleInv, Container
    <3>4. QED BY <3>1, <3>2, <3>3 DEF HandleInv
  <2>2. \A q \in Process \ {p} : pc[q] # "checked"
    BY <2>0 DEF Replace, Inv, AloneInv
  <2>3. pc'[p] = "idle" /\ \A q \in Process \ {p} : pc'[q] = pc[q] /\ handle'[q] = handle[q]
    BY <1>7, <2>0, <1>t DEF Replace, Commit, CommitUntold
  <2>4. \A q \in Process : TransactionInv(q)'
    BY <2>0, <2>2, <2>3, <1>t DEF Inv, TransactionInv
  <2>5. db'.graph = acked' \union untold'
    BY <1>7, <2>0, ReplaceStep DEF Commit, CommitUntold, Inv
  <2>6. AloneInv'
    BY <2>2, <2>3 DEF AloneInv
  <2>7. QED
    BY <2>1, <2>4, <2>5, <2>6, <1>t DEF Inv
<1>8. QED
  BY <1>1, <1>2, <1>3, <1>4, <1>5, <1>6, <1>7 DEF Next

LEMMA InvInit == Init => Inv
BY TransactionAssumption
   DEF Init, Inv, TypeOK, Container, HandleInv, TransactionInv, AloneInv

LEMMA Invariance == ASSUME Disciplined PROVE Spec => []Inv
BY InvInit, InvStep, PTL DEF Spec

-----------------------------------------------------------------------------

\* Every variable keeps its kind, for every caller.
THEOREM TypeCorrect == Spec => []TypeOK
<1>1. Init => TypeOK
  BY InvInit DEF Inv
<1>2. QED
  BY <1>1, TypeStep, PTL DEF Spec

\* What a commit acknowledged stays in the file, with the whole work of commits that
\* failed after the rename and nothing else: what a refused or cancelled statement
\* left in a copy never reaches it.
THEOREM AcknowledgedStays ==
  ASSUME Disciplined PROVE Spec => []FileHoldsTheAcknowledged
<1>1. Inv => FileHoldsTheAcknowledged
  BY DEF Inv, FileHoldsTheAcknowledged
<1>2. QED
  BY <1>1, Invariance, PTL

\* Every commit adds its own changes to the graph the file held, under the next
\* generation.
THEOREM AlwaysSerial == ASSUME Disciplined PROVE Spec => CommitsAreSerial
<1>1. Inv /\ [Next]_vars =>
        [db' # db => /\ db'.gen = db.gen + 1
                     /\ \E p \in Process : db'.graph = db.graph \union writes[p]]_vars
  <2>1. ASSUME Inv, [Next]_vars, db' # db
        PROVE  \E p \in Process : Replace(p)
    BY <2>1 DEF Next, vars, transaction, Open, Begin, Run, Rollback, CommitNothing,
                Check, Commit, CommitUntold, CommitFails
  <2>2. QED BY <2>1, ReplaceStep
<1>2. QED
  BY <1>1, Invariance, PTL DEF Spec, CommitsAreSerial

=============================================================================
