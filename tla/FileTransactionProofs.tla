----------------------- MODULE FileTransactionProofs -----------------------
(***************************************************************************)
(* Crash safety of a change over several files, for every set of files,    *)
(* every list of actions and any number of transactions: when callers keep *)
(* the two rules, whatever is interrupted and whichever call fails, the    *)
(* next open finds each durable transaction done as a whole.               *)
(*                                                                         *)
(* CrashSafe is not inductive.  That a replay yields the committed state   *)
(* needs the journal to name each file once, every file staged before the  *)
(* journal is written to be whole, and the part of the list already        *)
(* applied to leave nothing behind; Inv adds those facts.                  *)
(***************************************************************************)
EXTENDS FileTransaction, TLAPS

\* The caller keeps the rules; every fault may happen.
Disciplined == Rule \subseteq Discipline

Distinct(s) == \A i, j \in DOMAIN s : s[i].dest = s[j].dest => i = j

\* The first `n` actions of `s` have been carried out.
Done(s, n) ==
  \A i \in DOMAIN s :
    i <= n => IF s[i].kind = "remove" THEN live[s[i].dest] = NoFile
                                      ELSE staged[s[i].dest] = NoFile

\* The first `n` files of `s` are staged as the current transaction wrote them.
StagedUpTo(s, n) ==
  \A i \in DOMAIN s : i <= n /\ s[i].kind = "promote" => staged[s[i].dest] = begun

StepInv ==
  /\ journal.whole => journal.exists
  /\ pc \in {"staging", "abandoning"} => ~journal.whole
  /\ pc = "idle" /\ journal.whole => Done(journal.actions, Len(journal.actions))
  /\ pc = "staging" => StagedUpTo(todo, at - 1)
  /\ pc = "staging" => todo \in Shape /\ begun \in 1 .. MaxTransaction
  /\ pc = "applying" => journal.whole /\ todo = journal.actions
  /\ pc = "replaying" => todo = IF journal.whole THEN journal.actions ELSE <<>>
  /\ pc \in {"applying", "replaying"} => Done(todo, at - 1)
  /\ pc = "discarding" /\ journal.whole =>
       todo = <<>> /\ Done(journal.actions, Len(journal.actions))

Inv ==
  /\ TypeOK
  /\ Distinct(todo)
  /\ Distinct(journal.actions)
  /\ StepInv
  /\ CrashSafe

-----------------------------------------------------------------------------

\* What one destination holds after the next open, case by case.
LEMMA RecoveredAt ==
  ASSUME TypeOK, Distinct(journal.actions), NEW d \in Destination
  PROVE  /\ ~journal.whole => Recovered[d] = live[d]
         /\ (\A i \in DOMAIN journal.actions : journal.actions[i].dest # d)
              => Recovered[d] = live[d]
         /\ \A i \in DOMAIN journal.actions :
              journal.whole /\ journal.actions[i].dest = d =>
                Recovered[d] = IF journal.actions[i].kind = "remove" THEN NoFile
                               ELSE IF staged[d] = NoFile THEN live[d] ELSE staged[d]
<1>1. ASSUME NEW i \in DOMAIN journal.actions,
             journal.whole, journal.actions[i].dest = d
      PROVE  Recovered[d] = IF journal.actions[i].kind = "remove" THEN NoFile
                            ELSE IF staged[d] = NoFile THEN live[d] ELSE staged[d]
  <2>1. journal.actions[i] \in Action
    BY DEF TypeOK
  <2>2. (\E j \in DOMAIN journal.actions :
           journal.actions[j] = [kind |-> "remove", dest |-> d])
        <=> journal.actions[i].kind = "remove"
    BY <1>1, <2>1 DEF Distinct, Action
  <2>3. QED BY <1>1, <2>2 DEF Recovered
<1>2. QED BY <1>1 DEF Recovered

\* Without a whole journal recovery changes nothing.
LEMMA RecoveredIsLive == ~journal.whole => Recovered = [d \in Destination |-> live[d]]
BY DEF Recovered

\* A journal that was carried out to its end has nothing left to replay.
LEMMA DoneIsLive ==
  ASSUME TypeOK, Distinct(journal.actions),
         journal.whole => Done(journal.actions, Len(journal.actions))
  PROVE  Recovered = [d \in Destination |-> live[d]]
<1>1. ASSUME NEW d \in Destination PROVE Recovered[d] = live[d]
  <2>1. CASE ~journal.whole \/ \A i \in DOMAIN journal.actions : journal.actions[i].dest # d
    BY <2>1, RecoveredAt
  <2>2. ASSUME journal.whole, NEW i \in DOMAIN journal.actions, journal.actions[i].dest = d
        PROVE  Recovered[d] = live[d]
    <3>1. i <= Len(journal.actions)
      BY DEF TypeOK
    <3>2. IF journal.actions[i].kind = "remove" THEN live[d] = NoFile
                                                ELSE staged[d] = NoFile
      BY <2>2, <3>1 DEF Done
    <3>3. Recovered[d] = IF journal.actions[i].kind = "remove" THEN NoFile
                         ELSE IF staged[d] = NoFile THEN live[d] ELSE staged[d]
      BY <2>2, RecoveredAt
    <3>4. QED BY <3>2, <3>3
  <2>3. QED BY <2>1, <2>2
<1>2. QED BY <1>1 DEF Recovered

LEMMA TypeStep == TypeOK /\ [Next]_vars => TypeOK'
<1> SUFFICES ASSUME TypeOK, [Next]_vars
             PROVE  TypeOK'
  OBVIOUS
<1>0. /\ \A s \in Shape : s \in Seq(Action)
      /\ <<>> \in Seq(Action) /\ Len(<<>>) = 0
      /\ \A s \in Seq(Action) : Len(s) \in Nat
      /\ at \in Nat /\ at - 1 \in 0 .. Len(todo)
      /\ \A s \in Seq(Action), n \in Nat :
           n \in 0 .. Len(s) => SubSeq(s, 1, n) \in Seq(Action) /\ Len(SubSeq(s, 1, n)) = n
  BY FileTransactionAssumption DEF TypeOK
<1> USE <1>0 DEF TypeOK, Content, files
<1>j. TornJournals(todo) \subseteq
        [actions : Seq(Action), whole : BOOLEAN, exists : BOOLEAN]
  <2>1. ASSUME NEW k \in 0 .. Len(todo) PROVE SubSeq(todo, 1, k) \in Seq(Action)
    <3>1. k \in Nat
      OBVIOUS
    <3>2. QED BY <3>1
  <2>2. ASSUME NEW j \in TornJournals(todo), j # journal
        PROVE  j \in [actions : Seq(Action), whole : BOOLEAN, exists : BOOLEAN]
    <3>1. PICK k \in 0 .. Len(todo) :
            j = [actions |-> SubSeq(todo, 1, k), whole |-> FALSE, exists |-> TRUE]
      BY <2>2 DEF TornJournals
    <3>2. QED BY <2>1, <3>1
  <2>3. QED BY <2>2
<1>s. TornStagings \subseteq [Destination -> Content]
  BY DEF TornStagings, Current, Finished, Action
<1>c. ~Finished => /\ Current \in Action
                   /\ at + 1 \in 1 .. Len(todo) + 1
  BY DEF Current, Finished
<1>1. CASE UNCHANGED vars
  BY <1>1 DEF vars
<1>2. CASE Begin
  <2>1. todo' \in Seq(Action) /\ at' \in 1 .. Len(todo') + 1
    BY <1>2 DEF Begin
  <2>2. QED BY <1>2, <2>1 DEF Begin
<1>3. CASE Stage
  BY <1>3, <1>c DEF Stage, Action
<1>4. CASE StageFail
  <2>1. todo' \in Seq(Action) /\ at' \in 1 .. Len(todo') + 1
    BY <1>4 DEF StageFail
  <2>2. QED BY <1>4, <1>s, <2>1 DEF StageFail
<1>5. CASE CommitNothing
  BY <1>5 DEF CommitNothing
<1>6. CASE WriteJournal
  <2>1. journal' \in [actions : Seq(Action), whole : BOOLEAN, exists : BOOLEAN]
    BY <1>6 DEF WriteJournal
  <2>2. committed' \in [Destination -> Content]
    BY <1>6 DEF WriteJournal
  <2>3. at' \in 1 .. Len(todo') + 1
    BY <1>6 DEF WriteJournal
  <2>4. QED BY <1>6, <2>1, <2>2, <2>3 DEF WriteJournal
<1>7. CASE JournalFail
  BY <1>7, <1>j DEF JournalFail, AfterError
<1>8. CASE Apply
  BY <1>8, <1>c DEF Apply, Action
<1>9. CASE ApplyFail
  BY <1>9 DEF ApplyFail, AfterError
<1>10. CASE Forget
  <2>1. NoJournal \in [actions : Seq(Action), whole : BOOLEAN, exists : BOOLEAN]
    BY DEF NoJournal
  <2>2. journal' \in [actions : Seq(Action), whole : BOOLEAN, exists : BOOLEAN]
    BY <1>10, <2>1 DEF Forget
  <2>3. QED BY <1>10, <2>2 DEF Forget
<1>11. CASE Discard
  BY <1>11, <1>c DEF Discard, Action
<1>12. CASE Abandoned
  BY <1>12 DEF Abandoned, AfterError
<1>13. CASE OpenNothing \/ Close
  BY <1>13 DEF OpenNothing, Close
<1>14. CASE RecoverRead
  BY <1>14 DEF RecoverRead
<1>15. CASE RecoverTail
  BY <1>15 DEF RecoverTail
<1>16. CASE Crash
  <2>1. at' \in 1 .. Len(todo') + 1 /\ todo' \in Seq(Action)
    BY <1>16 DEF Crash
  <2>2. journal' \in [actions : Seq(Action), whole : BOOLEAN, exists : BOOLEAN]
    BY <1>16, <1>j DEF Crash
  <2>3. QED BY <1>16, <1>s, <2>1, <2>2 DEF Crash
<1>17. QED
  BY <1>1, <1>2, <1>3, <1>4, <1>5, <1>6, <1>7, <1>8, <1>9, <1>10, <1>11, <1>12,
     <1>13, <1>14, <1>15, <1>16 DEF Next


LEMMA InvInit == Init => Inv
<1> SUFFICES ASSUME Init PROVE Inv
  OBVIOUS
<1> USE FileTransactionAssumption DEF Init, NoJournal
<1>1. TypeOK
  BY DEF TypeOK, Content
<1>2. Distinct(todo) /\ Distinct(journal.actions)
  BY DEF Distinct
<1>3. StepInv
  BY DEF StepInv
<1>4. CrashSafe
  BY RecoveredIsLive DEF CrashSafe
<1>5. QED BY <1>1, <1>2, <1>3, <1>4 DEF Inv

\* A step that leaves the files alone leaves what recovery would find alone.
LEMMA SameFiles ==
  ASSUME Inv, UNCHANGED files, UNCHANGED committed
  PROVE  CrashSafe' /\ Distinct(journal.actions)'
<1>1. Recovered' = Recovered
  BY DEF Recovered, files
<1>2. QED BY <1>1 DEF Inv, CrashSafe, Distinct, files

\* Neither does a step that only touches staged files or an unfinished journal
\* while there is no whole journal.
LEMMA NoWholeJournal ==
  ASSUME Inv, ~journal.whole, ~journal'.whole, live' = live, committed' = committed
  PROVE  CrashSafe'
<1>1. (Recovered = [d \in Destination |-> live[d]])
  BY RecoveredIsLive
<1>2. (Recovered' = [d \in Destination |-> live'[d]])
  BY DEF Recovered
<1>3. QED BY <1>1, <1>2 DEF Inv, CrashSafe

LEMMA PrefixDistinct ==
  ASSUME NEW s \in Seq(Action), Distinct(s), NEW n \in 0 .. Len(s)
  PROVE  Distinct(SubSeq(s, 1, n))
<1>1. n \in Nat /\ Len(SubSeq(s, 1, n)) = n
  OBVIOUS
<1>2. \A i \in 1 .. n : SubSeq(s, 1, n)[i] = s[i] /\ i \in DOMAIN s
  BY <1>1
<1>3. DOMAIN SubSeq(s, 1, n) = 1 .. n
  BY <1>1
<1>4. QED BY <1>2, <1>3 DEF Distinct

LEMMA TornIsUnfinished ==
  ASSUME TypeOK, Distinct(todo), Distinct(journal.actions), ~journal.whole,
         NEW j \in TornJournals(todo)
  PROVE  ~j.whole /\ Distinct(j.actions)
<1>1. CASE j = journal
  BY <1>1
<1>2. CASE j # journal
  <2>1. PICK k \in 0 .. Len(todo) :
          j = [actions |-> SubSeq(todo, 1, k), whole |-> FALSE, exists |-> TRUE]
    BY <1>2 DEF TornJournals
  <2>2. QED BY <2>1, PrefixDistinct DEF TypeOK
<1>3. QED BY <1>1, <1>2

LEMMA InvStep == ASSUME Disciplined PROVE Inv /\ [Next]_vars => Inv'
<1> SUFFICES ASSUME Inv, [Next]_vars PROVE Inv'
  OBVIOUS
<1>t. TypeOK /\ TypeOK'
  BY TypeStep DEF Inv
<1>n. /\ at \in Nat /\ begun \in Nat
      /\ NoFile \notin Nat
      /\ Len(todo) \in Nat
      /\ DOMAIN todo = 1 .. Len(todo)
      /\ \A i \in DOMAIN todo : todo[i] \in Action
      /\ \A i \in DOMAIN journal.actions : journal.actions[i] \in Action
  BY <1>t, FileTransactionAssumption DEF TypeOK
<1>e. Distinct(<<>>)
  BY DEF Distinct
<1> DEFINE Kept == /\ Distinct(todo)' /\ Distinct(journal.actions)'
                   /\ StepInv' /\ CrashSafe'
<1> SUFFICES Kept
  BY <1>t DEF Inv
<1>1. CASE UNCHANGED vars
  <2>1. UNCHANGED files /\ UNCHANGED committed
    BY <1>1 DEF vars, files
  <2>2. StepInv' /\ Distinct(todo)'
    BY <1>1 DEF Inv, vars, StepInv, StagedUpTo, Done, Distinct
  <2>3. QED BY <2>1, <2>2, SameFiles
<1>2. CASE Begin
  <2>0. ~journal.whole
    BY <1>2 DEF Begin, Disciplined, Rule, Inv, StepInv
  <2>1. CrashSafe' /\ Distinct(journal.actions)'
    BY <1>2, SameFiles DEF Begin
  <2>2. Distinct(todo)'
    BY <1>2, FileTransactionAssumption DEF Begin, Distinct
  <2>3. StepInv'
    <3>1. todo' \in Seq(Action) /\ DOMAIN todo' \subseteq Nat \ {0}
      BY <1>t DEF TypeOK
    <3>2. begun' \in 1 .. MaxTransaction /\ todo' \in Shape
      BY <1>2, <1>n, FileTransactionAssumption DEF Begin
    <3>3. QED BY <1>2, <2>0, <3>1, <3>2 DEF Begin, Inv, StepInv, StagedUpTo, files
  <2>4. QED BY <2>1, <2>2, <2>3
<1>3. CASE Stage
  <2>1. ~journal.whole /\ UNCHANGED <<live, journal, todo, committed, begun, pc>>
    BY <1>3 DEF Stage, Inv, StepInv
  <2>2. CrashSafe'
    BY <2>1, NoWholeJournal
  <2>3. at' - 1 = at
    BY <1>3, <1>n DEF Stage
  <2>4. StagedUpTo(todo, at - 1)'
    <3>1. at \in DOMAIN todo /\ Current = todo[at]
      BY <1>3, <1>n, <1>t DEF Stage, Finished, Current, TypeOK
    <3>2. StagedUpTo(todo, at - 1)
      BY <1>3 DEF Stage, Inv, StepInv
    <3>3. ASSUME NEW i \in DOMAIN todo, i <= at, todo[i].kind = "promote"
          PROVE  staged'[todo[i].dest] = begun
      <4>1. CASE i = at
        BY <1>3, <3>1, <4>1, <3>3, <1>t, <1>n DEF Stage, TypeOK, Action
      <4>2. CASE i # at
        <5>1. staged[todo[i].dest] = begun
          BY <3>2, <3>3, <4>2, <1>n DEF StagedUpTo
        <5>2. todo[i].dest # todo[at].dest
          BY <4>2, <3>1 DEF Inv, Distinct
        <5>3. QED BY <1>3, <3>1, <5>1, <5>2, <1>t DEF Stage, TypeOK
      <4>3. QED BY <4>1, <4>2
    <3>4. QED BY <3>3, <2>1, <2>3 DEF StagedUpTo
  <2>5. StepInv'
    BY <1>3, <2>1, <2>4 DEF Stage, Inv, StepInv
  <2>6. Distinct(todo)' /\ Distinct(journal.actions)'
    BY <2>1 DEF Inv, Distinct
  <2>7. QED BY <2>2, <2>5, <2>6
<1>4. CASE StageFail
  <2>1. ~journal.whole /\ UNCHANGED <<live, journal, committed>>
    BY <1>4 DEF StageFail, Inv, StepInv
  <2>2. CrashSafe'
    BY <2>1, NoWholeJournal
  <2>3. Distinct(todo')
    <3>1. at - 1 \in 0 .. Len(todo)
      BY <1>t, <1>n DEF TypeOK
    <3>2. QED BY <1>4, <3>1, <1>t, PrefixDistinct DEF StageFail, Inv, TypeOK
  <2>4. Distinct(todo)' /\ Distinct(journal.actions)'
    BY <2>1, <2>3 DEF Inv, Distinct
  <2>5. StepInv'
    BY <1>4, <2>1 DEF StageFail, StepInv
  <2>6. QED BY <2>2, <2>4, <2>5
<1>5. CASE CommitNothing
  <2>1. StepInv' /\ Distinct(todo)'
    BY <1>5 DEF CommitNothing, Inv, StepInv, Distinct, files
  <2>2. QED BY <1>5, <2>1, SameFiles DEF CommitNothing
<1>6. CASE WriteJournal
  <2>1. /\ ~journal.whole
        /\ StagedUpTo(todo, Len(todo))
        /\ journal' = [actions |-> todo, whole |-> TRUE, exists |-> TRUE]
        /\ UNCHANGED <<live, staged, todo, begun>>
    <3>1. at - 1 >= Len(todo)
      BY <1>6, <1>n DEF WriteJournal, Finished
    <3>2. StagedUpTo(todo, at - 1)
      BY <1>6 DEF WriteJournal, Inv, StepInv
    <3>3. StagedUpTo(todo, Len(todo))
      BY <3>1, <3>2, <1>n DEF StagedUpTo
    <3>4. QED BY <1>6, <3>3 DEF WriteJournal, Inv, StepInv
  <2>2. Distinct(todo)' /\ Distinct(journal.actions)'
    BY <2>1 DEF Inv, Distinct
  <2>3. StepInv'
    BY <1>6, <2>1, <1>n DEF WriteJournal, StepInv, Done
  <2>4. ASSUME NEW d \in Destination PROVE Recovered'[d] = committed'[d]
    <3>1. committed[d] = live[d]
      <4>1. Recovered[d] = live[d]
        BY <2>1 DEF Recovered
      <4>2. QED BY <4>1 DEF Inv, CrashSafe
    <3>2. committed'[d] =
            IF \E i \in DOMAIN todo : todo[i] = [kind |-> "promote", dest |-> d] THEN begun
            ELSE IF \E i \in DOMAIN todo : todo[i].dest = d THEN NoFile
            ELSE committed[d]
      BY <1>6 DEF WriteJournal
    <3>3. CASE \A i \in DOMAIN todo : todo[i].dest # d
      <4>1. Recovered'[d] = live'[d]
        BY <3>3, <2>1, <2>2, <1>t, RecoveredAt DEF Recovered
      <4>2. ~ \E i \in DOMAIN todo : todo[i] = [kind |-> "promote", dest |-> d]
        BY <3>3
      <4>3. QED BY <2>1, <3>1, <3>2, <3>3, <4>1, <4>2
    <3>4. ASSUME NEW i \in DOMAIN todo, todo[i].dest = d
          PROVE  Recovered'[d] = committed'[d]
      <4>1. todo[i] \in Action
        BY <1>n
      <4>2. (\E j \in DOMAIN todo : todo[j] = [kind |-> "remove", dest |-> d])
            <=> todo[i].kind = "remove"
        BY <3>4, <4>1 DEF Inv, Distinct, Action
      <4>3. (\E j \in DOMAIN todo : todo[j] = [kind |-> "promote", dest |-> d])
            <=> todo[i].kind = "promote"
        BY <3>4, <4>1 DEF Inv, Distinct, Action
      <4>4. todo[i].kind = "promote" => staged[d] = begun
        BY <2>1, <3>4, <1>n DEF StagedUpTo
      <4>5. Recovered'[d] =
              IF \E j \in DOMAIN todo : todo[j] = [kind |-> "remove", dest |-> d]
              THEN NoFile
              ELSE IF staged[d] = NoFile THEN live[d] ELSE staged[d]
        BY <2>1, <3>4 DEF Recovered
      <4>6. todo[i].kind \in {"promote", "remove"}
        BY <4>1 DEF Action
      <4>7. QED BY <3>2, <3>4, <4>2, <4>3, <4>4, <4>5, <4>6, <1>n
    <3>5. QED BY <3>3, <3>4
  <2>5. CrashSafe'
    <3>1. Recovered' = [d \in Destination |-> Recovered'[d]]
      BY DEF Recovered
    <3>2. committed' = [d \in Destination |-> committed'[d]]
      BY <1>6 DEF WriteJournal
    <3>3. QED BY <2>4, <3>1, <3>2 DEF CrashSafe
  <2>6. QED BY <2>2, <2>3, <2>5
<1>r. AfterError = "closed" /\ "clean_start" \in Discipline
  BY DEF Disciplined, Rule, AfterError
<1>7. CASE JournalFail
  <2>1. ~journal.whole
    BY <1>7 DEF JournalFail, Inv, StepInv
  <2>2. ~journal'.whole /\ Distinct(journal'.actions)
    BY <1>7, <2>1, <1>t, TornIsUnfinished DEF JournalFail, Inv
  <2>3. CrashSafe'
    BY <1>7, <2>1, <2>2, NoWholeJournal DEF JournalFail
  <2>4. StepInv' /\ Distinct(todo)' /\ Distinct(journal.actions)'
    BY <1>7, <1>r, <2>2 DEF JournalFail, StepInv, Inv, Distinct
  <2>5. QED BY <2>3, <2>4
<1>8. CASE Apply
  <2>1. /\ at \in DOMAIN todo /\ Current = todo[at] /\ todo[at] \in Action
        /\ pc \in {"applying", "replaying"}
        /\ UNCHANGED <<journal, pc, todo, begun, committed>> /\ at' - 1 = at
    BY <1>8, <1>n, <1>t DEF Apply, Finished, Current, TypeOK
  <2>2. journal.whole /\ todo = journal.actions /\ Done(todo, at - 1)
    BY <2>1, <1>n DEF Inv, StepInv
  <2>3. Distinct(todo)' /\ Distinct(journal.actions)'
    BY <2>1 DEF Inv, Distinct
  <2> DEFINE e == todo[at].dest
  <2>4. /\ e \in Destination
        /\ \A d \in Destination \ {e} : live'[d] = live[d] /\ staged'[d] = staged[d]
        /\ todo[at].kind = "remove" => live'[e] = NoFile /\ staged' = staged
        /\ todo[at].kind # "remove" =>
             /\ staged'[e] = NoFile
             /\ live'[e] = IF staged[e] = NoFile THEN live[e] ELSE staged[e]
    BY <1>8, <2>1, <1>t DEF Apply, TypeOK, Action
  <2>5. Done(todo, at - 1)'
    <3>1. ASSUME NEW i \in DOMAIN todo, i <= at
          PROVE  IF todo[i].kind = "remove" THEN live'[todo[i].dest] = NoFile
                                            ELSE staged'[todo[i].dest] = NoFile
      <4>1. CASE i = at
        BY <2>4, <4>1
      <4>2. CASE i # at
        <5>1. IF todo[i].kind = "remove" THEN live[todo[i].dest] = NoFile
                                         ELSE staged[todo[i].dest] = NoFile
          BY <2>2, <3>1, <4>2, <1>n DEF Done
        <5>2. todo[i].dest \in Destination \ {e}
          BY <4>2, <2>1, <1>n DEF Inv, Distinct, Action
        <5>3. QED BY <2>4, <5>1, <5>2
      <4>3. QED BY <4>1, <4>2
    <3>2. QED BY <2>1, <3>1 DEF Done
  <2>6. StepInv'
    BY <2>1, <2>2, <2>5 DEF Inv, StepInv
  <2>7. ASSUME NEW d \in Destination PROVE Recovered'[d] = Recovered[d]
    <3>1. CASE d # e
      <4>1. live'[d] = live[d] /\ staged'[d] = staged[d]
        BY <2>4, <3>1
      <4>2. QED BY <2>1, <4>1 DEF Recovered
    <3>2. CASE d = e
      <4>1. Recovered[d] = IF todo[at].kind = "remove" THEN NoFile
                           ELSE IF staged[d] = NoFile THEN live[d] ELSE staged[d]
        BY <2>1, <2>2, <3>2, <1>t, RecoveredAt DEF Inv
      <4>2. (\E j \in DOMAIN todo : todo[j] = [kind |-> "remove", dest |-> d])
            <=> todo[at].kind = "remove"
        BY <2>1, <3>2 DEF Inv, Distinct, Action
      <4>3. Recovered'[d] = IF todo[at].kind = "remove" THEN NoFile
                            ELSE IF staged'[d] = NoFile THEN live'[d] ELSE staged'[d]
        BY <2>1, <2>2, <3>2, <4>2 DEF Recovered
      <4>4. QED BY <2>4, <3>2, <4>1, <4>3
    <3>3. QED BY <3>1, <3>2
  <2>8. CrashSafe'
    <3>1. Recovered' = Recovered
      BY <2>7 DEF Recovered
    <3>2. QED BY <2>1, <3>1 DEF Inv, CrashSafe
  <2>9. QED BY <2>3, <2>6, <2>8
<1>9. CASE ApplyFail
  <2>1. pc' = "closed" /\ UNCHANGED <<files, todo, committed>>
    BY <1>9, <1>r DEF ApplyFail
  <2>2. StepInv' /\ Distinct(todo)'
    BY <2>1 DEF Inv, StepInv, Distinct, files
  <2>3. QED BY <2>1, <2>2, SameFiles
<1>10. CASE Forget
  <2>1. UNCHANGED <<live, staged, todo, committed>> /\ pc' = "idle"
    BY <1>10 DEF Forget
  <2>2. journal.whole => Done(journal.actions, Len(journal.actions))
    <3>1. CASE pc = "applying"
      <4>1. at - 1 >= Len(todo)
        BY <1>10, <1>n DEF Forget, Finished
      <4>2. Done(todo, at - 1) /\ todo = journal.actions
        BY <3>1 DEF Inv, StepInv
      <4>3. QED BY <4>1, <4>2, <1>n DEF Done
    <3>2. CASE pc = "discarding"
      BY <3>2 DEF Inv, StepInv
    <3>3. QED BY <1>10, <3>1, <3>2 DEF Forget
  <2>3. CASE journal' = journal
    <3>1. UNCHANGED files
      BY <2>1, <2>3 DEF files
    <3>2. StepInv'
      BY <2>1, <2>2, <2>3 DEF Inv, StepInv, Done
    <3>3. Distinct(todo)'
      BY <2>1 DEF Inv, Distinct
    <3>4. QED BY <2>1, <3>1, <3>2, <3>3, SameFiles
  <2>4. CASE journal' = NoJournal
    <3>1. ~journal'.whole /\ journal'.actions = <<>>
      BY <2>4 DEF NoJournal
    <3>2. Recovered = [d \in Destination |-> live[d]]
      BY <2>2, <1>t, DoneIsLive DEF Inv
    <3>3. Recovered' = [d \in Destination |-> live'[d]]
      BY <3>1 DEF Recovered
    <3>4. CrashSafe'
      BY <2>1, <3>2, <3>3 DEF Inv, CrashSafe
    <3>5. StepInv' /\ Distinct(todo)' /\ Distinct(journal.actions)'
      BY <2>1, <3>1, <1>e DEF StepInv, Inv, Distinct
    <3>6. QED BY <3>4, <3>5
  <2>5. QED BY <1>10, <2>3, <2>4 DEF Forget
<1>11. CASE Discard
  <2>1. ~journal.whole
    <3>1. todo # <<>>
      BY <1>11, <1>n, <1>t DEF Discard, Finished, TypeOK
    <3>2. QED BY <1>11, <3>1 DEF Discard, Inv, StepInv
  <2>2. CrashSafe'
    BY <1>11, <2>1, NoWholeJournal DEF Discard
  <2>3. StepInv' /\ Distinct(todo)' /\ Distinct(journal.actions)'
    BY <1>11, <2>1 DEF Discard, StepInv, Inv, Distinct
  <2>4. QED BY <2>2, <2>3
<1>12. CASE Abandoned
  <2>1. StepInv' /\ Distinct(todo)'
    BY <1>12, <1>r DEF Abandoned, Inv, StepInv, Distinct, files
  <2>2. QED BY <1>12, <2>1, SameFiles DEF Abandoned
<1>13. CASE OpenNothing \/ Close
  <2>1. StepInv' /\ Distinct(todo)'
    BY <1>13 DEF OpenNothing, Close, Inv, StepInv, Distinct, files
  <2>2. QED BY <1>13, <2>1, SameFiles DEF OpenNothing, Close
<1>14. CASE RecoverRead
  <2>1. StepInv' /\ Distinct(todo)'
    <3>1. todo' = IF journal.whole THEN journal.actions ELSE <<>>
      BY <1>14 DEF RecoverRead
    <3>2. Distinct(todo)'
      BY <3>1, <1>e DEF Inv, Distinct
    <3>3. Done(todo, at - 1)'
      <4>1. \A i \in DOMAIN todo' : i \in Nat \ {0}
        BY <1>t DEF TypeOK
      <4>2. QED BY <1>14, <4>1 DEF RecoverRead, Done
    <3>4. QED BY <1>14, <3>1, <3>2, <3>3 DEF RecoverRead, StepInv, files
  <2>2. QED BY <1>14, <2>1, SameFiles DEF RecoverRead
<1>15. CASE RecoverTail
  <2>1. journal.whole => todo = journal.actions /\ Done(journal.actions, Len(journal.actions))
    BY <1>15, <1>n DEF RecoverTail, Finished, Inv, StepInv, Done
  <2>2. StepInv' /\ Distinct(todo)'
    BY <1>15, <2>1, <1>e DEF RecoverTail, StepInv, Done, Inv, Distinct, files
  <2>3. QED BY <1>15, <2>2, SameFiles DEF RecoverTail
<1>16. CASE Crash
  <2>1. pc' = "closed" /\ Distinct(todo)'
    BY <1>16, <1>e DEF Crash, Distinct
  <2>2. CASE pc = "staging"
    <3>1. ~journal.whole
      BY <2>2 DEF Inv, StepInv
    <3>2. ~journal'.whole /\ Distinct(journal'.actions)
      BY <1>16, <2>2, <3>1, <1>t, TornIsUnfinished DEF Crash, Inv
    <3>3. CrashSafe'
      BY <1>16, <3>1, <3>2, NoWholeJournal DEF Crash
    <3>4. Distinct(journal.actions)'
      BY <3>2 DEF Distinct
    <3>5. StepInv'
      BY <2>1, <3>2 DEF StepInv
    <3>6. QED BY <2>1, <3>3, <3>4, <3>5
  <2>3. CASE pc # "staging"
    <3>1. UNCHANGED files /\ UNCHANGED committed
      BY <1>16, <2>3 DEF Crash, files
    <3>2. StepInv'
      BY <2>1, <3>1 DEF Inv, StepInv, files
    <3>3. QED BY <2>1, <3>1, <3>2, SameFiles
  <2>4. QED BY <2>2, <2>3
<1>17. QED
  BY <1>1, <1>2, <1>3, <1>4, <1>5, <1>6, <1>7, <1>8, <1>9, <1>10, <1>11, <1>12,
     <1>13, <1>14, <1>15, <1>16 DEF Next

-----------------------------------------------------------------------------

\* Every variable keeps its kind, under every fault.
THEOREM TypeCorrect == Spec => []TypeOK
<1>1. Init => TypeOK
  BY InvInit DEF Inv
<1>2. QED
  BY <1>1, TypeStep, PTL DEF Spec

LEMMA Invariance == ASSUME Disciplined PROVE Spec => []Inv
BY InvInit, InvStep, PTL DEF Spec

\* A crash is safe at every point: the next open always finds the durable
\* transactions, and only those, done as a whole (journal.rs, FileTransaction).
THEOREM AlwaysCrashSafe == ASSUME Disciplined PROVE Spec => []CrashSafe
<1>1. Inv => CrashSafe
  BY DEF Inv
<1>2. QED
  BY <1>1, Invariance, PTL

\* Between transactions no recovery is needed to read that state.
THEOREM AlwaysSettledWhenIdle == ASSUME Disciplined PROVE Spec => []IdleAgrees
<1>1. Inv => IdleAgrees
  <2> SUFFICES ASSUME Inv, pc = "idle" PROVE live = committed
    BY DEF IdleAgrees
  <2>1. Recovered = [d \in Destination |-> live[d]]
    BY DoneIsLive DEF Inv, StepInv
  <2>2. QED BY <2>1 DEF Inv, CrashSafe, TypeOK
<1>2. QED
  BY <1>1, Invariance, PTL

\* Seen through recovery every file of a transaction changes in one step.
THEOREM Refinement == ASSUME Disciplined PROVE Spec => ImplementsAtomicFiles
<1>1. Init => Atomic!Init
  BY DEF Init, NoJournal, Recovered, Atomic!Init
<1>2. Inv /\ Inv' /\ [Next]_vars => [Atomic!Change]_Recovered
  <2> SUFFICES ASSUME Inv, Inv', [Next]_vars PROVE [Atomic!Change]_Recovered
    OBVIOUS
  <2>1. Recovered = committed /\ Recovered' = committed'
    BY DEF Inv, CrashSafe
  <2>2. CASE WriteJournal
    <3>1. /\ \A i \in DOMAIN todo : todo[i] \in Action
          /\ todo \in Shape /\ begun \in 1 .. MaxTransaction
      BY <2>2 DEF WriteJournal, Inv, StepInv, TypeOK
    <3>2. ASSUME NEW d \in Destination
          PROVE  committed'[d] = Atomic!After(committed, todo, begun)[d]
      <4>1. committed'[d] =
              IF \E i \in DOMAIN todo : todo[i] = [kind |-> "promote", dest |-> d] THEN begun
              ELSE IF \E i \in DOMAIN todo : todo[i].dest = d THEN NoFile
              ELSE committed[d]
        BY <2>2 DEF WriteJournal
      <4>2. Atomic!After(committed, todo, begun)[d] =
              IF \E i \in DOMAIN todo : todo[i].dest = d
              THEN IF \E i \in DOMAIN todo : todo[i] = [kind |-> "remove", dest |-> d]
                   THEN NoFile ELSE begun
              ELSE committed[d]
        BY DEF Atomic!After
      <4>3. CASE \A i \in DOMAIN todo : todo[i].dest # d
        <5>1. ~ \E i \in DOMAIN todo : todo[i] = [kind |-> "promote", dest |-> d]
          BY <4>3
        <5>2. QED BY <4>1, <4>2, <4>3, <5>1
      <4>4. ASSUME NEW i \in DOMAIN todo, todo[i].dest = d
            PROVE  committed'[d] = Atomic!After(committed, todo, begun)[d]
        <5>1. (\E j \in DOMAIN todo : todo[j] = [kind |-> "promote", dest |-> d])
                <=> todo[i].kind = "promote"
          BY <3>1, <4>4 DEF Inv, Distinct, Action
        <5>2. (\E j \in DOMAIN todo : todo[j] = [kind |-> "remove", dest |-> d])
                <=> todo[i].kind = "remove"
          BY <3>1, <4>4 DEF Inv, Distinct, Action
        <5>3. todo[i].kind \in {"promote", "remove"}
          BY <3>1 DEF Action
        <5>4. QED BY <4>1, <4>2, <4>4, <5>1, <5>2, <5>3
      <4>5. QED BY <4>3, <4>4
    <3>3. committed' = Atomic!After(committed, todo, begun)
      <4>1. committed' = [d \in Destination |-> committed'[d]]
        BY <2>2 DEF WriteJournal
      <4>2. Atomic!After(committed, todo, begun) =
              [d \in Destination |-> Atomic!After(committed, todo, begun)[d]]
        BY DEF Atomic!After
      <4>3. QED BY <3>2, <4>1, <4>2
    <3>4. QED BY <2>1, <3>1, <3>3 DEF Atomic!Change
  <2>3. CASE ~WriteJournal
    <3>1. committed' = committed
      BY <2>3 DEF Next, vars, files, Begin, Stage, StageFail, CommitNothing, JournalFail,
                  Apply, ApplyFail, Forget, Discard, Abandoned, OpenNothing,
                  RecoverRead, RecoverTail, Close, Crash
    <3>2. QED BY <2>1, <3>1
  <2>4. QED BY <2>2, <2>3
<1>3. QED
  BY <1>1, <1>2, Invariance, PTL DEF Spec, ImplementsAtomicFiles, Atomic!Spec

=============================================================================
