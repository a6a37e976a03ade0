------------------------- MODULE MCFileTransaction -------------------------
(* The four lists of files Project::commit_link_change can stage, a removal, *)
(* and the empty transaction.                                                *)
EXTENDS FileTransaction

CONSTANTS db, settings, nost, baseline

MCDestination == {db, settings, nost, baseline}

Write(d) == [kind |-> "promote", dest |-> d]

MCShape ==
  { <<Write(db)>>,
    <<Write(db), Write(settings)>>,
    <<Write(db), Write(nost), Write(baseline)>>,
    <<Write(db), Write(settings), Write(nost), Write(baseline)>>,
    <<Write(settings), [kind |-> "remove", dest |-> nost]>>,
    <<>> }
=============================================================================
