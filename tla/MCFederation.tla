---------------------------- MODULE MCFederation ----------------------------
(* Small worlds for Federation: the root and one child share a directory,   *)
(* another child has its own.  Every assignment of targets to the two local *)
(* locators occurs, with a few lists of links per file.  The provider       *)
(* delivers f3.                                                             *)
EXTENDS Federation

CONSTANTS f1, f2, f3, here, there, x, y, z

RootLists == {<<x>>, <<z, y, x>>}

FirstLists == {<<>>, <<x>>, <<y, x>>}

SecondLists == {<<>>, <<y>>, <<x, z>>}

\* Everything is readable and there is a provider, or f1 is not and there is none.
MCWorld ==
  {[base |-> [f \in File |-> IF f = f2 THEN there ELSE here], target |-> target,
    links |-> [f \in File |-> IF f = Root THEN root ELSE IF f = f1 THEN first
                                                ELSE IF f = f2 THEN second ELSE <<y>>],
    readable |-> IF ok THEN File ELSE File \ {f1}, provider |-> ok,
    delivers |-> [r \in Remote |-> f3]] :
     target \in [Base -> [Local -> {Root, f1, f2, Nothing}]],
     root \in RootLists, first \in FirstLists, second \in SecondLists, ok \in BOOLEAN}

MCLimit ==
  {[max_link_depth |-> d, max_link_databases |-> n] : d \in {1, 3}, n \in {1, 4}}

\* The walk ends and stays where it ended.
Ended == pc = "done" /\ UNCHANGED vars

MCSpec == Init /\ [][Next \/ Ended]_vars

=============================================================================
