------------------------------- MODULE MCLinks -------------------------------
(* Two processes, one remote and one local source, one alias. *)
EXTENDS Links

MCDefault == [f \in PlainField |-> "off"] @@ [f \in BudgetField |-> "unlimited"]

\* The global document limits the budget and names a credential.
MCGlobal ==
  [version |-> SupportedVersion,
   fields |-> [f \in PlainField |-> "absent"] @@ [f \in BudgetField |-> "low"],
   links |-> [defined |-> TRUE,
              entries |-> <<[Entry(CHOOSE s \in Remote : TRUE) EXCEPT !.credential = "named"]>>],
   unknown |-> 0]

Processes == Permutations(Process)

=============================================================================
