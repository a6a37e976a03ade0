------------------------------- MODULE Outcome -------------------------------
(***************************************************************************)
(* What src/execute.rs and src/mutate.rs hand from one step to the next:   *)
(* values, rows, and outcomes, which the `?` operator cuts short.  A value *)
(* is a tuple that begins with its kind.  A row binds names, which are     *)
(* sequences of spellings, as a column may be named by an expression.      *)
(***************************************************************************)
EXTENDS Integers, Sequences, SequencesExt, FiniteSets, TLC

Unsupported == "CYPHER_UNSUPPORTED"
Semantic == "CYPHER_SEMANTIC_ERROR"

Null == <<"null">>
Boolean(b) == <<"boolean", b>>
Integer(n) == <<"integer", n>>
Text(t) == <<"text", t>>

is_truthy(v) == v = Boolean(TRUE)

Yes(value) == <<"ok", value>>
Refuse(code) == <<"refused", code>>
IsRefused(result) == result[1] = "refused"

\* The rest of a computation that the `?` operator may cut short.
Bind(result, Rest(_)) == IF IsRefused(result) THEN result ELSE Rest(result[2])

\* The values of some results, or the first refusal.
Sequenced(results) ==
  IF \E i \in DOMAIN results : IsRefused(results[i])
  THEN results[Min({i \in DOMAIN results : IsRefused(results[i])})]
  ELSE Yes([i \in DOMAIN results |-> results[i][2]])

\* What Do gives for each element, or the first refusal.
Each(items, Do(_)) == Sequenced([i \in DOMAIN items |-> Do(items[i])])

Joined(sequences) == FoldLeft(LAMBDA all, s : all \o s, << >>, sequences)

Collect(items, Do(_)) == Bind(Each(items, Do), LAMBDA found : Yes(Joined(found)))

\* The elements Keep accepts.
KeptBy(items, Keep(_)) ==
  Collect(items, LAMBDA item : Bind(Keep(item), LAMBDA keep : Yes(IF keep THEN <<item>> ELSE << >>)))

-----------------------------------------------------------------------------
(* Order                                                                    *)

Sign(n) == IF n < 0 THEN -1 ELSE IF n > 0 THEN 1 ELSE 0

\* Sequences element by element, a prefix first.
CompareSeq(s, t, Order(_, _)) ==
  LET differ == {i \in DOMAIN s \intersect DOMAIN t : Order(s[i], t[i]) # 0} IN
  IF differ = {} THEN Sign(Len(s) - Len(t)) ELSE Order(s[Min(differ)], t[Min(differ)])

\* A set in a strict order.
Ranked(set, Before(_, _)) ==
  [k \in 1 .. Cardinality(set) |->
     CHOOSE i \in set : Cardinality({j \in set : Before(j, i)}) = k - 1]

\* A stable sort of the elements by the keys.
SortedBy(items, keys, Order(_, _)) ==
  LET before(i, j) == LET c == Order(keys[i], keys[j]) IN c < 0 \/ (c = 0 /\ i < j)
      places == Ranked(DOMAIN items, before)
  IN  [k \in DOMAIN items |-> items[places[k]]]

\* The first of the elements that the order puts at the same place.
Distinct(items, Order(_, _)) ==
  LET first == {i \in DOMAIN items : \A j \in 1 .. i - 1 : Order(items[j], items[i]) # 0}
      places == Ranked(first, <)
  IN  [k \in DOMAIN places |-> items[places[k]]]

-----------------------------------------------------------------------------
(* Rows                                                                     *)

EmptyRow == [name \in {} |-> Null]
Extended(row, name, value) == (name :> value) @@ row

Bound(row, name) == IF name \in DOMAIN row THEN Yes(row[name]) ELSE Refuse(Semantic)

Row(columns, values) == [name \in ToSet(columns) |->
                           values[Max({i \in DOMAIN columns : columns[i] = name})]]

-----------------------------------------------------------------------------
(* Stored values                                                            *)

Scalar == {"boolean", "integer", "float", "text"}

\* A stored value as a sequence of at most one: null stores nothing.
stored_value(v) ==
  CASE v[1] = "null" -> Yes(<< >>)
    [] v[1] \in Scalar -> Yes(<<v>>)
    [] v[1] = "list" /\ \A i \in DOMAIN v[2] : v[2][i][1] \in Scalar -> Yes(<<v>>)
    [] OTHER -> Refuse(Semantic)

=============================================================================
