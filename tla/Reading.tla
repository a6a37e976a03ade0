------------------------------- MODULE Reading -------------------------------
(***************************************************************************)
(* How a reader goes on or gives up, and what is made of every item.       *)
(*                                                                         *)
(* A reader is a state with a flag `ok` and what was read last in `out`;   *)
(* each step returns the next state.  Something that may be absent is a    *)
(* sequence of at most one.                                                *)
(***************************************************************************)
EXTENDS Naturals, Sequences, SequencesExt

CONSTANT ValidAs  \* for each role of a text, the texts its constructor takes

Suits(text, role) == text \in ValidAs[role]

Wrong(s) == [s EXCEPT !.ok = FALSE]
Out(s, read) == [s EXCEPT !.out = read]

\* Goes on from what was read, unless it was wrong.
Then(s, Next(_, _)) == IF s.ok THEN Next(s.out, s) ELSE s

Accepted(s) == IF s.ok THEN <<s.out>> ELSE << >>

\* What Of makes of each item, as a sequence TLC keeps: `\o` evaluates it once.
Each(items, Of(_)) == [i \in DOMAIN items |-> Of(items[i])] \o << >>

Flat(parts) == FlattenSeq(parts)
InTurn(items, Of(_)) == Flat(Each(items, Of))
AllOf(items, Of(_)) == UNION {Of(items[i]) : i \in DOMAIN items}

When(condition, found) == IF condition THEN {found} ELSE {}
Repeats(items) == \E i, j \in DOMAIN items : i < j /\ items[i] = items[j]

=============================================================================
