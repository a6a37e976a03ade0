------------------------------- MODULE MCBuild -------------------------------
(* A tree of two analyzed files and one no analyzer covers, in two           *)
(* directories, with an image one of the contents imports.  The second       *)
(* release reads a declaration the first one passed over.                    *)
EXTENDS Build, TLC

CONSTANTS p1, p2, p3, logo, dir, rust, text, c1, c2, a, b, old, new

MCFiles == <<p1, p2, p3>>

MCParent == [x \in {p1, p2, p3, dir} |-> IF x = p1 THEN dir ELSE Root]

MCLanguage == [x \in {p1, p2, p3} |-> IF x = p3 THEN text ELSE rust]

Item(name, references) == [name |-> name, references |-> references]

\* c1 declares b twice, and calls a; c2 declares a and is the handler of a route.
MCParse ==
  [k \in [digest : {c1, c2}, language : {rust}, version : {old, new}] |->
     IF k.digest = c1
     THEN [items |-> <<Item(b, {a}), Item(b, {})>>, imports |-> {p2, logo}, routes |-> {}]
     ELSE [items |-> IF k.version = new THEN <<Item(a, {b}), Item(b, {})>>
                     ELSE <<Item(a, {b})>>,
           imports |-> {}, routes |-> {a}]]

\* The first release finds a project without an image.
MCInit ==
  /\ Init
  /\ version = old
  /\ present = {}
  /\ tree = (p1 :> c1 @@ p2 :> c2 @@ p3 :> c1)

\* The bounds are reached; the system itself never stops.
Ended == pc = "idle" /\ builds = MaxBuilds /\ edits = MaxEdits /\ UNCHANGED vars

MCSpec == MCInit /\ [][Next \/ Ended]_vars

=============================================================================
