---------------------------- MODULE AtomicFiles ----------------------------
(***************************************************************************)
(* What journal.rs promises of a change that spans several files: seen     *)
(* from the next time the project is opened, every file it names changes   *)
(* in one step, and no other file changes.                                 *)
(***************************************************************************)
EXTENDS Naturals, Sequences

CONSTANTS
  Destination,    \* the files a transaction may replace or remove
  Shape,          \* the lists of actions a transaction may consist of
  Version,        \* what a transaction may write
  NoFile          \* no file at that path

VARIABLE files    \* the contents of each destination

After(before, shape, version) ==
  [d \in Destination |->
     IF \E i \in DOMAIN shape : shape[i].dest = d
     THEN IF [kind |-> "remove", dest |-> d] \in {shape[i] : i \in DOMAIN shape}
          THEN NoFile
          ELSE version
     ELSE before[d]]

Init == files = [d \in Destination |-> 0]

Change == \E shape \in Shape, version \in Version : files' = After(files, shape, version)

Spec == Init /\ [][Change]_files

=============================================================================
