---------------------------- MODULE UndoTimeline ----------------------------
(***************************************************************************)
(* What undo promises: one line of changes and a place on it.  A change is *)
(* recorded at the place and ends the line; undo and redo move the place,  *)
(* change nothing on the line, and never leave it inside of a group.       *)
(***************************************************************************)
EXTENDS Naturals, Sequences, FiniteSets

CONSTANT Items   \* the changes, and the marks at both ends of a group

VARIABLES
  line,   \* the changes, oldest first
  at      \* how many of them are in effect

vars == <<line, at>>

\* The first n changes hold both marks of a group or none.
Whole(n) == Cardinality({k \in 1 .. n : line[k].mark}) % 2 = 0

Init == line = <<>> /\ at = 0

Record ==
  /\ \E i \in Items : line' = Append(SubSeq(line, 1, at), i)
  /\ at' = at + 1

\* Undo and redo.
Move ==
  /\ at' \in {n \in 0 .. Len(line) : n # at /\ Whole(n)}
  /\ UNCHANGED line

Forget == line' = <<>> /\ at' = 0

Next == Record \/ Move \/ Forget

Spec == Init /\ [][Next]_vars
=============================================================================
