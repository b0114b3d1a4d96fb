------------------------------ MODULE LiveEdits ------------------------------
(***************************************************************************)
(* What a live run promises: the edits the server has issued reach the     *)
(* image of darktable in order and once each, in as many portions as the   *)
(* polling happens to make of them, and a run that ends well leaves no     *)
(* edit out.  LiveRun is shown to implement this.                          *)
(***************************************************************************)
EXTENDS Naturals, Sequences

CONSTANT MaxOps   \* bound: edits of one run

VARIABLES
  issued,   \* number of edits the server has issued; edit i is the i-th one
  image,    \* the edits in the history of the image, in order
  phase     \* "running"; "applied": the run ended well; "ended": any other
            \* end; "broken": darktable could not apply an edit

vars == <<issued, image, phase>>

FirstEdits(n) == [i \in 1 .. n |-> i]

Init == issued = 0 /\ image = <<>> /\ phase = "running"

\* The server issues the next edit, or several with the final plan.
Issue ==
  /\ issued' \in issued + 1 .. MaxOps
  /\ UNCHANGED <<image, phase>>

\* darktable applies a portion of the edits that it has not applied yet.
Apply ==
  /\ phase = "running"
  /\ \E n \in Len(image) + 1 .. issued : image' = FirstEdits(n)
  /\ UNCHANGED <<issued, phase>>

\* The final response: the edits that are missing, and the end.
Finish ==
  /\ phase = "running"
  /\ image' = FirstEdits(issued) /\ phase' = "applied"
  /\ UNCHANGED issued

\* A cancel, an error or a lost connection.
Stop == phase = "running" /\ phase' = "ended" /\ UNCHANGED <<issued, image>>

\* After a failed edit the image is no longer a prefix of the run.
Break == phase' = "broken"

Next == Issue \/ Apply \/ Finish \/ Stop \/ Break

Spec == Init /\ [][Next]_vars
=============================================================================
