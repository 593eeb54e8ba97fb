---------------------------- MODULE MCObservation ----------------------------
(* Instances of Observation for TLC. *)
EXTENDS Observation, TLC

CONSTANTS f1, f2, base, a, b

\* two edits apart that say the same, and the input
Compact == [c \in Contents |-> IF c = base THEN "none" ELSE "changed"]

Scenario(edits, refreshes, watches, troubles, readers) ==
  [edits |-> edits, refreshes |-> refreshes, watches |-> watches,
   troubles |-> troubles, readers |-> readers]

\* what the world does: edits under requests, under a trouble, and under readers
Scenarios ==
  {Scenario(2, 1, 0, 0, 0), Scenario(2, 0, 1, 0, 0), Scenario(1, 1, 1, 0, 0),
   Scenario(2, 0, 0, 1, 0), Scenario(1, 1, 0, 1, 0), Scenario(1, 0, 1, 1, 0),
   Scenario(2, 0, 0, 0, 1), Scenario(1, 0, 0, 1, 1)}

\* nothing but readers, with every notice meant for whom it was addressed to
ReadersAlone == {Scenario(2, 0, 0, 0, 1)}

OneByOne == <<{f1}, {f2}>>
=============================================================================
