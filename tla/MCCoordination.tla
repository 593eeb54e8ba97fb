---------------------------- MODULE MCCoordination ----------------------------
(* Instances of Coordination for TLC. *)
EXTENDS Coordination, TLC

\* Notes differ where some are agreed from the start.
Symmetry == Permutations(Works) \cup Permutations(Keys)
===============================================================================
