------------------------------ MODULE MCService ------------------------------
(* Instances of Service for TLC. *)
EXTENDS Service, TLC

CONSTANTS c1, c2

\* Each client sends half of the kinds, and both submit in coordination.
MCAsks == c1 :> {"prepare", "coordinate", "control"} @@ c2 :> {"submit", "coordinate", "stop"}

\* One client that submits.
MCSubmits == c1 :> {"submit"}
=============================================================================
