---------------------------- MODULE TaskContract -----------------------------
(***************************************************************************)
(* What the service promises about one accepted task, whatever happens     *)
(* inside it: one result at most, never rewritten; a promised stop is      *)
(* never answered with the worker's own outcome; a closed task stays       *)
(* closed.  TaskLifecycle implements this specification.                   *)
(***************************************************************************)
VARIABLES
  stopPromised,   \* a cancellation was accepted
  published,      \* the outcome in the immutable result, or "none"
  closed          \* the task is terminal

vars == <<stopPromised, published, closed>>

Own == {"completed", "blocked", "failed"}          \* outcomes of the worker
Stopped == {"cancelled", "interrupted"}

Init == stopPromised = FALSE /\ published = "none" /\ closed = FALSE

PromiseStop ==
  /\ published = "none"
  /\ stopPromised' = TRUE
  /\ UNCHANGED <<published, closed>>

Publish ==
  /\ published = "none"
  /\ ~closed
  /\ published' \in IF stopPromised THEN Stopped ELSE Own \cup Stopped
  /\ UNCHANGED <<stopPromised, closed>>

Close ==
  /\ published # "none"
  /\ closed' = TRUE
  /\ UNCHANGED <<stopPromised, published>>

Next == PromiseStop \/ Publish \/ Close

Spec == Init /\ [][Next]_vars
=============================================================================
