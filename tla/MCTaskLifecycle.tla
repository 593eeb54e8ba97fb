--------------------------- MODULE MCTaskLifecycle ---------------------------
(***************************************************************************)
(* Instances of TaskLifecycle for TLC.                                     *)
(***************************************************************************)
EXTENDS TaskLifecycle, TLC

CONSTANTS alice, bob, k1, k2, k3, i1, op1, ownerA, ownerB

\* Two clients of two owners: adoption changes who may act.
OneEach == alice :> ownerA @@ bob :> ownerB

Alone == alice :> ownerA

KeySymmetry == Permutations(Keys)
=============================================================================
