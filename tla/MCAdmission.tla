----------------------------- MODULE MCAdmission -----------------------------
(* Instances of Admission for TLC. *)
EXTENDS Admission, TLC

CONSTANTS i1, i2, k1, k2, alice, bob

TwoOwners == [i \in Intents |-> IF i = i1 THEN alice ELSE bob]
OneOwner == [i \in Intents |-> alice]

BothForms == [k \in Keys |-> {"plain", "coordinated"}]
OneForm == [k \in Keys |-> IF k = k1 THEN {"coordinated"} ELSE {"plain"}]

Symmetry == Permutations(Tasks) \cup Permutations(Keys)
=============================================================================
