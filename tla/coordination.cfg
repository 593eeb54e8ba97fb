SPECIFICATION Spec
CONSTANTS
  Works = {w1, w2}
  Cases = {c1, c2}
  Notes = {n1}
  Keys = {k1, k2}
  MaxReceipts = 13
  MaxTroubles = 1
  Earlier = 6
  Started = {c1}
  Selecting = {c2}
  Agreed = {n1}
  None = None
SYMMETRY Symmetry
CHECK_DEADLOCK FALSE
INVARIANTS SelectionKept WayOutFits OnePublication OutcomeTruthful ReservedApart
PROPERTIES ReservedStill EffectConsented
