SPECIFICATION Spec
CONSTANTS
  Key = {a, b, c}
  Unknown = unknown
  Path = {p}
  MaxDeps = 2
SYMMETRY Symmetry
INVARIANTS PlanIsOneOutcome FiledOnce OnlyCyclesAreCut NeverStuck
CHECK_DEADLOCK FALSE
