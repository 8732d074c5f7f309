CONSTANTS
  r1 = r1
  r2 = r2
  r3 = r3
  Replicas = {r1, r2, r3}
  SeedSpecs <- MCSpecs
SYMMETRY Symmetry
SPECIFICATION Spec
INVARIANTS
  TypeOK
  ReadyWhenUp
  ConflictsBounded
  SomeoneSurvives
