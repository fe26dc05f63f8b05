SPECIFICATION Spec
CONSTANTS
  Students = {s1}
  Versions = {1}
  MaxAttempts = 2
  Questions = {q1}
  StartKeys = {k1}
  SubmitKeys = {j1}
  NoKey = NoKey
  Calls = {c1, c2}
SYMMETRY Symmetry
INVARIANTS
  AttemptsAgree
  SubmitMeansRecorded
PROPERTIES
  FinalStays
