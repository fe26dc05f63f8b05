SPECIFICATION Spec
CONSTANTS
  q1 = q1
  q2 = q2
  b1 = b1
  b2 = b2
  None = None
  Students = {s1}
  Questions = {q1, q2}
  Batches = {b1, b2}
  BatchOf <- TwoBatches
  Modes = {"single", "batch"}
  Options = {1}
  Marks = {"absent"}
  Movers = {s1}
  Calls = {t1, t2}
SYMMETRY Symmetry
INVARIANTS
  RecordIsConsistent
  OverrideStands
PROPERTIES
  AnswersStop
