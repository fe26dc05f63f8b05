SPECIFICATION FairSpec
CONSTANTS
  q1 = q1
  q2 = q2
  b1 = b1
  b2 = b2
  None = None
  Students = {s1}
  Questions = {q1, q2}
  Batches = {b1}
  BatchOf <- OneBatch
  Modes = {"single", "batch"}
  Options = {1}
  Marks = {}
  Movers = {}
  Calls = {t1, t2}
PROPERTIES
  CallsEnd
