SPECIFICATION Spec
CONSTANTS
  Students = {s1}
  Versions = {1}
  MaxAttempts = 1
  Questions = {q1}
  StartKeys = {k1}
  SubmitKeys = {j1}
  NoKey = NoKey
  Calls = {c1}
INVARIANT EvidenceMatchesResult
