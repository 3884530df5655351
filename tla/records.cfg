CONSTANTS
  d1 = d1
  d2 = d2
  c1 = c1
  c2 = c2
  s1 = s1
  s2 = s2
  Devices = {d1, d2}
  MaxEntries = 2
  Callers = {c1, c2}
  Sessions = {s1, s2}
  MaxFailures = 1
SPECIFICATION Spec
SYMMETRY Symmetry
INVARIANTS RecordsInv ClosedOnce EvidenceAgrees
PROPERTY RegisterIsLedger
CHECK_DEADLOCK FALSE
