CONSTANTS
  Bundles = {b1, b2}
  Hashes = {h1, h2}
  NoHash = NoHash
  NoBundle = NoBundle
  MaxAttempts = 1
  MaxFaults = 2
  Callers = {c1, c2}
  Reapers = {r1}
SYMMETRY Alike
SPECIFICATION Spec
INVARIANTS TypeOK ExclusiveHandOver VerifiedHashStable
