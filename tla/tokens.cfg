CONSTANTS
  h1 = h1
  Ids = {p1, p2, p3}
  HMIs = {h1}
  None = None
  Keys = {k1, k2}
  Scopes = {"read", "write"}
  ScopesOf <- ReadOnly
  AccessTTL = 1
  RefreshTTL = 2
  ServerGrace = 1
  RPiGrace = 2
  MaxSkew = 1
SYMMETRY IdSymmetry
SPECIFICATION Spec
INVARIANTS TokenInv RotatedOnce VerifiersAgree
