CONSTANTS
  n1 = n1
  k1 = k1
  Nodes = {n1}
  Senders = {t1, t2}
  NodeOf <- OneNode
  Keys = {k1, k2}
  KeyOf <- OwnKey
  NoKey = NoKey
  Registrars = {r1}
  Importers = {i1, i2}
  Nobody = Nobody
  MaxCounter = 4
  MaxFaults = 2
  WindowBack = 1
  WindowForward = 2
  MaxSeen = 2
SYMMETRY ThreadSymmetry
SPECIFICATION Spec
INVARIANTS CounterInv UnknownNeverSent
PROPERTIES FirstArrivalAccepted ImportsRise ChannelsKept
