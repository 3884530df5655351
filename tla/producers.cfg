CONSTANTS
  a1 = a1
  a2 = a2
  r1 = r1
  r2 = r2
  r3 = r3
  AgentEvents <- MCAgentEvents
  Events <- MCEvents
  Rows <- MCRows
  TableOf <- MCTableOf
  Exportable = {r1, r3}
  Hashed = {r1, r2}
  BatchLimit = 1
  Lookback = 1
  MaxNow = 3
  MaxRuns = 2
  MaxFaults = 2
  MaxInputs = 2
  BatchSize = 5
  AttemptCap = 0
SPECIFICATION Spec
INVARIANTS TypeOK EventsAccounted RowsCaught
CHECK_DEADLOCK FALSE
