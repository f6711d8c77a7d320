SPECIFICATION Spec
CONSTANTS
  Symbols = {"S"}
  Epsilon = 5
  Step = 5
  Requests = {r1, r2, r3}
  Days <- SequentialDays
  NoDay = NoDay
  CreateBodies <- OversellCreateBodies
  UpdateBodies <- NoUpdateBodies
  MaxInFlight = 3
SYMMETRY RequestSymmetry
INVARIANTS LedgerValid
