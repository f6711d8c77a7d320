SPECIFICATION Spec
CONSTANTS
  Symbols = {"S"}
  Epsilon = 5
  Step = 5
  Requests = {r1, r2, r3}
  Days <- SequentialDays
  NoDay = NoDay
  CreateBodies <- SequentialCreateBodies
  UpdateBodies <- SequentialUpdateBodies
  MaxInFlight = 1
SYMMETRY RequestSymmetry
INVARIANTS LedgerValidWithoutTies
