SPECIFICATION Spec
CONSTANTS
  Symbols = {"S"}
  Epsilon = 5
  Step = 5
  Requests = {r1, r2, r3, r4}
  Days <- RaceDays
  NoDay = NoDay
  CreateBodies <- RaceCreateBodies
  UpdateBodies <- RaceUpdateBodies
  MaxInFlight = 4
INVARIANTS TypeOK OneDiaryPerDay RowsHaveDiary
PROPERTIES RowsStayPut ReviewKept AppendsOnlyAdd
SYMMETRY RequestSymmetry
