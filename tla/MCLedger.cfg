SPECIFICATION Spec
CONSTANTS
  Symbols = {S, T}
  Epsilon = 2
  Quantities = {1, 2, 6}
  Dates = {1, 2}
  MaxRows = 4
SYMMETRY SymbolSymmetry
INVARIANTS AcceptedIsCovered CoveredIsAccepted SymbolsIndependent RowOrderIrrelevant
