SPECIFICATION Spec
CONSTANTS
  Requests = {r1, r2, r3, r4, r5}
SYMMETRY RequestSymmetry
INVARIANTS TypeOK OneLiveTokenPerFamily UsableTokenKnowsPassword RotationIsAChain
PROPERTIES DeadFamiliesStayDead OnlyCurrentTokensRotate ReplayRevokesOneFamily ImplementsDevices
