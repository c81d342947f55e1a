SPECIFICATION Spec
CONSTANTS
  Missing = Missing
  Torn = Torn
  UserPair = UserPair
  GeneratedPair = GeneratedPair
  Nil = Nil
  Servers = {v1, v2}
  Configurations <- Everything
  MaxStarts = 4
  MaxCrashes = 1
CONSTRAINT ManyStartsInDir
SYMMETRY ServerSymmetry
INVARIANTS
  UndisturbedFindsPair
  LoopbackDialsListener
  PanicNeedsOwnListener
  UndisturbedLoopbackTrusts
PROPERTY
  ServesGoodPair
