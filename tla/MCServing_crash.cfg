SPECIFICATION Spec
CONSTANTS
  Missing = Missing
  Torn = Torn
  UserPair = UserPair
  GeneratedPair = GeneratedPair
  Nil = Nil
  Servers = {v1}
  Configurations <- Disagreements
  MaxStarts = 2
  MaxCrashes = 1
INVARIANT
  GeneratesPair
