SPECIFICATION Spec
CONSTANTS
  w1 = w1
  w2 = w2
  w3 = w3
  n1 = n1
  n2 = n2
  n3 = n3
  Watches = {w1, w3}
  Writers = {n1, n2}
  Nil = Nil
  Events <- MCEvents
  Selects <- MCSelects
  InDir <- MCInDir
  Failing <- ThirdFails
CHECK_DEADLOCK FALSE
INVARIANT
  FailedWatchReleased
