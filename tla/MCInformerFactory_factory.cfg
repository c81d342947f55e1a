SPECIFICATION FairSpec
CONSTANTS
  Callers = {c1, c2}
  Types = {Manifest, other}
  Manifest = Manifest
  Channels = {ch1, ch2}
  MaxCalls = 6
  Nil = Nil
CHECK_DEADLOCK FALSE
INVARIANTS
  OneInformerPerType
  ShutdownIsFinal
PROPERTIES
  WaitsForStarted
  CallsReturn
