SPECIFICATION Spec
CONSTANTS
  Nil = Nil
  Resources <- AllResources
  MaxCalls = 2
  Definitions <- AllDefinitions
INVARIANT
  VersionsShareStorage
