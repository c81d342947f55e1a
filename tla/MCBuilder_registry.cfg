SPECIFICATION Spec
CONSTANTS
  Nil = Nil
  Resources <- AllResources
  MaxCalls = 3
  Definitions <- AllDefinitions
INVARIANTS
  TypeOK
  StorageSharedRightly
  ServesWhatItKnows
  FailsForAReason
  DocumentClosed
  OneKindPerModel
