SPECIFICATION Spec
CONSTANTS
  Keys = {k1, k2}
  s1 = s1
  s2 = s2
  t1 = t1
  t2 = t2
  f1 = f1
  Specs <- MCSpecs
  Statuses <- MCStatuses
  Finalizers <- MCFinalizers
  ErrNotExist = ErrNotExist
  Nil = Nil
  Requests = {r1, r2, r3, r4}
  Drafts <- BothDrafts
  Changes <- AllChanges
  Dirs <- AllDirs
  Selectors <- Everything
  maxAttempts = 2
SYMMETRY Symmetry
INVARIANTS
  IInv
  OneUpdatePerVersion
  VersionNamesState
  SubresourceIsolation
  CreatedObjectsSurvive
  DeletionIsFinal
  DrainedIsBeingRemoved
  LiveStateAnnounced
  GivesUpOnlyUnderContention
  UpdateRemovesDrained
  NoZombie
  ReportedAreGone
PROPERTY
  ImplementsStore
