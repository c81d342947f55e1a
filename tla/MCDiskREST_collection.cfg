SPECIFICATION FairSpec
CONSTANTS
  k1 = k1
  s0 = s0
  s1 = s1
  s2 = s2
  t1 = t1
  f1 = f1
  Specs <- MCSpecs
  Statuses <- MCStatuses
  Finalizers <- MCFinalizers
  ErrNotExist = ErrNotExist
  Torn = Torn
  Zero <- MCZero
  Nil = Nil
  Namespaces <- MCNamespaces
  Keys = {k1}
  Requests = {r1, r2}
  Drafts <- PlainOnly
  Changes <- PutOnly
  Selectors <- SomeSelector
  MaxStarts = 2
CHECK_DEADLOCK FALSE
PROPERTY
  CollectionAnswered
