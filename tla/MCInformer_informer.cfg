SPECIFICATION SeededSpec
CONSTANTS
  Keys = {k1}
  s1 = s1
  s2 = s2
  t1 = t1
  f1 = f1
  Specs <- MCSpecs
  Statuses = {t1}
  Finalizers = {f1}
  ErrNotExist = ErrNotExist
  Nil = Nil
  Requests = {r1, r2}
  Drafts <- OneDraft
  Changes <- SpecOrDrain
  Dirs <- AllDirs
  Selectors <- Everything
  maxAttempts = 2
  Watches = {w1, w2}
SYMMETRY RequestSymmetry
INVARIANTS
  CacheFollowsStore
  InformerSettles
PROPERTIES
  CacheNeverGoesBack
