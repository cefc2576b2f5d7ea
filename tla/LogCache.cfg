SPECIFICATION Spec
CONSTANTS
  t1 = t1
  t2 = t2
  t3 = t3
  others = {o1, o2, o3, o4, o5}
  Tag <- Tags
  Text <- TextOf
  Settable = {t1}
  Level = {1, 2}
  DefaultLevel = 1
  CacheSize = 7
  GenerationMax = 9
  NotSet = NotSet
SYMMETRY Sym
INVARIANTS HeapOrder CachedIsCurrent
PROPERTY LruSpec
CHECK_DEADLOCK FALSE
