SPECIFICATION Spec
CONSTANTS
  c1 = c1  c2 = c2  h = h  t1 = t1  t2 = t2  i1 = i1  i2 = i2
  Client = {c1, c2}
  Http = {h}
  Text = {t1, t2}
  FlagId = {i1, i2}
  Engine <- TextFinds
  Plugin <- PluginFinds
  MaxRuns = 2
SYMMETRY Symmetry
INVARIANTS OwnFlags RejectedNotFixed CacheIsComplete
CHECK_DEADLOCK FALSE
