SPECIFICATION Spec
CONSTANTS
  t1 = t1  t2 = t2  c1 = c1  c2 = c2  a1 = a1  a2 = a2
  TextHash = {t1, t2}
  ConfigHash = {c1, c2}
  Analysis = {a1, a2}
  NoAnalysis = NoAnalysis
  SizeOption = 2
  TtlOption = 2
  MaxNow = 5
  MaxUses = 4
SYMMETRY Symmetry
INVARIANTS MapListAgree RecencyOrder SweptWithinTtl
PROPERTIES EvictsLeastRecent KeepsPromise
