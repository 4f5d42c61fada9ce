SPECIFICATION Spec
CONSTANTS
  p = p  q = q  m1 = m1  m2 = m2
  Found <- Directory
  Method = {m1, m2}
  Offers <- Methods
  Rules <- RuleFile
  Request = {r1, r2}
INVARIANTS EveryProcessHeld LoadedRulesServed
PROPERTY AnalysesEnd
CHECK_DEADLOCK FALSE
