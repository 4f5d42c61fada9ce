SPECIFICATION Spec
CONSTANTS
  f1 = f1  f2 = f2  f3 = f3
  Newline = "n"
  Char = {"a", "b", "n"}
  FlagId = {f1, f2, f3}
  MaxText = 4
  Texts <- ShortTexts
  Suggestions <- Words
SYMMETRY Symmetry
INVARIANTS SpansStayTrue
PROPERTIES NoNewOverlap
CHECK_DEADLOCK FALSE
