\* What a read returns.
CONSTANTS
  NSect = 3
  SectPages = 1
  PagesPerBlock = 2
  NLpa = 4
  Data = {d1, d2}
  Fresh = Fresh
SPECIFICATION SerialSpec
SYMMETRY DataSymmetry
PROPERTIES ReadsLatest
