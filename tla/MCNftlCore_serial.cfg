\* Pages of 4096 bytes: a sector is a page.
CONSTANTS
  NSect = 4
  SectPages = 1
  PagesPerBlock = 2
  NLpa = 6
  Data = {d1, d2}
  Fresh = Fresh
SPECIFICATION SerialSpec
SYMMETRY DataSymmetry
INVARIANTS TypeOK Overlay
PROPERTIES ReadsThrough
