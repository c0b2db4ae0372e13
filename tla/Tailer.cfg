SPECIFICATION Spec
CONSTANTS
  a = a
  b = b
  NL = NL
  Absent = Absent
  NoTailer = NoTailer
  Char = {a, b}
  MaxLine = 3
  MaxFile = 6
  MaxStart = 2
  MaxGen = 1
  Environment = {"truncate", "delete", "read_error"}
SYMMETRY SymmetricChars
INVARIANTS TypeOK LinesAreExact OnlyFirstLineSuffers
CHECK_DEADLOCK FALSE
