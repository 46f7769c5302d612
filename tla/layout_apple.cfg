CONSTANTS
  Toolchains <- Apple
  Defines = {}
  MaxDefines = 0
SPECIFICATION Spec
CHECK_DEADLOCK FALSE
INVARIANTS ReadAsWritten
