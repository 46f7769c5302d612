CONSTANTS
  Toolchains <- WindowsAndLinux
  Defines <- UserMacros
  MaxDefines = 9
SPECIFICATION Spec
CHECK_DEADLOCK FALSE
INVARIANTS ReadAsWritten WordSizeForced
