CONSTANTS
  Size = 24
  Bytes = {{}, {0}, {1, 7}, {0, 1, 2, 3, 4, 5, 6, 7}}
SPECIFICATION Spec
CHECK_DEADLOCK FALSE
INVARIANTS CopyExact CompareExact SetExact PatternRepeats SwapReverses
