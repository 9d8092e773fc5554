CONSTANTS
  Names = {"c", "c1"}
  Short = {"c"}
  MaxOps = 3
  MaxFaults = 2
  Look <- MCLook
SPECIFICATION Spec
INVARIANTS AccountSurvives SwitchIsWhole StartRepairsWrappers
CHECK_DEADLOCK FALSE
