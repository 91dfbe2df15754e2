SPECIFICATION Spec
CONSTANTS
  Base = 4
  XorByte <- MCXor
  Inputs <- MCInputs
  Page = 70
  Extra = {0, 3}
  MaxOps = 4
INVARIANTS
  TextKept
  SlicesAreTables
  DetectionRight
