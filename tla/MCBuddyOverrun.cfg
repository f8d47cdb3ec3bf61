SPECIFICATION OverrunSpec
CONSTANTS
  Units = 6
  MaxOrder = 2
  NULL = NULL
INVARIANT HeldIsValid
