SPECIFICATION Spec
CONSTANTS
  MaxCalls = 2
  MaxRuns = 4
  MaxLen = 3
  MaxHeld = 2
  IndexModulus = 3
  NoneRefs = 3
  None = None
  Null = Null
INVARIANT CountsMatchOwners
INVARIANT NoneShortage
INVARIANT HeldIsWhole
CHECK_DEADLOCK FALSE
