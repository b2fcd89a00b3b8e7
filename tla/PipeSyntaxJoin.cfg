SPECIFICATION Spec
CONSTANTS
  MaxNodes = 2
  Plans <- MCPlans
INVARIANTS IgnoredOperandsAreSubplans
CHECK_DEADLOCK FALSE
