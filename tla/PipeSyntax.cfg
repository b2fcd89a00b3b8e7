SPECIFICATION Spec
CONSTANTS
  MaxNodes = 4
  Plans <- MCPlans
INVARIANTS EachNodeOnce InputsComeFirst ConditionsKept OperandsAreNamed
CHECK_DEADLOCK FALSE
