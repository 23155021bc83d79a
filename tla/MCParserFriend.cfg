SPECIFICATION Spec
CONSTANTS
  Files <- OneFriend
  GoneNames <- Gone
INVARIANT
  ScopesFollowBraces
CHECK_DEADLOCK FALSE
