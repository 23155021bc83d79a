SPECIFICATION Spec
CONSTANTS
  Files <- OnePlain
  GoneNames <- Gone
INVARIANTS
  TypeOK
  ScopesFollowBraces
  ReadToTheEnd
PROPERTY Advances
CHECK_DEADLOCK FALSE
