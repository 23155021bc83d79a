SPECIFICATION Spec
CONSTANTS
  Files <- OneAny
  GoneNames <- Gone
INVARIANT
  ReadToTheEnd
CHECK_DEADLOCK FALSE
