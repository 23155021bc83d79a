SPECIFICATION BoundedSpec
CONSTANTS
  Calls <- AnyCalls
  Debug = TRUE
  Strings <- AllStrings
  MaxDepth = 2
  MaxTypes = 1
INVARIANTS
  TypeOK
  FilesStartClean
CHECK_DEADLOCK FALSE
