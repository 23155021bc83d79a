SPECIFICATION TranslationSpec
CONSTANTS
  Files <- OneOverload
  GoneNames <- Gone
  Strings <- AllStrings
  Debug = TRUE
INVARIANT
  OverloadsApart
CHECK_DEADLOCK FALSE
