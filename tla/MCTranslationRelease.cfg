SPECIFICATION TranslationSpec
CONSTANTS
  Files <- OneFile
  GoneNames <- Gone
  Strings <- AllStrings
  Debug = FALSE
INVARIANT
  FilesStartClean
CHECK_DEADLOCK FALSE
