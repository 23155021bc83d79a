SPECIFICATION TranslationSpec
CONSTANTS
  Files <- TwoFiles
  GoneNames <- Gone
  Strings <- AllStrings
  Debug = TRUE
INVARIANTS
  AssertsHold
  ResultsMatch
  FilesStartClean
  TypesReachDeclarations
  PrivateInClass
  NothingLeftOver
  PrintsWhatIsStored
  IndentCoversDocument
CHECK_DEADLOCK FALSE
