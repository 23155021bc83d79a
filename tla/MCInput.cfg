CONSTANT
  Symbols = {"}", ">", ";"}
SPECIFICATION AnySpec
INVARIANTS
  ListedFiles
  AnnotationsAccepted
  HangsOnlyUnclosed
  IncludesTold
  CommentInFront
PROPERTY
  ImplementsTokenStream
