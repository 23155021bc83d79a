CONSTANT
  Symbols = {"}", ">", ";"}
SPECIFICATION AnnotatedSpec
INVARIANT AnnotationsAccepted
