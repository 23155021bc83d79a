CONSTANTS
  w1 = w1
  w2 = w2
  Main = Main
  Workers = {w1, w2}
  NumFiles = 2
  ResultCapacity = 1
  HardwareConcurrencies = {0, 2, 3}
  UnsignedModulus = 256
  MaxDecls = 0
SPECIFICATION FairSpec
INVARIANTS
  TypeOK
  CollectedAll
  MessagesFollowFile
  ReportsParsedFiles
  NobodyWaitsInVain
PROPERTIES
  Termination
  ImplementsSerialRun
