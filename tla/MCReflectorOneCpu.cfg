CONSTANTS
  w1 = w1
  w2 = w2
  Main = Main
  Workers = {w1, w2}
  NumFiles = 2
  ResultCapacity = 1
  HardwareConcurrencies = {1}
  UnsignedModulus = 256
  MaxDecls = 1
SPECIFICATION Spec
SYMMETRY WorkerSymmetry
INVARIANTS
  EveryFileHandled
