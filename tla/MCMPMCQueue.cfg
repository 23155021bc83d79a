CONSTANTS
  t1 = t1
  t2 = t2
  a = a
  b = b
  Raw = Raw
  Threads = {t1, t2}
  Values = {a, b}
  Capacity = 2
  MaxTickets = 5
SPECIFICATION Spec
SYMMETRY QueueSymmetry
CHECK_DEADLOCK FALSE
PROPERTIES
  ImplementsChannel
  RefusedOnlyWhileNotReady
INVARIANTS
  TypeOK
  WaitsForAnother
  SlotExclusive
  StorageLifecycle
  DeliversOwnTicket
