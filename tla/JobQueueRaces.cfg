\* One job of every type, a cancellation that may be overtaken.
CONSTANTS
  j1 = j1
  j2 = j2
  s1 = s1
  s2 = s2
  c1 = c1
  w1 = w1
  w2 = w2
  NoJob = NoJob
  Jobs = {j1}
  Types <- AllTypes
  Slots = {s1, s2}
  Workers = {w1, w2}
  WorkerOf <- OneSlotEach
  Clients = {c1}
  MaxTokens = 4
  MaxFaults = 1
SPECIFICATION FairSpec
INVARIANTS
  NoOrphanRecord
PROPERTIES
  ImplementsLease
  LostLeaseStaysLost
CHECK_DEADLOCK FALSE
