\* Two jobs, two workers.
CONSTANTS
  j1 = j1
  j2 = j2
  s1 = s1
  s2 = s2
  c1 = c1
  w1 = w1
  w2 = w2
  NoJob = NoJob
  Jobs = {j1, j2}
  Types <- PairTypes
  Slots = {s1, s2}
  Workers = {w1, w2}
  WorkerOf <- OneSlotEach
  Clients = {}
  MaxTokens = 4
  MaxFaults = 1
SYMMETRY JobSymmetry
SPECIFICATION Spec
INVARIANTS
  OutcomeAgrees
  NoOrphanRecord
PROPERTIES
  EndedRecordFrozen
CHECK_DEADLOCK FALSE
