\* One job of every type, two workers.
CONSTANTS
  j1 = j1
  j2 = j2
  s1 = s1
  s2 = s2
  c1 = c1
  w1 = w1
  w2 = w2
  NoJob = NoJob
  Jobs = {j1}
  Types <- RecordTypes
  Slots = {s1, s2}
  Workers = {w1, w2}
  WorkerOf <- OneSlotEach
  Clients = {}
  MaxTokens = 4
  MaxFaults = 1
SPECIFICATION FairSpec
INVARIANTS
  TypeOK
  SingleOwner
  FollowupsStaged
  OutcomeAgrees
PROPERTIES
  LegalSteps
  EveryJobSettles
CHECK_DEADLOCK FALSE
