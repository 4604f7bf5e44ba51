\* Two pages in batches of one, one rule, one request that looks before it writes.
CONSTANTS
  q1 = q1
  r1 = r1
  r2 = r2
  r3 = r3
  c1 = c1
  Manual = Manual
  NoRun = NoRun
  Gone = Gone
  Pages <- TwoPages
  Rules = {q1}
  Conditions <- TwoConditions
  Clients = {c1}
  RunIds = {r1, r2, r3}
  BatchSize = 1
  MaxEdits = 3
  MaxStops = 1
SPECIFICATION FairSpec
INVARIANTS
  AgreesWhenIdle
  TriggersCoalesce
PROPERTIES
  ManualKept
  ComesToRest
CHECK_DEADLOCK FALSE
