\* Two pages, one selected by users, one content, two runs, two plans; one crash, error or lost lease.
CONSTANTS
  Pages <- MCPages
  Selections <- MCSelections
  MaxRuns = 2
  Domains = {"render", "performance"}
  Payloads = {"x"}
  NoPayload = "-"
  Threshold = 1
  MaxExecutors = 1
  MaxRequests = 3
  MaxFaults = 1
  MaxPlans = 2
  BatchSize <- MCBatchSize
SPECIFICATION Spec
CHECK_DEADLOCK FALSE
INVARIANTS
  TypeOK
  CountsAgree
  CollectedOnce
  PlanTruthful
  CancelPrompt
  PayloadsKept
PROPERTIES
  EndedRunFrozen
