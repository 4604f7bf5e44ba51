\* Five pages, four sources, one crawl at a time; three requests, two failures.
CONSTANTS
  Pages <- MCPages
  InScope <- MCInScope
  Sources <- MCSources
  Selections <- MCSelections
  Kind <- MCKind
  Created = {"map"}
  Documents <- MCDocuments
  MaxRefreshes = 2
  MaxRequests = 3
  MaxFaults = 2
  Start = 1
  Links <- MCLinks
  SeedChoices <- MCSeedChoices
  MaxPages = 3
  MaxDepth = 1
  MaxAttempts = 2
  PageBody = "page"
  ErrorBody = "error"
  NoBody = "-"
  MaxScans = 2
  MaxCrawlers = 1
SPECIFICATION Spec
CHECK_DEADLOCK FALSE
INVARIANTS
  TypeOK
  RowsAgree
  CrawlComplete
  FilesKept
PROPERTIES
  RetiredByWholeList
  WorkSettles
