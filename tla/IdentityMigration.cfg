\* Three resources, one page, two requests, two attempts, one death of the tool.
CONSTANTS
  Urls <- MCUrls
  NoUrl = "-"
  V1 <- MCV1
  V2 <- MCV2
  WithQuery = {"query"}
  Matching = {"deep"}
  Ids <- MCIds
  Rows <- MCRows
  Pages <- MCPages
  Resource <- MCResource
  Row <- MCRow
  Page <- MCPage
  Decisions <- MCDecisions
  Owners = {1, 2}
  NewUrls = {"escaped", "slash"}
  MaxApplies = 2
  MaxWrites = 2
  MaxStarts = 1
  MaxCrashes = 1
SPECIFICATION Spec
CHECK_DEADLOCK FALSE
INVARIANTS
  IdentityAgrees
  WritesKept
PROPERTIES
  MaintenanceEnds
