\* Two scans, one refresh, two evaluations; up to two switches by users and one retry.
CONSTANTS
  p1 = p1
  r1 = r1
  Missing = Missing
  Invalid = Invalid
  Normalize <- MCNormalize
  Pages = {p1}
  Roots = {r1}
  Detectors = {"page_http_error", "sitemap_page_http_error"}
  Crawls <- MCCrawls
  Trees <- MCTrees
  MaxScans = 2
  MaxRefreshes = 1
  MaxEvaluations = 2
  MaxSwitches = 2
  MaxRetries = 1
SPECIFICATION Spec
CHECK_DEADLOCK FALSE
INVARIANTS
  NewestApplied
PROPERTIES
  WorkEnds
