\* Two scans, one comparison; two workers, one request at a time and the command line.
CONSTANTS
  s1 = s1
  s2 = s2
  p1 = p1
  p2 = p2
  p3 = p3
  p4 = p4
  Unseen = Unseen
  None = None
  Cli = cli
  Scans = {s1, s2}
  Historic = {s1}
  Pages = {p1, p2, p3, p4}
  Previous <- MCPrevious
  Comparisons <- MCComparisons
  Evidence <- MCEvidence
  Links <- MCLinks
  Workers = {w1, w2}
  Clients = {c1}
  MaxBuilds = 3
  MaxRequests = 1
  MaxFaults = 1
SPECIFICATION Spec
CHECK_DEADLOCK FALSE
INVARIANTS
  TypeOK
  
PROPERTIES
  NothingLeftBehind
