SPECIFICATION EvidenceSpec
CONSTANTS
  q1 = q1
  q2 = q2
  r1 = r1
  r2 = r2
  None = None
  Proc = {q1, q2}
  Site <- MCSite
  Release = {r1, r2}
  Proven = r1
  Catalogue <- MCCatalogue
  Snapshots = {}
  Feed <- MCFeed
  Cases <- MCCases
  Flaky = {"core", "github"}
  Tags <- MCTags
  System = {z}
  Canonical = z
  AtServer = TRUE
  Legacy = 3
  MaxMerges = 1
  Refresh = {f1, f2}
  MaxRefreshes = 0
  Sha = {s1, s2}
  Absent = Absent
  Verdicts = {"green"}
  Read = {x1}
  SnapshotMaxAge = 1
  ProofMaxAge = 2
  CacheTtl = 1
  Skew = 1
  MaxTime = 0
  MaxPublications = 0
  MaxReads = 0
INVARIANT CertifiedCanSell
SYMMETRY Symmetry
CHECK_DEADLOCK FALSE
