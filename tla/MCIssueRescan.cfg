SPECIFICATION FairSpec
CONSTANTS
  Refs = {main, topic}
  Main = main
  Tags = {latest}
  Digests = {d1, d2}
  Absent = absent
  CVEs = {cve}
  Packages <- PackagesMC
INVARIANT TypeOK DuplicatesBounded
PROPERTY Reported
CHECK_DEADLOCK FALSE
