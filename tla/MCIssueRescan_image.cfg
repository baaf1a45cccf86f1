SPECIFICATION Spec
CONSTANTS
  Refs = {main}
  Main = main
  Tags = {latest}
  Digests = {d1, d2}
  Absent = absent
  CVEs = {cve}
  Packages <- PackagesMC
INVARIANT NamesAffectedImage
CHECK_DEADLOCK FALSE
