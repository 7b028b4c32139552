SPECIFICATION Spec
CONSTANTS
  Build = {b1, b2}
  Content = {"good", "bad"}
  Accepted = {"good"}
  Existing = {"absent", "good"}
  HashFiles = {"listed", "unlisted"}
  Scm = FALSE
  Enabled = {"upstream", "backup"}
  PrimaryOnly = FALSE
  Reliable = {}
  Faults = {"mktemp", "chmod", "cat", "mv"}
  MayKill = TRUE
INVARIANT TypeOK
INVARIANT OutputComplete
INVARIANT StampMeansArchive
PROPERTY OnlyVerified
PROPERTY UnlistedUntouched
PROPERTY DownloadEnds
CHECK_DEADLOCK FALSE
