SPECIFICATION Spec
CONSTANTS
  Build = {b1, b2}
  Content = {"good", "bad"}
  Accepted = {"good"}
  Existing = {"absent", "bad", "good"}
  HashFiles = {"listed"}
  Scm = FALSE
  Enabled = {"primary", "upstream", "backup"}
  PrimaryOnly = FALSE
  Reliable = {"backup"}
  Faults = {}
  MayKill = FALSE
INVARIANT NoTemporariesLeft
PROPERTY ReliableSiteSuffices
CHECK_DEADLOCK FALSE
