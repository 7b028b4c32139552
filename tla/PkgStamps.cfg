SPECIFICATION Spec
CONSTANTS
  Patches = 2
  MaxEdits = 2
  Uncompressed = {TRUE}
  Removed = {TRUE}
INVARIANT TypeOK
INVARIANT StampsTrue
PROPERTY RebuildTakesEdits
