SPECIFICATION Spec
CONSTANTS
  Package = {1,2}
  OnePerBoot = FALSE
  Faults = {}
  Answers = {"y"}
  MtabNamesRoot = FALSE
  MaxLosses = 0
INVARIANT InstallsOnNonActive
