SPECIFICATION Spec
CONSTANTS
  Package = {1,2}
  OnePerBoot = TRUE
  Faults = {"p7mount","unzip","shadowmount","tar"}
  Answers = {"y","n"}
  MtabNamesRoot = FALSE
  MaxLosses = 1
INVARIANT LiveRootIntact
PROPERTY BootCompletes
CHECK_DEADLOCK FALSE
