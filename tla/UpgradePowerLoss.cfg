SPECIFICATION Spec
CONSTANTS
  Package = {1,2}
  OnePerBoot = TRUE
  Faults = {}
  Answers = {"y"}
  MtabNamesRoot = FALSE
  MaxLosses = 2
INVARIANT TypeOK
INVARIANT CrashBootable
INVARIANT NoLostPackage
PROPERTY UpgradeIsAtomic
PROPERTY PackageInstalled
