SPECIFICATION Spec
CONSTANTS
  Process = {p1, p2}
  MaxExtension = 2
  Name = {n}
  Bundles <- MCBundles
  MaxVersions = 3
  MaxEvents = 4
SYMMETRY MCProcesses
INVARIANT TypeOK
INVARIANT ActiveSound
INVARIANT NamesDisjoint
INVARIANT ChecksRan
PROPERTY NothingOverwritten
CHECK_DEADLOCK FALSE
