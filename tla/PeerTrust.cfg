SPECIFICATION FairSpec
CONSTANTS
  Slot = {s1, s2}
  CA = {a, b}
INVARIANTS TypeOK DistrustEnforcedUnlessRaced
PROPERTIES SnapshotCatchesUp
