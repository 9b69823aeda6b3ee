SPECIFICATION Spec
CONSTANTS
  Tab = {t1, t2}
  NodeCA = {ca1, ca2}
  MaxRuns = 2
  MaxSkip = 1
  MaxStored = 1
  None = None
  NoKey = NoKey
SYMMETRY Symmetry
INVARIANTS TypeOK UndisturbedRunsDeliver SavedBeforeSent AckedIsSaved StoreReadableUnlessRaced
CHECK_DEADLOCK FALSE
