SPECIFICATION Spec
CONSTANTS
  Client = {c1, c2}
  Queue = {q1}
  EnvelopeId = {e1}
  None = None
  MaxClock = 2
  MaxRowId = 1
  DefaultTtl = 1
  MaxTtl = 2
  MaxPullLimit = 1
  ReqTtl = {0, 3}
  ReqLimit = {1}
INVARIANT WaitUntilAvailable
