SPECIFICATION Spec
CONSTANTS
  Client = {c1, c2}
  Queue = {q1}
  EnvelopeId = {e1, e2}
  None = None
  MaxClock = 1
  MaxRowId = 2
  DefaultTtl = 2
  MaxTtl = 1
  MaxPullLimit = 1
  ReqTtl <- OutsidePolicy
  ReqLimit = {1}
SYMMETRY Symmetry
INVARIANTS TypeOK ReceiptOnce AckWonOnce SequentialPushOrder WokenByLaterPush
PROPERTIES RelayQueueSpec
