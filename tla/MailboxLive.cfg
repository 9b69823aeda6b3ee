SPECIFICATION NodeSpec
CONSTANTS
  Client = {c1, c2}
  Queue = {q1}
  EnvelopeId = {e1}
  None = None
  Daemon = daemon
  Cli = cli
  MaxClock = 2
  MaxRowId = 1
  DefaultTtl = 1
  MaxTtl = 2
  MaxPullLimit = 1
  ReqTtl = {0}
  ReqLimit = {0}
INVARIANTS SchemaComplete
PROPERTIES PollReturns ReclaimedWhenUp StartCompletes
