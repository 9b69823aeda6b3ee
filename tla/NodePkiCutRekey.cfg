SPECIFICATION Spec
CONSTANTS
  Process = {daemon, cli}
  Daemon = daemon
  MaxCA = 3
  LeafTtl = 4
  RotateEvery = 2
  ClockSkew = 1
  MaxFails = 1
INVARIANTS LeavesChainToCA
