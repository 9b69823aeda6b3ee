SPECIFICATION FedSpec
CONSTANTS
  Process = {daemon, cli}
  Daemon = daemon
  MaxCA = 3
  LeafTtl = 4
  RotateEvery = 2
  ClockSkew = 1
  MaxFails = 1
CONSTRAINT TwoCAsOnceRaced
INVARIANTS TypeOK PinnedHandshakeSucceeds OneFingerprint AnsweredMeansMutualTrust MutualTrustIsAnswered
