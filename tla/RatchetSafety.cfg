SPECIFICATION Spec
CONSTANTS
  Initiator = alice
  Responder = bob
  None = None
  MaxSkip = 2
  MaxStored = 2
  MaxSent = 5
  MaxSentNative = 3
  MaxRoot = 4
  MaxReceived = 4
INVARIANTS TypeOK StoredSessionIsSame KeysUsedOnce ReplayRefused ForwardSecrecy UnopenedOpens
CHECK_DEADLOCK FALSE
