SPECIFICATION Spec
CONSTANTS
  a = a
  b = b
  Ends = {a, b}
  NSubchannels = 2
  Settings <- Separate
  MaxPayload = 4
  Transmitters = {}
INVARIANTS TypeOK HeaderValid  ResendOnlyLost RetryCanSucceed
 
CHECK_DEADLOCK FALSE
