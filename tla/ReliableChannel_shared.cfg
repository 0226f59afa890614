SPECIFICATION Spec
CONSTANTS
  a = a
  b = b
  Ends = {a, b}
  NSubchannels = 3
  Settings <- Shared
  MaxPayload = 4
  Transmitters = {}
INVARIANT RetryCanSucceed
CHECK_DEADLOCK FALSE
