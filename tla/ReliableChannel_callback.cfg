SPECIFICATION Spec
CONSTANTS
  a = a
  b = b
  Ends = {a, b}
  NSubchannels = 2
  Settings <- Single
  MaxPayload = 4
  Transmitters = {b}
INVARIANT HeaderValid
CHECK_DEADLOCK FALSE
