CONSTANTS
  f1 = f1
  f2 = f2
  Files = {f1, f2}
  EventSets = {{"mark", "level"}}
  MaxDepth = 3
SPECIFICATION FairSpec
PROPERTY ShutdownCompletes
CHECK_DEADLOCK FALSE
