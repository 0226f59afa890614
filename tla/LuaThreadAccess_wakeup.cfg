CONSTANTS
  f1 = f1
  f2 = f2
  Files = {f1, f2}
  EventSets = {{"mark"}}
  MaxDepth = 3
SPECIFICATION FairSpec
PROPERTY FrameResumes
CHECK_DEADLOCK FALSE
