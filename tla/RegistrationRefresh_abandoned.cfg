CONSTANTS
  init = init
  f1 = f1
  File = {init, f1}
  InitFile = init
  c1 = c1
  c2 = c2
  Content = {c1, c2}
  None = None
  Budget = 1
  FlipsPerFrame = 1
  FlipWhileLoading = FALSE
  MaxEvents = 5
SPECIFICATION Spec
PROPERTY RefreshCompletes
