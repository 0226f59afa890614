\* Two slots and two files; each frame serves one baseline and one file.
SPECIFICATION Spec
CONSTANTS
  NSlots = 2
  NFiles = 2
  Edited = {1}
  Baselines = {{1, 2}}
  Watched = {1}
  InfoBudget = 1
  StubBudget = 1
  Space = 1
  MaxEvents = 1
INVARIANTS TypeOK QueuedIsScheduled PinsFollowBaseline PinnedIsUnchanged
PROPERTIES NothingDropped BaselineServed RequestAnswered
