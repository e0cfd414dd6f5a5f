SPECIFICATION PanelsSpec
CONSTANTS
  Folder = {d1, d2}
  Fork = {f1}
  None = None
  Branch = {main, topic}
  MaxTasks = 2
  MaxChoices = 3
  Trunk = {main}
  Tag = {v1}
  MaxTip = 1
  MaxRequests = 2
  MaxFailures = 1
  File = {f1, f2}
  Readme = f1
  MaxFiles = 1
  MaxTexts = 1
  MaxVersions = 2
  MaxOpens = 2
  Binding = {v1, v2}
  Series = {v1}
  NoBinding = none
  MaxChanges = 3
  Author = {a}
  Directory = {d, e}
  MaxVersion = 2
  MaxLoads = 2
  MaxRenders = 2
  Id = {e, f}
  AdvanceWindow = 1
  MarkAllWindow = 2
  MaxTime = 4
INVARIANTS
  WellTyped
  CompareSettles
  SubmitsWhatIsCompared
  ShowsTheWorktree
  EvictionEnds
  PreviewIsCurrent
  PanelShowsBound
  ShowsStored
PROPERTY NothingTakenBack
CHECK_DEADLOCK FALSE
