SPECIFICATION Spec
CONSTANTS
  Folder = {d1, d2}
  Fork = {f1, f2}
  None = None
  Branch = {main, topic}
  MaxTasks = 3
  MaxChoices = 2

PROPERTY ForkYields
CHECK_DEADLOCK FALSE
