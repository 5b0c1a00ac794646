\* Pushes, a pull, an editor, another program and another command on one project.
CONSTANTS
  FileCount = 2
  EditLimit = 1
  SaveLimit = 1
  CommandLimit = 1
  PushLimit = 2
  PullLimit = 1
SPECIFICATION Spec
INVARIANTS
  TypeOK
PROPERTIES
  PublishesSettledTree
  SkipIsTrue
  CommandsSurvive
  PullDelivers
CHECK_DEADLOCK FALSE
