SPECIFICATION FairSpec
CONSTANTS
  bash = bash  edit = edit  agent = agent  ghost = ghost
  Kind = {bash, edit, agent}
  Bash = {bash}
  Safe = {edit, agent}
  SameFile <- SameFileEdit
  Block = {agent}
  Asked = {edit}
  Unknown = {}
  Overlap = FALSE
  MaxTools = 3
  MaxExecutors = 1
CHECK_DEADLOCK FALSE
INVARIANTS ConflictsInOrder PassIsStartable AllAnswered
PROPERTIES SiblingsCalledOff AbortEndsWait
