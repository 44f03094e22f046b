SPECIFICATION FairSpec
CONSTANTS
  bash = bash  edit = edit  agent = agent  ghost = ghost
  Kind = {bash, edit, agent}
  Bash = {bash}
  Safe = {edit, agent}
  SameFile <- SameFileEdit
  Block = {agent}
  Asked = {edit}
  Unknown = {ghost}
  Overlap = TRUE
  MaxTools = 2
  MaxExecutors = 2
CHECK_DEADLOCK FALSE
PROPERTY ComesToEnd
