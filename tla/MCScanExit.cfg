SPECIFICATION Spec
CONSTANTS
  TARGET_IP = target
  SOURCE_IP = source
  NULL = null
  STRANGER = 4000
  FirstPorts = {1000}
  Configs <- MCConfigs
  Foreign <- MCForeign
  Answering = {0, 8, 15}
  Buffer = {b1, b2, b3, b4}
  Timeout = 1
  MaxSendTicks = 0
  MaxReplies = 3
  MaxBuffered = 2
  InOrder = FALSE
INVARIANTS
  ConstructionReportsFailure
