SPECIFICATION FairSpec
CONSTANTS
  TARGET_IP = target
  SOURCE_IP = source
  NULL = null
  STRANGER = 4000
  FirstPorts = {65523, 65524}
  Configs <- MCConfigs
  Foreign <- MCForeign
  Answering = {0, 1, 2, 3, 4, 5, 6, 7, 8, 9, 10, 11, 12, 13, 14, 15}
  Buffer = {}
  Timeout = 2
  MaxSendTicks = 2
  MaxReplies = 16
  MaxBuffered = 1
  InOrder = TRUE
INVARIANTS
  NoReplyMeansTimeout
  SendTimesInOrder
  NoReceiveWhenComplete
PROPERTIES
  Terminates
