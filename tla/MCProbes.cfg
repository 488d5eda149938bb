SPECIFICATION SpecReply
CONSTANTS
  TARGET_IP = target
  SOURCE_IP = source
  OTHER_IP = other
  FirstPorts = {0, 1000, 65522, 65523, 65524, 65535}
  Identifiers = {0, 65535}
INVARIANTS
  OneProbePerReply
  FilterKeepsAllReplies
  RepliesReachTheirProbes
CHECK_DEADLOCK FALSE
