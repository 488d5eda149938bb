SPECIFICATION SpecReply
CONSTANTS
  TARGET_IP = target
  SOURCE_IP = source
  OTHER_IP = other
  FirstPorts = {1000}
  Identifiers = {7}
INVARIANT
  DontFragmentHonoured
CHECK_DEADLOCK FALSE
