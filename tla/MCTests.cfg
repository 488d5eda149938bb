SPECIFICATION SpecPart
CONSTANTS
  TARGET_IP = TARGET_IP
  SOURCE_IP = SOURCE_IP
  REFUSED = REFUSED
  UINT32 = 1073741824
  MaxCalls = 2
  SENT_TTL = 100
  SENT_SEQ = 5000
  SENT_ACK = 6000
  SMALL = 12
  NONE = NONE
  Scans <- MCScans
  IdScans <- MCIdScans
  NumberScans <- MCNumberScans
  Specs <- MCEchoSpecs
  QuoteLengths <- MCEchoLengths
  MaxHops = 2
INVARIANTS
  RefusedOnlyForOptions
  LinesFitTogether
  CountingNeverWraps
  SharedSequenceExact
  GcdIsGreatest
  MetricsOfEverySampledHost
  BlamesTheHostOnly
CHECK_DEADLOCK FALSE
