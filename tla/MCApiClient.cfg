SPECIFICATION FairSpec
CONSTANTS
  Versions <- MCVersions
  Token = Token
  ShortToken = ShortToken
  Masked = Masked
  None = None
  LookupTimeout = 3
  Waits = {1, 2}
INVARIANTS TypeOK TokenAlwaysSent HeaderSupported AcceptedAgentObeys
PROPERTIES HandshakeSpec BootEnds InspectionNeverStopsBoot AcceptedInTheEnd
\* A boot that failed sends nothing any more.
CHECK_DEADLOCK FALSE
