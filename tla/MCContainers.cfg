SPECIFICATION ContainersSpec
CONSTANTS
  host1 = host1
  host2 = host2
  ip4 = ip4
  ip6 = ip6
  eth0 = eth0
  eth1 = eth1
  Hosts = {host1, host2}
  Empty = Empty
  Commands = 2
  MaxTargets = 2
  MaxRuns = 2
  None = None
  Addresses = {ip4, ip6}
  V6 = {ip6}
  Interfaces = {eth0, eth1}
  Prefixes = {24}
  Entries <- MCEntries
  Blank = Blank
  Unset = Unset
  MaxEntries = 2
  MaxStarts = 2
  NoFirmware = NoFirmware
  MaxBuilds = 2
INVARIANTS
  CloudTypeOK ExitZeroMeansAll
  KeepTypeOK RunningAsConfigured
  IpxeTypeOK DoneAsAsked FirmwareIsSound
PROPERTIES VerdictSpec CloudEnds CompleteEnvironmentRuns
\* Each program ends.
CHECK_DEADLOCK FALSE
