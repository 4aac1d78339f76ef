SPECIFICATION FairSpec
CONSTANTS
  Patches <- MCPatches
  Sections <- MCSections
  Nics = {eth0, eth1}
  None = None
  Absent = Absent
  Default = Default
  Slots = {s1, s2}
  MaxRequests = 3
  MaxFaults = 1
INVARIANTS TypeOK QuietMeansSettled FlagMeansRestart
PROPERTIES RestartingEnds PtpCatchesUp
CHECK_DEADLOCK FALSE
