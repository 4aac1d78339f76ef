SPECIFICATION FairSpec
CONSTANTS
  Patches <- MCPatches
  Sections <- MCSections
  Nics = {eth0, eth1}
  None = None
  Absent = Absent
  Default = Default
  Slots = {s1, s2}
  MaxRequests = 1
  MaxFaults = 0
PROPERTIES RebootFollows
CHECK_DEADLOCK FALSE
