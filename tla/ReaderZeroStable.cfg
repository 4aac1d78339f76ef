SPECIFICATION Spec
CONSTANTS
  a = a
  b = b
  Offsets <- MCOffsets
  ServoStates = {0, 1, 2}
  GmIds <- MCGmIds
  Sections <- MCZeroStable
  Mistyped = Mistyped
  None = None
  MinutePeriod = 2
  Lateness = 1
  MaxBurst = 1
  MaxCount = 3
  MaxAge = 12

PROPERTIES LockedOnlyWhenQualified
