SPECIFICATION Spec
CONSTANTS
  a = a
  b = b
  Offsets <- MCTwoOffsets
  ServoStates = {2}
  GmIds <- MCOneGm
  Sections <- MCDamagedSections
  Mistyped = Mistyped
  None = None
  MinutePeriod = 2
  Lateness = 0
  MaxBurst = 2
  MaxCount = 3
  MaxAge = 1
INVARIANTS StatsCoverReading
PROPERTIES EventsMatchTransitions LockedOnlyWhenQualified EverySampleRecordedOnce
