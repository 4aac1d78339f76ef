SPECIFICATION FairSpec
CONSTANTS
  a = a
  b = b
  Offsets <- MCBetween
  ServoStates = {0, 2}
  GmIds <- MCGmIds
  Sections <- MCSections
  Mistyped = Mistyped
  None = None
  MinutePeriod = 1
  Lateness = 3
  MaxBurst = 1
  MaxCount = 3
  MaxAge = 17
INVARIANTS TypeOK SilenceFlaggedInTime
PROPERTIES FreqErrorNeedsSilence EventsMatchTransitions LostOnlyWhenDisqualified SteadyClockLocks SyncStreamClearsError
