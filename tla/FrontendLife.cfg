SPECIFICATION FairSpec
CONSTANTS
  PtpValues = {whole, part}
  CompletePtp = {whole}
  SystemValues = {nics}
  Torn = Torn
  NoChange = NoChange
  GmIds = {gm1, gm2}
  Other = Other
  Unknown = Unknown
  TailLines = 2
  MaxLines = 4
INVARIANTS TypeOK EveryChangeHappened NoChangeMissed
PROPERTIES SavesAreAtomic LinesReachStatus ReaderComesBack DashboardFollows
