SPECIFICATION Spec
CONSTANTS
  amber = amber
  control = control
  cloud = cloud
  site = site
  old = old
  new = new
  warning = warning
  error = error
  Nics <- MCNics
  Defs <- MCDefs
  NoDef = NoDef
  Own = own
  Others <- MCOthers
  CloudFile = cloud
  Original <- MCOriginal
  NoRequest = NoRequest
  MaxRequests = 2
  Records <- MCRecords
  MaxLogEntries = 2
  Monitored <- MCMonitored
  NoSample = NoSample
  MaxLogged = 3
  MaxBytes = 1
  NetplanRecord = error
  OtherRecord = warning
INVARIANTS TypeOK AnsweredIsOnlySource UnnamedKept AnswersAreNewest TrafficCountedOnce
