SPECIFICATION Spec
CONSTANTS
  None = None
  MaxQueue = 2
  MaxRows = 3
  MaxDeletes = 2
PROPERTIES DeleteAnsweredWhenDone
