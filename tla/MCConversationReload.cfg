CONSTANTS
  MaxTurns = 2
  MaxRows = 3
  MaxLegs = 1
  MaxDeletes = 0
  MaxReloads = 1
  MaxFaults = 0
  Imported <- NoImport
  Page = 6
  Listed = 6
SPECIFICATION Spec
PROPERTIES ReloadRestoresTheConversation
CHECK_DEADLOCK FALSE
