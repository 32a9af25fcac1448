SPECIFICATION MaintenanceSpec
CONSTANTS
  v1 = v1
  v2 = v2
  None = None
  Value <- MCValue
  MaxLen = 3
INVARIANT InsertedValueReadable
CHECK_DEADLOCK FALSE
