SPECIFICATION Spec
CONSTANTS
  v1 = v1
  v2 = v2
  None = None
  Value <- MCValue
  MaxLen = 4
INVARIANTS
  FreeListOK
  NoSlotLeaked
PROPERTY RefinesMap
