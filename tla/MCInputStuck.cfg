CONSTANTS
  Byte = {}
  Capacity = 4
  Keys = {"A", "PrintScreen"}
  LineErrors = FALSE
  MaxEvents = 2
SPECIFICATION FairInputSpec
CHECK_DEADLOCK FALSE
PROPERTY NoStuckModifier
