CONSTANTS
  Byte = {0, 30, 42}
  Capacity = 5
  Keys = {"LShift", "Caps", "A", "One", "KpEnter", "PrintScreen", "Pause"}
  LineErrors = TRUE
  MaxEvents = 3
SPECIFICATION MCSpec
INVARIANTS KeyboardFollowed LossRecovered
PROPERTY RingImplementsQueue
\* Nobody has to press another key.
CHECK_DEADLOCK FALSE
