CONSTANTS
  Span = 9
  Usable <- MCUsable
  Storage <- MCStorage
  Capacity = 4
  Frame = {f1, f2, f3, f4, bad}
  Bad = {bad}
  Foreign = Foreign
  NoFrame = NoFrame
  Slots <- MCSlots
  Pages <- MCPages
  StackFrame = {s1, s2, s3, s4}
  Holder = {h1, h2}
  LastGeneration = 2
  Align = 2
  Header = 6
  MinBlock = 8
  InitialSize = 16
  MaxSize = 40
  GrowthSize = 16
  SizeMax = 63
  Count = {13}
  Caller = {c1, c2, c3}
  Request <- MCRequest
  None = None
SYMMETRY HeapSymmetry
SPECIFICATION MCSpec
INVARIANTS PmmSound AllocRight GrowthSafe StacksExclusive HeapSound
\* A damaged range makes the kernel panic, and the generations of stacks run out.
CHECK_DEADLOCK FALSE
