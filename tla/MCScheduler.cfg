CONSTANTS
  Idle = Idle
  Boot = Boot
  t1 = t1
  t2 = t2
  Task = {Idle, Boot, t1, t2}
  Kernel = Kernel
  MaxTasks = 4
  Quantum = 2
  MaxId = 5
  MaxTick = 2
  MaxDepth = 2
  RingSlots = 1
  MaxSleep = 2
SPECIFICATION SchedulerSpec
SYMMETRY Workers
INVARIANTS NoPanic NoSwitchLeftPending NoLostInput ResourcesExact
PROPERTIES SleepsLongEnough
