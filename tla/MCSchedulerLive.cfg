CONSTANTS
  Idle = Idle
  Boot = Boot
  t1 = t1
  t2 = t2
  Task = {Idle, Boot, t1}
  Kernel = Kernel
  MaxTasks = 3
  Quantum = 2
  MaxId = 4
  MaxTick = 2
  MaxDepth = 1
  RingSlots = 1
  MaxSleep = 1
SPECIFICATION FairSchedulerSpec
PROPERTIES EveryThreadRuns InputIsHandled ZombiesAreReaped
