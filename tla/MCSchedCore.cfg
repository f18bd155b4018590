CONSTANTS
  Idle = Idle
  Boot = Boot
  t1 = t1
  t2 = t2
  Task = {Idle, Boot, t1, t2}
  MaxTasks = 4
  Quantum = 2
  MaxId = 5
  MaxTick = 2
  MaxDepth = 1
SPECIFICATION CoreSpec
SYMMETRY Workers
INVARIANTS CoreValid SwitchRequested
PROPERTIES NoOvertaking NonPreemptible
