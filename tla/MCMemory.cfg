CONSTANTS
  PageBytes = 2
  AddrMax = 35
  RegionLimit = 4
  Base <- MCBase
  Length <- MCLength
  Type = {"USABLE", "BOOTLOADER_RECLAIMABLE", "RESERVED"}
  None = None
  Levels = 3
  Fanout = 4
  Phys <- MCPhys
  PhysLimit = 12
  SoundTables <- BootTables
  SoundTypes <- BootTypes
  Entries <- BootEntries
  Types = {"usable", "none"}
  MaxChanges = 2
  Hhdm = 16
  VisitLimit = 4
  Root = 3
  Text = {28}
  Rodata = {29}
  Data = {30}
  KernelPhys = 6
  Framebuffer = {9}
  DynamicSlot = 3
SPECIFICATION MCSpec
INVARIANTS MapAndPlanRight BootMemorySafe KernelMapsExact ProgramExact
\* The map may be full, a program is loaded once, and a kernel that finds its
\* memory damaged panics.
CHECK_DEADLOCK FALSE
