CONSTANTS
  Space = {v1, v2}
  Frames = 6
  Levels = 3
  Fanout = 2
  UserMin = 2
  UserEnd = 5
  PageLimit = 2
  TableLimit = 4
  CopyPages = 2
  Data = {d}
  Zero = Zero
  Junk = Junk
  Kernel = Kernel
  None = None
SYMMETRY SpaceSymmetry
VIEW WithoutCall
SPECIFICATION UvmSpec
INVARIANTS FramesOwnedOnce TlbCoherent
PROPERTY ImplementsSpaces
