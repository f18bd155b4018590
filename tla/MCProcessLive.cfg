CONSTANTS
  Addr = {a1, a2, a3}
  Limit = 2
  History = 1
  MaxPid = 3
  Codes = {0}
  Vectors = {}
  Polls = 1
SPECIFICATION FairProcessSpec
PROPERTY PollingEnds
