CONSTANTS
  Addr = {a1, a2, a3}
  Limit = 3
  History = 2
  MaxPid = 4
  Codes = {0}
  Vectors = {14}
  Polls = 1
SPECIFICATION ProcessSpec
SYMMETRY Addresses
INVARIANTS BookkeepingExact AnswersTrue
