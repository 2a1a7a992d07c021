SPECIFICATION Spec
CONSTANTS
  StackMax = 32
  Arrivals <- MCArrivals
  OutputSizes = {99, 120, 8192}
CHECK_DEADLOCK FALSE
INVARIANTS ReadersAgree WithinArrays TagsMatch EarlyAnswer
PROPERTY ReplyEnds
