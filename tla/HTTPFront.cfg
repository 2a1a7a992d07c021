SPECIFICATION Spec
CONSTANTS
  Requests <- MCRequests
  DataTimeout = 1
  ReadTimeout = 2
  Wrap = 5
  TidRange = 2
INVARIANTS RequestFits AskedURL BlockedAtMost
