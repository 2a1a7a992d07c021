SPECIFICATION FairSpec
CONSTANTS
  m1 = m1
  m2 = m2
  m3 = m3
  m4 = m4
  proxy = proxy
  None = None
  Clients = {c1, c2}
  Messages <- MCMessages
  Concatenated <- MCConcatenated
  Sender <- MCSender
  Port <- MCPort
  Ref <- MCRef
  Total <- MCTotal
  Kind <- MCKind
  RequestPorts = {10, 11}
  MaxParts = 2
  ConcatSlots = {1}
  ConcatTimeout = 2
  ReplyTimeout = 1
  MaxEvents = 3
INVARIANTS NoReentry WaitingClientAlive AnswerOfOwnRequest WellFormedStream DisplayRestored
PROPERTY WaitEnds
