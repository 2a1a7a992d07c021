SPECIFICATION FairSpec
CONSTANTS
  m1 = m1
  m2 = m2
  m3 = m3
  alice = alice
  bob = bob
  None = None
  Messages <- SharedMessages
  Concatenated <- SharedConcatenated
  Sender <- SharedSender
  Port <- SharedPort
  Ref <- SharedRef
  Total <- SharedTotal
  MaxParts = 2
  ConcatSlots = {1}
  ConnSlots = {1, 2}
  ConcatTimeout = 0
  ConnTimeout = 1
INVARIANTS UniqueKeys AnswerRouting
PROPERTIES WaitingConnectionKept AnswerNotDiscarded SlotsReleased
