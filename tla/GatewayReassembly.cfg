SPECIFICATION Spec
CONSTANTS
  m1 = m1
  m2 = m2
  m3 = m3
  alice = alice
  bob = bob
  None = None
  Messages <- MixMessages
  Concatenated <- MixConcatenated
  Sender <- MixSender
  Port <- MixPort
  Ref <- MixRef
  Total <- MixTotal
  MaxParts = 2
  ConcatSlots = {1, 2}
  ConnSlots = {1}
  ConcatTimeout = 1
  ConnTimeout = 0
INVARIANTS TypeOK ForwardedWhole
