SPECIFICATION FramingSpec
CONSTANT MaxLen = 1500
CHECK_DEADLOCK FALSE
INVARIANTS WithinBuffers ExactCover
