SPECIFICATION CodecSpec
CONSTANTS
  Inputs <- MCInputs
  Texts <- MCTexts
  BufferSizes = {1, 4, 151, 256}
CHECK_DEADLOCK FALSE
INVARIANTS RoundTrip BufferSuffices
