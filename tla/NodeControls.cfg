SPECIFICATION ControlsSpec
CONSTANTS
  LongPress = 3
  LineMax = 3
PROPERTIES SleepMeansHeld ConsoleRecovers
