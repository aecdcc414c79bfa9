\* One device that comes and goes and presses the button again and again, two lives of nc-voice.
SPECIFICATION Spec
CONSTANTS
  Devices = {s1}
  QueueCap = 2
  MaxLives = 2
INVARIANT RelayReaches
PROPERTY MicCloses
CHECK_DEADLOCK FALSE
