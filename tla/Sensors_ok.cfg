SPECIFICATION SensorsSpec
CONSTANTS
  Lengths = {1, 2}
  WavSize = 7
  ReadSize = 2
  Header = 1
  I2sPorts = 2
  MaxRetries = 2
  Samples = {s1, s2}
  Junk = junk
  Temperatures <- MCTemperatures
INVARIANT SensorsTypeOK RecordedIsComplete SafeToRemove NothingLeftRunning
  AckedIsStored MountedIsKnown CodecReady Configured VerdictHonest
PROPERTY RecordingEnds InitReturns SampleIsMeasured TemperatureExact
