SPECIFICATION RecSpec
CONSTANTS
  Lengths = {}
  WavSize = 3840000
  ReadSize = 8192
  Header = 44
  I2sPorts = 2
INVARIANT HeaderDescribesFile
