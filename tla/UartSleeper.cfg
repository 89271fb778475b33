CONSTANTS
  Readers = {r1}
  RingSize = 2
  HwSize = 2
  Lens = {1, 3}
  MaxBytes = 4
SPECIFICATION FairSpec
PROPERTIES SleeperGetsData
CHECK_DEADLOCK FALSE
