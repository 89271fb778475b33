CONSTANTS
  Readers = {r1, r2}
  RingSize = 2
  HwSize = 2
  Lens = {1, 3}
  MaxBytes = 6
SPECIFICATION Spec
INVARIANTS WakeUpPromised WokenFindsData InOrder
CHECK_DEADLOCK FALSE
