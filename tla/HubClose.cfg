CONSTANTS
  NDev = 2
  Raw = {}
  Configs <- HardAndExti
  Ops = {"open", "close"}
  Guarded = TRUE
  SoftTick = 2
  MaxPend = 2
  SinceCap = 3
SPECIFICATION Spec
INVARIANTS  HardNeverEarly
PROPERTY StableDuringAcquire
CHECK_DEADLOCK FALSE
