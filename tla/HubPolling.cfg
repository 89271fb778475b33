CONSTANTS
  NDev = 1
  Raw = {}
  Configs <- EitherTimer
  Ops = {"open", "call"}
  Guarded = TRUE
  SoftTick = 1
  MaxPend = 2
  SinceCap = 2
SPECIFICATION FairSpec
INVARIANTS OneReadPerTrigger
PROPERTIES PolledIsSampled
