CONSTANTS
  NDev = 2
  Raw = {2}
  Configs <- OwnPins
  Ops = {"open", "call"}
  Guarded = TRUE
  SoftTick = 2
  MaxPend = 2
  SinceCap = 3
SPECIFICATION FairSpec
PROPERTIES IrqIsOwn FlaggedIrqServed
