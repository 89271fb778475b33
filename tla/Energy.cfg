CONSTANTS
  Single = 1
  Window <- WindowTicks
  Overflow <- OverflowTicks
  VTime = 4
  ITime = 4
  ICycle = 2
  CalTime = 3
  Coe = 1
  Abnormal = 1
  Setups <- Alone
  AppThread = "timer"
  PulseMax = 3
SPECIFICATION FairSpec
INVARIANTS OnePeriod NoWrap PhaseOnly AveragesSeveral 
PROPERTIES  PowerGoesOut EnergyMoves
