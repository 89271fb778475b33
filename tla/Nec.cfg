CONSTANTS
  ByteBits = 2
  Msb = FALSE
  Tolerance <- DemoTolerance
  Ways = {"callback", "queue"}
  RingLen = 32
  ValidMin = 6
  Messages <- Keys
  Drifts <- Edges
  Noises <- Crackle
  Spoils = {0, 6}
  Junk = {4500}
SPECIFICATION Spec
INVARIANTS TypeOK EveryFrameFinished ProgressTrue 
