CONSTANTS
  Resolution = 5
  Maximum = 3
  Bits = 2
  Users = {"artist", "owner"}
  May <- Roles
  Nums = {0, 3, 6}
  Colors = {0, 4, 5}
  Arrays <- TwoArrays
  Indices = {0, 1, 2, 3, 5, 6}
  Junk = {3}
  Rules = {"alone", "unlocked", "memory"}
SPECIFICATION Spec
INVARIANTS TypeOK Fits NoMemoryFault ShiftIsRotation MirrorKeepsSymmetry BrightnessKept
