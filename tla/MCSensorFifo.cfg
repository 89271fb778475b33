CONSTANTS
  HalfWord = 4
  NEle = 2
  Vals <- MCVals
  MaxFifo = 3
  Rules <- MCRules
SPECIFICATION Spec
INVARIANTS FifoBounded PreviousIsOwn
PROPERTY RefinesReport
