\* A trade on either side, under an executor that may report anything.
SPECIFICATION Spec
CONSTANTS
  MaxShares = 4
  Sides = {TRUE, FALSE}
INVARIANTS
  TypeOK
  VolumeBalance
  AttachedUntilFinished
PROPERTIES
  FinishedIsFinal
  LongFillsAccepted
  ImplementsPosition
