CONSTANTS
  cCountStart = 1
  cCountEnd = 6
  cEffectiveLineWidthMin = 2
  cMaxReading = 2
  Frames <- MCFrames
  Thresholds <- MCThresholds
SPECIFICATION Spec
INVARIANTS
  TypeOK
  ScanInv
  Correct
CHECK_DEADLOCK FALSE
