CONSTANTS
  cCountStart = 1
  cCountEnd = 4
  cEffectiveLineWidthMin = 2
  cMaxReading = 60
  cExplosureTimeStart = 6
  cExplosureTimeEnd = 11
  cExplosureTimePropagation = 2
  Shots <- MCShots
  Garbage = {0, 1000}
  LoopTimes = {2, 7}
  prepareDelay = 300
  stopDelay = 400
  MaxLoops = 4
  MaxFrames = 2
SPECIFICATION Spec
INVARIANTS
  TypeOK
  BestIsBest
  TrackingHasRecord
  FreshExposure
CHECK_DEADLOCK FALSE
