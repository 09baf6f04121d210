CONSTANTS
  cCountStart = 1
  cCountEnd = 5
  cEffectiveLineWidthMin = 2
  cMaxReading = 11
  platform_num = 2
  Colors = {0, 4}
  TrackLength = 8
  Track <- MCTrack
  Lights = {2}
  Image <- MCImage
  Disturbances = {"pin", "derail"}
  MaxDrift = 0
  MaxTravel = 8
SPECIFICATION FairSpec
PROPERTIES
  LeavesPlatform
  EveryRoundReported
  LostLineFaults
  FaultIsFinal
