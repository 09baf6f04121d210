CONSTANTS
  cCountStart = 1
  cCountEnd = 5
  cEffectiveLineWidthMin = 2
  cMaxReading = 11
  platform_num = 2
  Colors = {0, 4}
  TrackLength = 8
  Track <- MCTrack
  Lights <- MCLights
  Image <- MCImage
  Disturbances = {"light"}
  MaxDrift = 2
  MaxTravel = 8
SPECIFICATION FairSpec
PROPERTIES
  ReturnsToTracking
