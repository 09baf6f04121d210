CONSTANTS
  ClockSize = 4000
  Windows <- MCWindows
  StopWindows <- MCStopWindows
  PulseCounts <- MCPulseCounts
  MaxPulses = 1
  MaxCalls = 4
SPECIFICATION FairSpec
INVARIANTS
  TypeOK
  SpeedHonest
  MotorObeys
PROPERTIES
  RegainsPower
CHECK_DEADLOCK FALSE
