SPECIFICATION Spec
CONSTANTS
  APRS_MARK_TICKS = 11
  APRS_SPACE_TICKS = 6
  APRS_BAUD_TICKS = 22
  Lags = {1, 6, 7}
  FrameBits = 3
INVARIANTS
  TypeOK
  BitsOnTime
PROPERTIES
  NoTickLost
  HalfWavesAreExact
  FrameEnds
