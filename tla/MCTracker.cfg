SPECIFICATION Spec
CONSTANTS
  Builds = {"APRS", "RTTY", "RTTY_ONLY"}
  TLM_APRS_INTERVAL = 6
  TLM_RTTY_INTERVAL = 6
  TLM_BACKLOG_OFFSET = 5
  BLIP_FIX_INTERVAL = 1
  TLM_HZ = 3
  BLIP_FACTOR = 2
  NUM_IDLE_BITS = 1
  TX_BUF_MAX_LENGTH = 1
  BACKLOG_MAX_ENTRIES = 2
  BACKLOG_TX_INCREMENT = 1
  GpsTicks = 2
  AprsTicks = 2
  Fixes <- MCFixes
  Remains <- MCRemains
  MaxSeconds = 12
  MaxResets = 1
INVARIANTS
  TypeOK
  OneTransmission
  TelemetryIsCurrent
  CycleOnTime
PROPERTIES
  HandsOverBetweenFrames
  KeepsTransmitting
  BacklogIsSent
