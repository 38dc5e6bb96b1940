SPECIFICATION Spec
CONSTANTS
  BACKLOG_MAX_ENTRIES = 3
  BACKLOG_TX_INCREMENT = 2
  Fixes <- MCFixes
  Remains <- MCRemains
  MaxResets = 1
INVARIANT TypeOK
PROPERTIES
  KeepsHourlyLog
  EveryFixSentOrReplaced
