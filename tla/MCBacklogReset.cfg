SPECIFICATION HSpec
CONSTANTS
  BACKLOG_MAX_ENTRIES = 3
  BACKLOG_TX_INCREMENT = 1
  Fixes <- MCFixes
  Remains <- MCRemains
  MaxResets = 1
PROPERTY ReplacesAnOldFix
