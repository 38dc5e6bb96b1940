SPECIFICATION TelemetrySpec
CONSTANTS
  TX_BUF_MAX_LENGTH = 74
  SeqLimit = 8281
  Fixes <- MCFixes
  UsualFix <- MCUsual
  Near <- MCNear
  MaxSentences = 10001
INVARIANTS
  SentenceIsExpected
  OverflowsWhenLong
  PayloadDecodes
