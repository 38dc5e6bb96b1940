SPECIFICATION Spec
CONSTANTS
  Noises <- MCNoises
  Solutions <- MCSolutions
  Lost = {1, 4, 5, 6, 8, 26, 30, 98, 99}
INVARIANTS
  MissedOnlyAfterStart
  ConfiguredBeforeUse
PROPERTIES
  NoFalseAck
  FixIsReported
  FixIsOfOneAnswer
  ExchangeEnds
