SPECIFICATION Spec
CONSTANTS
  Fixes <- MCFixes
INVARIANTS
  AgreesWithRadio
  OnAirTuned
  NoFlightWithoutRadio
PROPERTIES
  WaitsForChip
  NotTunedOnAir
  CallsReturn
