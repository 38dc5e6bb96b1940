SPECIFICATION Spec
CONSTANTS
  Samples = 10
  Codes = {0, 431, 1023}
  CAL30 = 702
  CAL85 = 829
INVARIANTS
  ReadingsAreFresh
  SleepsOnlyWhenDelayed
PROPERTIES
  BatteryIsExact
  MeasurementEnds
