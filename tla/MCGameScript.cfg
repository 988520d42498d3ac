SPECIFICATION Spec
CONSTANTS
  Vehicle = {1, 2}
  Offset = {zero, topLeft}
  NoOffset = zero
  ResetOffset = topLeft
  RefreshTicks = 2
  NowPeriod = 2
  TickCounts = 4
  MaxEvents = 4
INVARIANT
  MeasuresVehicleInUse
PROPERTIES
  KeyActsOnce
  CameraFollows
