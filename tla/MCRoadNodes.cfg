CONSTANTS
  Guid = {g1, g2, g3}
  Id = {11, 12, 13}
  Links = 2
  MaxLanes = 1
SPECIFICATION Spec
CHECK_DEADLOCK FALSE
INVARIANT
  EverythingInPlace
