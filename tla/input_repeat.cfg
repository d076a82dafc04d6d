\* Two keys: the one held down repeats after the other is released.
SPECIFICATION Spec
CONSTANTS
  Keys = {k1, k2}
  NoKey = NoKey
  ScanCapacity = 2
  MouseCapacity = 1
  MaxLost = 0
PROPERTIES
  RepeatsDropped
