\* Two keys, queues of two bytes, two losses each.
SPECIFICATION Spec
CONSTANTS
  Keys = {k1, k2}
  NoKey = NoKey
  ScanCapacity = 2
  MouseCapacity = 2
  MaxLost = 2
SYMMETRY Symmetry
INVARIANTS
  TypeOK
  MissesPaidByLosses
  SpellsPaidByLosses
  MixedPaidByLosses
