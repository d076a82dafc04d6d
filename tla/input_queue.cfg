\* A ring of four slots: it wraps around and fills within a few pushes.
SPECIFICATION Spec
CONSTANTS
  QSize = 4
  Bytes = {b1, b2}
  NoByte = NoByte
INVARIANTS
  TypeOK
PROPERTIES
  ImplementsFifo
  BytesAreTaken
