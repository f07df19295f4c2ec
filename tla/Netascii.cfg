\* Every file of up to five bytes over CR, LF, NUL and another byte.
SPECIFICATION Spec
CONSTANTS
  MaxLength = 5
  BlockSizes = {2, 3}
  WindowSizes = {1, 2}
  ChunkSize = 2
CHECK_DEADLOCK FALSE
INVARIANTS
  TypeOK
  ConversionRoundTrip
  StreamedAsWhole
