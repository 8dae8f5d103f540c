SPECIFICATION Spec
CONSTANTS
  CACHE_SLOTS = 2
  Lba <- MCLba
  Value <- MCValue
INVARIANTS TypeOK Coherent
PROPERTY ImplementsDevice
