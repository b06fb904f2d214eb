SPECIFICATION Spec
CONSTANTS
  b1 = b1
  b2 = b2
  b3 = b3
  v1 = v1
  v2 = v2
  NoBatch = NoBatch
  NoBlock = NoBlock
  Block <- MCBlock
  Value <- MCValue
  MaxBlocks = 2
  Preemptible = FALSE
  IoErrors = TRUE
INVARIANTS CacheIsFaithful FlushedStays
SYMMETRY Symmetry
