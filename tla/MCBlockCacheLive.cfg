SPECIFICATION FairSpec
CONSTANTS
  b1 = b1
  b2 = b2
  b3 = b3
  v1 = v1
  v2 = v2
  NoBatch = NoBatch
  NoBlock = NoBlock
  Block <- MCTwoBlocks
  Value <- MCValue
  MaxBlocks = 1
  Preemptible = FALSE
  IoErrors = FALSE
PROPERTY ReachesDisk
