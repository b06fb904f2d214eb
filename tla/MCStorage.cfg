SPECIFICATION StorageSpec
CONSTANTS
  b1 = b1
  b2 = b2
  v1 = v1
  v2 = v2
  Torn = Torn
  NoBatch = NoBatch
  Block <- MCBlock
  Value <- MCValue
  MaxBlocks = 2
  FaultAt <- FaultsOutsideDest
  MaxFaults = 2
  n1 = n1
  n2 = n2
  NoName = NoName
  Names = {n1, n2}
  MaxIno = 3
  MaxBlk = 4
  Direct = 1
  Width = 2
  TNames = {n1, n2}
  TSlots = {1, 2}
  TFds = {5, 6}
  TValues = {1}
  Blank = 0
  Garbage = 9
  MaxSize = 2
  InitialCap = 1
  Word = 8
  Seeks = {1}
  NoFile = NoFile
  NoFd = NoFd
  Dead = Dead
  StaleUse = FALSE
  Q = 2
  Wrap = 4
  Sectors = {1, 2}
  Data = {1, 2}
  Slots = {0, 1, 2}
  MaxDevs = 2
  KbdCap = 4
  RelCap = 2
  MaxTyped = 3
  MaxEvents = 3
INVARIANTS TypeOK CommittedReplayable NoTornBlock VolumeSound DevicesSound KeysSound
PROPERTIES OkIsDurable ImplementsAtomicDisk ImplementsNamedFiles
