SPECIFICATION VolumeSpec
CONSTANTS
  MaxTables = 3
  Systems <- SomeSystems
  Number = {0, 1, 2}
  BlockSize = {1024, 8192}
  Garbage = {0, 20000000}
  MaxHandles = 3
  MaxVolumes = 2
CHECK_DEADLOCK FALSE
INVARIANTS
  OwnDevice
  FitsPartition
  FormattedMounts
