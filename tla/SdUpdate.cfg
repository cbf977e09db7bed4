SPECIFICATION Spec
CONSTANTS
  PartChunks = 5
  BlkChunks = 2
  Versions <- MCVersions
  FileOf <- MCFileOf
  ChunkBytes = 16
  MaxSeq = 4
  Word = 256
  MinBytes = 48
  Chip = 5
  DeviceChip = 5
  UnknownChip = 65535
INVARIANTS
  AlwaysBoots
  DoneBootsNew
