CONSTANTS
  BLK <- MC_BLK
  IDX_LIMIT <- MC_IDX_LIMIT
  NAME_LEN <- MC_NAME_LEN
  Dentries <- MC_Dentries
  Inodes <- MC_Inodes
  Data <- MC_Data
  MAX_PROC <- MC_MAX_PROC
  MAGIC = "E"
  STORED = "W"
  Commands <- MC_ShortCommands
  Names <- MC_Names
SPECIFICATION Spec
PROPERTY ImplementsProcessStack
VIEW View
