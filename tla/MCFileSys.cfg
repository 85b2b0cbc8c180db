CONSTANTS
  BLK <- MC_BLK
  IDX_LIMIT <- MC_IDX_LIMIT
  NAME_LEN <- MC_NAME_LEN
  Dentries <- MC_Dentries
  Inodes <- MC_Inodes
  Data <- MC_Data
  Names <- MC_Names
  FdArgs <- MC_FdArgs
  Counts <- MC_Counts
  Rates <- MC_Rates
SPECIFICATION Spec
CONSTRAINT OpenBound
INVARIANT TypeOK
 
INVARIANT DirReadEnumerates
INVARIANT OpenDescriptorsClosable
PROPERTY OpenCloseClaimOneSlot
PROPERTY ImplementsRtcDevice
VIEW View
