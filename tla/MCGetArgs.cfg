CONSTANTS
  INPUT_LEN <- MC_INPUT_LEN
  Commands <- MC_Commands
  Garbage <- MC_Garbage
  NBytes <- MC_NBytes
SPECIFICATION Spec
INVARIANT TypeOK
INVARIANT GetArgsReturnsArgPrefix
