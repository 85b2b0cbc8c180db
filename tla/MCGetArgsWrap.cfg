CONSTANTS
  INPUT_LEN <- MC_INPUT_LEN
  Commands <- MC_ArgCommands
  Garbage <- MC_Garbage
  NBytes <- MC_ShortBuf
SPECIFICATION Spec
INVARIANT GetArgsWithinBuffer
