CONSTANTS
  KEY_BUF_SIZE = 2
  Scancodes <- MC_Scancodes
  ReadCounts <- MC_ReadCounts
SPECIFICATION Spec
INVARIANTS TypeOK KeyBufIsEditedInput
PROPERTIES ReadCompletes
