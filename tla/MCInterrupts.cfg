CONSTANTS
  EOI <- MC_EOI
  Vectors <- MC_Vectors
  Faults <- MC_Faults
  MAX_NEST = 4
  MaxKeys = 3
SPECIFICATION Spec
INVARIANT TypeOK
INVARIANT NoInServiceWhileEnabled
PROPERTY ReadReturns
PROPERTY ImplementsRtcDevice
PROPERTY KeysServiced
