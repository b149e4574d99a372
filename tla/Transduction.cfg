\* Three messages of two engines, one of them lost, each engine restarted once.
CONSTANTS
  HashSpace = 4
  I64 = 262143
  U32 = 3
  Mantissa = 65536
  Scales = {1, 2, 4, 8, 16}
  MaxMessages = 3
  MaxLost = 1
  MaxBoots = 2
SPECIFICATION Spec
INVARIANTS TypeOK ResidencyIsExact ParentsAreTrue IdentityIsContent EveryFormIsTheRecord AcceptedRecordsDecode DecodeKeepsTheRecord EditsAreCaught TwinKeepsTheRecord
CHECK_DEADLOCK FALSE
