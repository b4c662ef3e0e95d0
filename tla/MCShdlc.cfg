\* Both peers write and sequence numbers are used again; frames are lost, damaged or late, and the line may break.
SPECIFICATION FairSpec
CONSTANTS
  a = a
  b = b
  Peers <- MCPeers
  MaxWrites <- BothWrite
  SeqMod = 2
  RetryTimes = 2
  RbCapacity = 1
  Faults = {"lose", "spoil", "timeout", "write", "break"}
  MaxLine = 1
CHECK_DEADLOCK FALSE
INVARIANT TypeOK
PROPERTIES InOrder WriteReturns
