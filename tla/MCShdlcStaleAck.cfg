\* Frames are damaged, none is lost or late.
SPECIFICATION Spec
CONSTANTS
  a = a
  b = b
  Peers <- MCPeers
  MaxWrites <- OneWriter
  SeqMod = 8
  RetryTimes = 10
  RbCapacity = 2
  Faults = {"spoil", "spoil_answer"}
  MaxLine = 2
CHECK_DEADLOCK FALSE
INVARIANT ReportedIsDelivered
